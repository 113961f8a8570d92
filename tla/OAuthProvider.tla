--------------------------- MODULE OAuthProvider ---------------------------
(***************************************************************************)
(* Signing in: the OAuth provider and the store it keeps its state in.     *)
(*                                                                         *)
(* A worker is one server process.  Its handlers run one at a time, and    *)
(* give way to others only while the identity provider (external) answers; *)
(* with the SQLite store several workers share the rows, and a step is one *)
(* storage call of one worker.  The store is one set of rows: a pending    *)
(* authorization, an authorization code, an access or a refresh token.     *)
(* Every secret is a number; the two tokens of one answer share theirs.    *)
(* A row's "origin" is history: the sign-in it descends from.  The time is *)
(* abstracted to the rows whose time is past (live = FALSE).               *)
(***************************************************************************)
EXTENDS Naturals

CONSTANTS
  Workers,     \* server processes that share the store
  Apps,        \* client applications, each known by its redirect URIs
  Clients,     \* client ids; bounds the registrations
  Users,       \* people the identity provider knows
  Durable,     \* whether the store outlives a worker (SQLite) or not (memory)
  MaxSecrets,  \* bounds the secrets that are issued
  None

ASSUME DurableAssumption == Durable \in BOOLEAN
ASSUME SecretsAssumption == MaxSecrets \in Nat
ASSUME NobodyAssumption  == None \notin Clients \cup Users \cup Apps

VARIABLES
  clients,  \* clients[c]: the application registered as c, or None
  store,    \* the rows of pending_auth, auth_codes and tokens
  secrets,  \* how many secrets have been issued
  waiting,  \* callbacks that wait for the identity provider: [worker, row]
  at,       \* what each worker is in the middle of
  revoked   \* history: sign-ins whose refresh token was revoked on request

vars == <<clients, store, secrets, waiting, at, revoked>>

LoginKinds == {"pending", "code"}
TokenKinds == {"access", "refresh"}
Origin == [state : Nat, client : Clients, user : Users \cup {None}]
Row    == [kind : LoginKinds \cup TokenKinds, id : Nat, client : Clients,
           subject : Users \cup Clients \cup {None}, origin : Origin, live : BOOLEAN]

\* What a worker holds between two storage calls: the row it loaded and the
\* client it serves, or the application it registers.
Idle == [do |-> "idle"]

Init ==
  /\ clients = [c \in Clients |-> None]
  /\ store = {}
  /\ secrets = 0
  /\ waiting = {}
  /\ at = [w \in Workers |-> Idle]
  /\ revoked = {}

-----------------------------------------------------------------------------
(* The store.                                                              *)

Become(w, what) == at' = [at EXCEPT ![w] = what]

\* An idle worker takes a request of a registered client.
Serves(w, c) == at[w] = Idle /\ clients[c] # None

NewRow(kind, id, client, subject, origin) ==
  [kind |-> kind, id |-> id, client |-> client, subject |-> subject,
   origin |-> origin, live |-> TRUE]

\* A row is added; now and then the expired ones are purged first.
Insert(row) ==
  \/ store' = store \cup {row}
  \/ store' = {r \in store : r.live} \cup {row}

SameKey(r, row) == r.kind = row.kind /\ r.id = row.id

\* The row with this key is deleted, if it is still there.
Delete(row) == store' = {r \in store : ~SameKey(r, row)}

\* Mutant of Claim: what is used is not deleted.
Peek(row) == row \in store /\ UNCHANGED store

\* A single-use row is read and deleted in one step (_claim_one, dict.pop).
Claim(row) == row \in store /\ Delete(row)

\* A new secret.
Issue == secrets < MaxSecrets /\ secrets' = secrets + 1

-----------------------------------------------------------------------------
(* register_client(): look for the application, then store a new client.   *)

\* Mutant of FindClient: the application is not looked for.
FindNoClient(w, a) ==
  /\ at[w] = Idle
  /\ Become(w, [do |-> "register", app |-> a])
  /\ UNCHANGED <<clients, store, secrets, waiting, revoked>>

FindClient(w, a) ==
  /\ at[w] = Idle
  /\ \A c \in Clients : clients[c] # a
  /\ Become(w, [do |-> "register", app |-> a])
  /\ UNCHANGED <<clients, store, secrets, waiting, revoked>>

StoreClient(w) ==
  /\ at[w].do = "register"
  /\ \E c \in Clients :
       /\ clients[c] = None
       /\ clients' = [clients EXCEPT ![c] = at[w].app]
  /\ Become(w, Idle)
  /\ UNCHANGED <<store, secrets, waiting, revoked>>

-----------------------------------------------------------------------------
(* authorize() and the callback of the identity provider.                  *)

Authorize(w, c) ==
  /\ Serves(w, c)
  /\ Issue
  /\ Insert(NewRow("pending", secrets', c, None,
                   [state |-> secrets', client |-> c, user |-> None]))
  /\ UNCHANGED <<clients, waiting, at, revoked>>

\* Mutant of IdpCallback: the time of the pending row is not looked at.
IdpCallbackLate(w) ==
  /\ at[w] = Idle
  /\ \E row \in store :
       /\ row.kind = "pending"
       /\ Claim(row)
       /\ waiting' = waiting \cup {[worker |-> w, row |-> row]}
  /\ UNCHANGED <<clients, secrets, at, revoked>>

\* The pending row is consumed before the identity provider is asked.
IdpCallback(w) ==
  /\ at[w] = Idle
  /\ \E row \in store :
       /\ row.kind = "pending"
       /\ Claim(row)
       /\ waiting' = IF row.live THEN waiting \cup {[worker |-> w, row |-> row]} ELSE waiting
  /\ UNCHANGED <<clients, secrets, at, revoked>>

\* Mutant of IdpAnswers: the client is noted in the place of the user.
IdpAnswersClient(w) ==
  /\ at[w] = Idle
  /\ \E x \in waiting :
       /\ x.worker = w
       /\ waiting' = waiting \ {x}
       /\ Issue
       /\ Insert(NewRow("code", secrets', x.row.client, x.row.client,
                        [x.row.origin EXCEPT !.user = x.row.client]))
  /\ UNCHANGED <<clients, at, revoked>>

\* It answers with the user, and a code is stored; or the exchange of its code
\* or the validation of its token fails, and the sign-in is over.
IdpAnswers(w) ==
  /\ at[w] = Idle
  /\ \E x \in waiting :
       /\ x.worker = w
       /\ waiting' = waiting \ {x}
       /\ \/ UNCHANGED <<store, secrets>>
          \/ \E u \in Users :
               /\ Issue
               /\ Insert(NewRow("code", secrets', x.row.client, u,
                                [x.row.origin EXCEPT !.user = u]))
  /\ UNCHANGED <<clients, at, revoked>>

-----------------------------------------------------------------------------
(* The token endpoint, with an authorization code.                         *)

\* Mutant of LoadCode: the client that presents the code is not looked at.
LoadAnyonesCode(w, c) ==
  /\ Serves(w, c)
  /\ \E row \in store :
       /\ row.kind = "code"
       /\ Claim(row)
       /\ \/ UNCHANGED <<at, secrets>>
          \/ /\ row.live
             /\ Issue
             /\ Become(w, [do |-> "grant_access", row |-> row, client |-> c, id |-> secrets'])
  /\ UNCHANGED <<clients, waiting, revoked>>

\* load_authorization_code() consumes the code whoever presents it.  An expired
\* code, another client's, or one that fails the library's checks (redirect
\* URI, PKCE) ends the request here; otherwise the tokens are generated.
LoadCode(w, c) ==
  /\ Serves(w, c)
  /\ \E row \in store :
       /\ row.kind = "code"
       /\ Claim(row)
       /\ \/ UNCHANGED <<at, secrets>>
          \/ /\ row.live
             /\ row.client = c
             /\ Issue
             /\ Become(w, [do |-> "grant_access", row |-> row, client |-> c, id |-> secrets'])
  /\ UNCHANGED <<clients, waiting, revoked>>

\* The two store_..._token calls that end both exchanges.
StoreAccess(w, subject, next) ==
  /\ Insert(NewRow("access", at[w].id, at[w].client, subject, at[w].row.origin))
  /\ Become(w, [at[w] EXCEPT !.do = next])
  /\ UNCHANGED <<clients, secrets, waiting, revoked>>

StoreRefresh(w, subject) ==
  /\ Insert(NewRow("refresh", at[w].id, at[w].client, subject, at[w].row.origin))
  /\ Become(w, Idle)
  /\ UNCHANGED <<clients, secrets, waiting, revoked>>

\* exchange_authorization_code() names the client as the subject of both tokens.
GrantSubject(w) == at[w].row.client

GrantAccess(w)  == at[w].do = "grant_access" /\ StoreAccess(w, GrantSubject(w), "grant_refresh")
GrantRefresh(w) == at[w].do = "grant_refresh" /\ StoreRefresh(w, GrantSubject(w))

-----------------------------------------------------------------------------
(* The token endpoint, with a refresh token.                               *)

\* load_refresh_token() reads the row and leaves it.
LoadRefresh(w, c) ==
  /\ Serves(w, c)
  /\ \E row \in store :
       /\ row.kind = "refresh" /\ row.live /\ row.client = c
       /\ Become(w, [do |-> "rotate", row |-> row, client |-> c, id |-> 0])
  /\ UNCHANGED <<clients, store, secrets, waiting, revoked>>

\* exchange_refresh_token() reads it again: it may have been rotated, revoked
\* or expired meanwhile.
ReloadRefresh(w) ==
  /\ at[w].do = "rotate"
  /\ \/ at[w].row \in store /\ Become(w, [at[w] EXCEPT !.do = "retire"]) /\ UNCHANGED store
     \/ at[w].row \notin store /\ Become(w, Idle) /\ Delete(at[w].row)
  /\ UNCHANGED <<clients, secrets, waiting, revoked>>

\* Mutant of RetireRefresh: the old token stays.
KeepRefresh(w) ==
  /\ at[w].do = "retire"
  /\ Issue
  /\ Become(w, [at[w] EXCEPT !.do = "rotate_access", !.id = secrets'])
  /\ UNCHANGED <<clients, store, waiting, revoked>>

\* The old token is revoked, and new ones are generated; whether the old one
\* was still there is not looked at.
RetireRefresh(w) ==
  /\ at[w].do = "retire"
  /\ Issue
  /\ Delete(at[w].row)
  /\ Become(w, [at[w] EXCEPT !.do = "rotate_access", !.id = secrets'])
  /\ UNCHANGED <<clients, waiting, revoked>>

\* Mutant of RotatedSubject: the subject is lost on the way.
LostSubject(w) == None

\* The new tokens carry the subject of the old one.
RotatedSubject(w) == at[w].row.subject

RotateAccess(w)  == at[w].do = "rotate_access" /\ StoreAccess(w, RotatedSubject(w), "rotate_refresh")
RotateRefresh(w) == at[w].do = "rotate_refresh" /\ StoreRefresh(w, RotatedSubject(w))

-----------------------------------------------------------------------------
(* Revocation, expiry, and the end of a worker.                            *)

\* The revocation endpoint loads the token, and then revokes it.
LoadForRevoke(w, c) ==
  /\ Serves(w, c)
  /\ \E row \in store :
       /\ row.kind \in TokenKinds /\ row.live /\ row.client = c
       /\ Become(w, [do |-> "revoke", row |-> row, client |-> c, id |-> 0])
  /\ UNCHANGED <<clients, store, secrets, waiting, revoked>>

\* Mutant of RevokeToken: only an access token is deleted.
RevokeAccessOnly(w) ==
  /\ at[w].do = "revoke"
  /\ IF at[w].row.kind = "access" THEN Delete(at[w].row) ELSE UNCHANGED store
  /\ revoked' = IF at[w].row.kind = "refresh" THEN revoked \cup {at[w].row.origin} ELSE revoked
  /\ Become(w, Idle)
  /\ UNCHANGED <<clients, secrets, waiting>>

RevokeToken(w) ==
  /\ at[w].do = "revoke"
  /\ Delete(at[w].row)
  /\ revoked' = IF at[w].row.kind = "refresh" THEN revoked \cup {at[w].row.origin} ELSE revoked
  /\ Become(w, Idle)
  /\ UNCHANGED <<clients, secrets, waiting>>

\* A token that is looked up after its time is dropped and not returned.
DropExpired(w) ==
  /\ at[w] = Idle
  /\ \E row \in store :
       /\ row.kind \in TokenKinds
       /\ ~row.live
       /\ Delete(row)
  /\ UNCHANGED <<clients, secrets, waiting, at, revoked>>

Expire ==
  /\ \E row \in store :
       /\ row.live
       /\ store' = (store \ {row}) \cup {[row EXCEPT !.live = FALSE]}
  /\ UNCHANGED <<clients, secrets, waiting, at, revoked>>

\* A worker stops and starts again.
Restart(w) ==
  /\ Become(w, Idle)
  /\ waiting' = {x \in waiting : x.worker # w}
  /\ IF Durable THEN UNCHANGED <<clients, store>>
                ELSE clients' = [c \in Clients |-> None] /\ store' = {}
  /\ UNCHANGED <<secrets, revoked>>

-----------------------------------------------------------------------------
Next ==
  \/ \E w \in Workers :
       \/ \E a \in Apps : FindClient(w, a)
       \/ \E c \in Clients : Authorize(w, c) \/ LoadCode(w, c) \/ LoadRefresh(w, c)
                             \/ LoadForRevoke(w, c)
       \/ StoreClient(w) \/ IdpCallback(w) \/ IdpAnswers(w)
       \/ GrantAccess(w) \/ GrantRefresh(w)
       \/ ReloadRefresh(w) \/ RetireRefresh(w) \/ RotateAccess(w) \/ RotateRefresh(w)
       \/ RevokeToken(w) \/ DropExpired(w) \/ Restart(w)
  \/ Expire

Spec == Init /\ [][Next]_vars

-----------------------------------------------------------------------------
Tasks == {"grant_access", "grant_refresh", "rotate", "retire", "rotate_access",
          "rotate_refresh", "revoke"}

TypeOK ==
  /\ clients \in [Clients -> Apps \cup {None}]
  /\ store \subseteq Row
  /\ secrets \in Nat
  /\ waiting \subseteq [worker : Workers, row : Row]
  /\ at \in [Workers -> {Idle} \cup [do : {"register"}, app : Apps]
                        \cup [do : Tasks, row : Row, client : Clients, id : Nat]]
  /\ revoked \subseteq Origin

\* What a worker does for the sign-in that began with state s.
Doing(w, tasks, s) == at[w].do \in tasks /\ at[w].row.origin.state = s

RowsOf(kinds, s) == {r \in store : r.kind \in kinds /\ r.origin.state = s}

\* Where a sign-in is: a row still to be claimed, a callback that waits, a worker
\* that is about to grant it, or granted.
LoginPlaces(s) ==
  {<<"row", r>> : r \in RowsOf(LoginKinds, s)}
  \cup {<<"callback", x>> : x \in {y \in waiting : y.row.origin.state = s}}
  \cup {<<"worker", w>> : w \in {v \in Workers : Doing(v, {"grant_access"}, s)}}
  \cup {<<"granted">> : r \in RowsOf(TokenKinds, s)}
  \cup {<<"granted">> : w \in {v \in Workers : Doing(v, Tasks \ {"grant_access"}, s)}}

\* A sign-in is used once: it is in at most one place, however many workers race
\* for its state and its code.  Nothing is claimed twice and nothing comes back.
LoginSingleUse == \A s \in 1..secrets : \A p, q \in LoginPlaces(s) : p = q

\* An expired sign-in goes nowhere: nobody gets a code or a token from a state
\* or a code whose time was past when it was presented.
ExpiredLoginEnds ==
  [][\A r \in store : r.kind \in LoginKinds /\ ~r.live
       => LoginPlaces(r.origin.state)' \subseteq LoginPlaces(r.origin.state)]_vars

\* What is issued stays with the client that asked for the sign-in.
ClientKept == \A r \in store : r.client = r.origin.client

\* However often the tokens of a sign-in are refreshed, they name one subject.
SubjectSurvivesRefresh ==
  \A r, q \in store : r.kind \in TokenKinds /\ q.kind \in TokenKinds /\ r.origin = q.origin
    => r.subject = q.subject

\* test_auth_edges.py:113, "Two tabs refreshing at once must not both consume the
\* same token": the right to refresh a sign-in is held once, by a refresh token or
\* by a worker that is about to store one.  True of one worker, not of two.
RefreshPlaces(s) ==
  {<<"row", r>> : r \in RowsOf({"refresh"}, s)}
  \cup {<<"worker", w>> : w \in {v \in Workers : Doing(v, Tasks \ {"rotate", "retire", "revoke"}, s)}}

OneRefreshToken == \A s \in 1..secrets : \A p, q \in RefreshPlaces(s) : p = q

\* With one worker, a refresh token that was revoked on request was the last one
\* of its sign-in: no rotation leaves a second one behind.
RevocationEndsLogin == \A o \in revoked : RefreshPlaces(o.state) = {}

\* register_client is idempotent: with one worker, an application has one client
\* id, however often it registers.
OneClientPerApp ==
  \A c, d \in Clients : clients[c] = clients[d] /\ clients[c] # None => c = d
=============================================================================
