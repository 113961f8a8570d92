------------------------- MODULE OAuthProviderProofs -------------------------
(***************************************************************************)
(* Theorems about OAuthProvider, for any workers, applications, clients    *)
(* and users, and whether the store outlives them or not.  What a row, a   *)
(* callback or a worker holds belongs to the client that asked for the     *)
(* sign-in (KeptInv), and a sign-in is in one place only, since each step  *)
(* moves it and a new one has a new number (PlacesInv).                    *)
(* With one worker, moreover, a sign-in has one refresh token at most,     *)
(* and none once it is revoked (RefreshInv), and no two registrations are  *)
(* of one application (ClientsInv).                                        *)
(***************************************************************************)
EXTENDS OAuthProvider, TLAPS

WorkerSet == {Idle} \cup [do : {"register"}, app : Apps]
                    \cup [do : Tasks, row : Row, client : Clients, id : Nat]
TaskSet == [do : Tasks, row : Row, client : Clients, id : Nat]

\* A row belongs to the client of its sign-in, and tokens name that client.
Kept(r) ==
  /\ r.client = r.origin.client
  /\ r.kind \in TokenKinds => r.subject = r.client

KeptInv ==
  /\ TypeOK
  /\ \A r \in store : Kept(r)
  /\ \A x \in waiting : Kept(x.row)
  /\ \A w \in Workers : at[w].do \in Tasks =>
       /\ Kept(at[w].row) /\ at[w].client = at[w].row.client
       /\ at[w].do \in {"rotate", "retire", "rotate_access", "rotate_refresh"} => at[w].row.kind = "refresh"

-----------------------------------------------------------------------------
(* The shape of things.                                                    *)

LEMMA TaskShape ==
  ASSUME TypeOK, NEW w \in Workers, at[w].do \in Tasks
  PROVE  at[w] \in TaskSet
<1>1. at[w] \in {Idle} \cup [do : {"register"}, app : Apps] \cup TaskSet
  BY DEF TypeOK, TaskSet, WorkerSet
<1>2. at[w] # Idle
  <2>1. Idle.do = "idle" /\ "idle" \notin Tasks
    BY DEF Idle, Tasks
  <2>2. QED
    BY <2>1
<1>3. at[w] \notin [do : {"register"}, app : Apps]
  BY DEF Tasks
<1>4. QED
  BY <1>1, <1>2, <1>3

\* What a worker becomes.
LEMMA BecomeShape ==
  ASSUME TypeOK, NEW w \in Workers, NEW what, Become(w, what),
         what \in WorkerSet
  PROVE  /\ at' \in [Workers -> WorkerSet]
         /\ at'[w] = what /\ \A v \in Workers \ {w} : at'[v] = at[v]
<1>1. at \in [Workers -> WorkerSet]
  BY DEF TypeOK, WorkerSet
<1>2. QED
  BY <1>1 DEF Become

LEMMA NewRowShape ==
  ASSUME NEW kind \in LoginKinds \cup TokenKinds, NEW id \in Nat, NEW c \in Clients,
         NEW subject \in Users \cup Clients \cup {None}, NEW o \in Origin
  PROVE  /\ NewRow(kind, id, c, subject, o) \in Row
         /\ NewRow(kind, id, c, subject, o).kind = kind
         /\ NewRow(kind, id, c, subject, o).client = c
         /\ NewRow(kind, id, c, subject, o).subject = subject
         /\ NewRow(kind, id, c, subject, o).origin = o
BY DEF NewRow, Row

\* What the store holds after a row is added, and after one is deleted.
LEMMA StoreGrows ==
  ASSUME NEW r, Insert(r)
  PROVE  r \in store' /\ store' \subseteq store \cup {r}
BY DEF Insert

LEMMA StoreShrinks ==
  ASSUME NEW r, Delete(r)
  PROVE  store' \subseteq store /\ r \notin store'
BY DEF Delete, SameKey

-----------------------------------------------------------------------------
(* Everything stays with its client.                                       *)

\* A step that takes rows away and leaves the workers alone, or idle.
LEMMA KeptShrinks ==
  ASSUME KeptInv, store' \subseteq store, waiting' \subseteq waiting,
         clients' \in [Clients -> Apps \cup {None}], secrets' = secrets, revoked' = revoked,
         at' = at \/ \E w \in Workers : Become(w, Idle)
  PROVE  KeptInv'
<1>1. at' \in [Workers -> WorkerSet] /\ \A v \in Workers : at'[v] \in {at[v], Idle}
  <2>1. CASE at' = at
    BY <2>1 DEF KeptInv, TypeOK, WorkerSet
  <2>2. ASSUME NEW w \in Workers, Become(w, Idle)
        PROVE  at' \in [Workers -> WorkerSet] /\ \A v \in Workers : at'[v] \in {at[v], Idle}
    <3>1. Idle \in WorkerSet
      BY DEF WorkerSet
    <3>2. QED
      BY <2>2, <3>1, BecomeShape DEF KeptInv
  <2>3. QED
    BY <2>1, <2>2
<1>2. TypeOK'
  BY <1>1 DEF KeptInv, TypeOK, WorkerSet
<1>3. Idle.do \notin Tasks
  BY DEF Idle, Tasks
<1>4. QED
  BY <1>1, <1>2, <1>3 DEF KeptInv

\* A step in which a worker takes up or goes on with a task, and at most adds a row.
LEMMA KeptTask ==
  ASSUME KeptInv, NEW w \in Workers, NEW task \in TaskSet, Become(w, task),
         Kept(task.row), task.client = task.row.client,
         task.do \in {"rotate", "retire", "rotate_access", "rotate_refresh"} => task.row.kind = "refresh",
         store' \subseteq Row, \A r \in store' : Kept(r),
         waiting' = waiting, clients' = clients, secrets' \in Nat, revoked' = revoked
  PROVE  KeptInv'
<1>1. task \in WorkerSet
  BY DEF WorkerSet, TaskSet
<1>2. at' \in [Workers -> WorkerSet] /\ at'[w] = task /\ \A v \in Workers \ {w} : at'[v] = at[v]
  BY <1>1, BecomeShape DEF KeptInv
<1>3. TypeOK'
  BY <1>2 DEF KeptInv, TypeOK, WorkerSet
<1>4. ASSUME NEW v \in Workers, at'[v].do \in Tasks
      PROVE  /\ Kept(at'[v].row) /\ at'[v].client = at'[v].row.client
             /\ at'[v].do \in {"rotate", "retire", "rotate_access", "rotate_refresh"} => at'[v].row.kind = "refresh"
  <2>1. CASE v = w
    BY <1>2, <2>1
  <2>2. CASE v # w
    BY <1>2, <1>4, <2>2 DEF KeptInv
  <2>3. QED
    BY <2>1, <2>2
<1>5. QED
  BY <1>3, <1>4 DEF KeptInv

\* A step that adds a row but leaves the workers alone.
LEMMA KeptAdds ==
  ASSUME KeptInv, NEW r \in Row, Kept(r), Insert(r), secrets' \in Nat,
         waiting' \subseteq waiting, at' = at, clients' = clients, revoked' = revoked
  PROVE  KeptInv'
<1>1. store' \subseteq store \cup {r}
  BY StoreGrows
<1>2. QED
  BY <1>1 DEF KeptInv, TypeOK

\* The row that ends an exchange, as far as the invariant goes.
LEMMA StoredKept ==
  ASSUME KeptInv, NEW w \in Workers, at[w].do \in Tasks, NEW kind \in TokenKinds,
         NEW subject, subject = at[w].client,
         Insert(NewRow(kind, at[w].id, at[w].client, subject, at[w].row.origin))
  PROVE  store' \subseteq Row /\ \A r \in store' : Kept(r)
<1> DEFINE new == NewRow(kind, at[w].id, at[w].client, subject, at[w].row.origin)
<1>1. at[w] \in TaskSet
  BY TaskShape DEF KeptInv
<1>2. /\ at[w].id \in Nat /\ at[w].client \in Clients /\ at[w].row \in Row
      /\ at[w].row.origin \in Origin /\ subject \in Users \cup Clients \cup {None}
  BY <1>1 DEF TaskSet, Row
<1>3. new \in Row /\ new.client = at[w].client /\ new.subject = subject /\ new.origin = at[w].row.origin
  BY <1>2, NewRowShape
<1>4. at[w].client = at[w].row.origin.client
  BY DEF KeptInv, Kept
<1>5. Kept(new)
  BY <1>3, <1>4 DEF Kept
<1>6. store' \subseteq store \cup {new}
  BY StoreGrows
<1> HIDE DEF new
<1>7. QED
  BY <1>3, <1>5, <1>6 DEF KeptInv, TypeOK

\* The two calls that store tokens, for the subject the tokens of the client have.
LEMMA StoreKeeps ==
  ASSUME KeptInv, NEW w \in Workers, at[w].do \in Tasks, NEW subject, subject = at[w].client,
         \/ StoreRefresh(w, subject)
         \/ StoreAccess(w, subject, "grant_refresh")
         \/ at[w].row.kind = "refresh" /\ StoreAccess(w, subject, "rotate_refresh")
  PROVE  KeptInv'
<1>1. at[w] \in TaskSet
  BY TaskShape DEF KeptInv
<1>2. store' \subseteq Row /\ \A r \in store' : Kept(r)
  BY StoredKept DEF StoreRefresh, StoreAccess, TokenKinds
<1>3. CASE StoreRefresh(w, subject)
  <2>1. /\ Become(w, Idle) /\ clients' = clients /\ secrets' = secrets
        /\ waiting' = waiting /\ revoked' = revoked
    BY <1>3 DEF StoreRefresh
  <2>2. Idle \in WorkerSet /\ Idle.do \notin Tasks
    BY DEF WorkerSet, Idle, Tasks
  <2>3. at' \in [Workers -> WorkerSet] /\ at'[w] = Idle /\ \A v \in Workers \ {w} : at'[v] = at[v]
    BY <2>1, <2>2, BecomeShape DEF KeptInv
  <2>4. TypeOK'
    BY <1>2, <2>1, <2>3 DEF KeptInv, TypeOK, WorkerSet
  <2>5. QED
    BY <1>2, <2>1, <2>2, <2>3, <2>4 DEF KeptInv
<1>4. ASSUME NEW next \in Tasks, StoreAccess(w, subject, next),
             next = "rotate_refresh" => at[w].row.kind = "refresh",
             next \in {"grant_refresh", "rotate_refresh"}
      PROVE  KeptInv'
  <2> DEFINE task == [at[w] EXCEPT !.do = next]
  <2>1. /\ task \in TaskSet /\ task.do = next /\ task.row = at[w].row /\ task.client = at[w].client
    BY <1>1 DEF TaskSet
  <2>2. /\ Become(w, task) /\ clients' = clients /\ secrets' = secrets
        /\ waiting' = waiting /\ revoked' = revoked
    BY <1>4 DEF StoreAccess
  <2>3. secrets' \in Nat
    BY <2>2 DEF KeptInv, TypeOK
  <2>4. Kept(at[w].row) /\ at[w].client = at[w].row.client
    BY DEF KeptInv
  <2> HIDE DEF task
  <2>5. QED
    BY <1>2, <1>4, <2>1, <2>2, <2>3, <2>4, KeptTask
<1>5. QED
  BY <1>3, <1>4 DEF Tasks

\* The store calls of the two exchanges.
LEMMA ExchangeKeeps ==
  ASSUME KeptInv, NEW w \in Workers,
         GrantAccess(w) \/ GrantRefresh(w) \/ RotateAccess(w) \/ RotateRefresh(w)
  PROVE  KeptInv'
<1>1. CASE GrantAccess(w) \/ GrantRefresh(w)
  <2>1. at[w].do \in Tasks
    BY <1>1 DEF GrantAccess, GrantRefresh, Tasks
  <2>2. GrantSubject(w) = at[w].client
    BY <2>1 DEF GrantSubject, KeptInv
  <2>3. QED
    BY <1>1, <2>1, <2>2, StoreKeeps DEF GrantAccess, GrantRefresh
<1>2. CASE RotateAccess(w) \/ RotateRefresh(w)
  <2>1. at[w].do \in Tasks /\ at[w].row.kind = "refresh"
    BY <1>2 DEF RotateAccess, RotateRefresh, Tasks, KeptInv
  <2>2. RotatedSubject(w) = at[w].client
    BY <2>1 DEF RotatedSubject, KeptInv, Kept, TokenKinds
  <2>3. QED
    BY <1>2, <2>1, <2>2, StoreKeeps DEF RotateAccess, RotateRefresh
<1>3. QED
  BY <1>1, <1>2

\* The requests to the token endpoint load a row of their own client.
LEMMA LoadKeeps ==
  ASSUME KeptInv, NEW w \in Workers, NEW c \in Clients,
         LoadCode(w, c) \/ LoadRefresh(w, c) \/ LoadForRevoke(w, c)
  PROVE  KeptInv'
<1> USE DEF KeptInv
<1>1. ASSUME NEW row \in store, NEW do \in Tasks, NEW id \in Nat, row.client = c,
             do = "rotate" => row.kind = "refresh", do \notin {"retire", "rotate_access", "rotate_refresh"},
             Become(w, [do |-> do, row |-> row, client |-> c, id |-> id]),
             store' \subseteq store, UNCHANGED <<clients, waiting, revoked>>, secrets' \in Nat
      PROVE  KeptInv'
  <2> DEFINE task == [do |-> do, row |-> row, client |-> c, id |-> id]
  <2>1. row \in Row
    BY <1>1 DEF TypeOK
  <2>2. task \in TaskSet /\ task.do = do /\ task.row = row /\ task.client = c
    BY <2>1 DEF TaskSet
  <2>3. store' \subseteq Row /\ \A r \in store' : Kept(r)
    BY <1>1 DEF TypeOK
  <2> HIDE DEF task
  <2>4. Become(w, task)
    BY <1>1 DEF task
  <2>5. QED
    BY <1>1, <2>2, <2>3, <2>4, KeptTask
<1>2. CASE LoadCode(w, c)
  <2>1. PICK row \in store :
          /\ row.kind = "code" /\ Claim(row)
          /\ \/ UNCHANGED <<at, secrets>>
             \/ /\ row.client = c /\ Issue
                /\ Become(w, [do |-> "grant_access", row |-> row, client |-> c, id |-> secrets'])
    BY <1>2 DEF LoadCode
  <2>2. store' \subseteq store /\ UNCHANGED <<clients, waiting, revoked>>
    BY <1>2, <2>1, StoreShrinks DEF LoadCode, Claim
  <2>3. CASE UNCHANGED <<at, secrets>>
    BY <2>2, <2>3, KeptShrinks DEF TypeOK
  <2>4. CASE /\ row.client = c /\ Issue
             /\ Become(w, [do |-> "grant_access", row |-> row, client |-> c, id |-> secrets'])
    <3>1. secrets' \in Nat
      BY <2>4 DEF Issue, TypeOK
    <3>2. QED
      BY <1>1, <2>2, <2>4, <3>1 DEF Tasks
  <2>5. QED
    BY <2>1, <2>3, <2>4
<1>3. CASE LoadRefresh(w, c)
  <2>1. PICK row \in store :
          /\ row.kind = "refresh" /\ row.client = c
          /\ Become(w, [do |-> "rotate", row |-> row, client |-> c, id |-> 0])
    BY <1>3 DEF LoadRefresh
  <2>2. UNCHANGED <<store, clients, waiting, revoked, secrets>> /\ secrets' \in Nat
    BY <1>3 DEF LoadRefresh, TypeOK
  <2>3. QED
    BY <1>1, <2>1, <2>2 DEF Tasks
<1>4. CASE LoadForRevoke(w, c)
  <2>1. PICK row \in store :
          /\ row.client = c
          /\ Become(w, [do |-> "revoke", row |-> row, client |-> c, id |-> 0])
    BY <1>4 DEF LoadForRevoke
  <2>2. UNCHANGED <<store, clients, waiting, revoked, secrets>> /\ secrets' \in Nat
    BY <1>4 DEF LoadForRevoke, TypeOK
  <2>3. QED
    BY <1>1, <2>1, <2>2 DEF Tasks
<1>5. QED
  BY <1>2, <1>3, <1>4

\* The steps of a rotation before it stores anything.
LEMMA RotationKeeps ==
  ASSUME KeptInv, NEW w \in Workers, ReloadRefresh(w) \/ RetireRefresh(w)
  PROVE  KeptInv'
<1> USE DEF KeptInv
<1>1. at[w].do \in {"rotate", "retire"} /\ at[w].do \in Tasks
  BY DEF ReloadRefresh, RetireRefresh, Tasks
<1>2. /\ at[w] \in TaskSet /\ Kept(at[w].row) /\ at[w].client = at[w].row.client
      /\ at[w].row.kind = "refresh"
  BY <1>1, TaskShape
<1>3. CASE ReloadRefresh(w) /\ at[w].row \in store
  <2> DEFINE task == [at[w] EXCEPT !.do = "retire"]
  <2>1. task \in TaskSet /\ task.do = "retire" /\ task.row = at[w].row /\ task.client = at[w].client
    BY <1>2 DEF TaskSet, Tasks
  <2>2. Become(w, task) /\ UNCHANGED <<store, clients, secrets, waiting, revoked>>
    BY <1>3 DEF ReloadRefresh
  <2>3. secrets' \in Nat /\ store' \subseteq Row /\ \A r \in store' : Kept(r)
    BY <2>2 DEF TypeOK
  <2> HIDE DEF task
  <2>4. QED
    BY <1>2, <2>1, <2>2, <2>3, KeptTask
<1>4. CASE ReloadRefresh(w) /\ at[w].row \notin store
  <2>1. Become(w, Idle) /\ Delete(at[w].row) /\ UNCHANGED <<clients, secrets, waiting, revoked>>
    BY <1>4 DEF ReloadRefresh
  <2>2. store' \subseteq store
    BY <2>1, StoreShrinks
  <2>3. QED
    BY <2>1, <2>2, KeptShrinks DEF TypeOK
<1>5. CASE RetireRefresh(w)
  <2> DEFINE task == [at[w] EXCEPT !.do = "rotate_access", !.id = secrets']
  <2>1. secrets' \in Nat
    BY <1>5 DEF RetireRefresh, Issue, TypeOK
  <2>2. task \in TaskSet /\ task.do = "rotate_access" /\ task.row = at[w].row /\ task.client = at[w].client
    BY <1>2, <2>1 DEF TaskSet, Tasks
  <2>3. Become(w, task) /\ Delete(at[w].row) /\ UNCHANGED <<clients, waiting, revoked>>
    BY <1>5 DEF RetireRefresh
  <2>4. store' \subseteq Row /\ \A r \in store' : Kept(r)
    BY <2>3, StoreShrinks DEF TypeOK
  <2> HIDE DEF task
  <2>5. QED
    BY <1>2, <2>1, <2>2, <2>3, <2>4, KeptTask
<1>6. QED
  BY <1>3, <1>4, <1>5

\* A sign-in begins, waits for the identity provider, and gets its code.
LEMMA LoginKeeps ==
  ASSUME KeptInv, NEW w \in Workers,
         (\E c \in Clients : Authorize(w, c)) \/ IdpCallback(w) \/ IdpAnswers(w)
  PROVE  KeptInv'
<1> USE DEF KeptInv
<1>1. ASSUME NEW c \in Clients, Authorize(w, c) PROVE KeptInv'
  <2> DEFINE o == [state |-> secrets', client |-> c, user |-> None]
             r == NewRow("pending", secrets', c, None, o)
  <2>1. secrets' \in Nat /\ UNCHANGED <<clients, waiting, at, revoked>> /\ Insert(r)
    BY <1>1 DEF Authorize, Issue, TypeOK
  <2>2. o \in Origin /\ o.client = c
    BY <2>1 DEF Origin
  <2> HIDE DEF o
  <2>3. r \in Row /\ r.kind = "pending" /\ r.client = c /\ r.origin = o
    BY <2>1, <2>2, NewRowShape DEF LoginKinds
  <2> HIDE DEF r
  <2>4. Kept(r)
    BY <2>2, <2>3 DEF Kept, TokenKinds
  <2>5. QED
    BY <2>1, <2>3, <2>4, KeptAdds
<1>2. CASE IdpCallback(w)
  <2>1. PICK row \in store :
          Claim(row) /\ waiting' \subseteq waiting \cup {[worker |-> w, row |-> row]}
    BY <1>2 DEF IdpCallback
  <2>2. store' \subseteq store /\ UNCHANGED <<clients, secrets, at, revoked>>
    BY <1>2, <2>1, StoreShrinks DEF IdpCallback, Claim
  <2>3. row \in Row /\ Kept(row)
    BY DEF TypeOK
  <2>4. QED
    BY <2>1, <2>2, <2>3 DEF TypeOK
<1>3. CASE IdpAnswers(w)
  <2>1. PICK x \in waiting :
          /\ waiting' = waiting \ {x}
          /\ \/ UNCHANGED <<store, secrets>>
             \/ \E u \in Users : Issue /\ Insert(NewRow("code", secrets', x.row.client, u,
                                                        [x.row.origin EXCEPT !.user = u]))
    BY <1>3 DEF IdpAnswers
  <2>2. UNCHANGED <<clients, at, revoked>>
    BY <1>3 DEF IdpAnswers
  <2>3. CASE UNCHANGED <<store, secrets>>
    BY <2>1, <2>2, <2>3, KeptShrinks DEF TypeOK
  <2>4. ASSUME NEW u \in Users, Issue,
               Insert(NewRow("code", secrets', x.row.client, u, [x.row.origin EXCEPT !.user = u]))
        PROVE  KeptInv'
    <3> DEFINE o == [x.row.origin EXCEPT !.user = u]
               r == NewRow("code", secrets', x.row.client, u, o)
    <3>1. x.row \in Row /\ Kept(x.row) /\ x.row.origin \in Origin /\ x.row.client \in Clients
      BY DEF TypeOK, Row
    <3>2. o \in Origin /\ o.client = x.row.origin.client
      BY <3>1 DEF Origin
    <3>3. secrets' \in Nat
      BY <2>4 DEF Issue, TypeOK
    <3> HIDE DEF o
    <3>4. r \in Row /\ r.kind = "code" /\ r.client = x.row.client /\ r.origin = o
      BY <3>1, <3>2, <3>3, NewRowShape DEF LoginKinds
    <3>5. Insert(r)
      BY <2>4 DEF o
    <3> HIDE DEF r
    <3>6. Kept(r)
      BY <3>1, <3>2, <3>4 DEF Kept, TokenKinds
    <3>7. QED
      BY <2>1, <2>2, <3>3, <3>4, <3>5, <3>6, KeptAdds
  <2>5. QED
    BY <2>1, <2>3, <2>4
<1>4. QED
  BY <1>1, <1>2, <1>3

\* Registration, revocation, expiry and restarts.
LEMMA OthersKeep ==
  ASSUME KeptInv, NEW w \in Workers,
         \/ \E a \in Apps : FindClient(w, a)
         \/ StoreClient(w) \/ RevokeToken(w) \/ DropExpired(w) \/ Restart(w)
  PROVE  KeptInv'
<1> USE DEF KeptInv
<1>1. ASSUME NEW a \in Apps, FindClient(w, a) PROVE KeptInv'
  <2> DEFINE what == [do |-> "register", app |-> a]
  <2>1. what \in WorkerSet /\ what.do \notin Tasks
    BY DEF WorkerSet, Tasks
  <2>2. Become(w, what) /\ UNCHANGED <<clients, store, secrets, waiting, revoked>>
    BY <1>1 DEF FindClient
  <2> HIDE DEF what
  <2>3. at' \in [Workers -> WorkerSet] /\ at'[w] = what /\ \A v \in Workers \ {w} : at'[v] = at[v]
    BY <2>1, <2>2, BecomeShape
  <2>4. TypeOK'
    BY <2>2, <2>3 DEF TypeOK, WorkerSet
  <2>5. QED
    BY <2>1, <2>2, <2>3, <2>4
<1>2. CASE StoreClient(w)
  <2>1. at[w].app \in Apps
    <3>1. at[w].do = "register" /\ at[w] \in WorkerSet
      BY <1>2 DEF StoreClient, TypeOK, WorkerSet
    <3>2. at[w] # Idle
      BY <3>1 DEF Idle
    <3>3. at[w] \notin TaskSet
      BY <3>1 DEF TaskSet, Tasks
    <3>4. at[w] \in [do : {"register"}, app : Apps]
      BY <3>1, <3>2, <3>3 DEF WorkerSet, TaskSet
    <3>5. QED
      BY <3>4
  <2>2. clients' \in [Clients -> Apps \cup {None}]
    BY <1>2, <2>1 DEF StoreClient, TypeOK
  <2>3. Become(w, Idle) /\ UNCHANGED <<store, secrets, waiting, revoked>>
    BY <1>2 DEF StoreClient
  <2>4. QED
    BY <2>2, <2>3, KeptShrinks
<1>3. CASE RevokeToken(w)
  <2>1. at[w].do = "revoke" /\ Delete(at[w].row) /\ Become(w, Idle) /\ UNCHANGED <<clients, secrets, waiting>>
    BY <1>3 DEF RevokeToken
  <2>2. at[w].row.origin \in Origin
    BY <2>1, TaskShape DEF Tasks, TaskSet, Row
  <2>3. revoked' \subseteq Origin
    BY <1>3, <2>2 DEF RevokeToken, TypeOK
  <2>4. store' \subseteq store
    BY <2>1, StoreShrinks
  <2>5. Idle \in WorkerSet /\ Idle.do \notin Tasks
    BY DEF WorkerSet, Idle, Tasks
  <2>6. at' \in [Workers -> WorkerSet] /\ at'[w] = Idle /\ \A v \in Workers \ {w} : at'[v] = at[v]
    BY <2>1, <2>5, BecomeShape
  <2>7. TypeOK'
    BY <2>1, <2>3, <2>4, <2>6 DEF TypeOK, WorkerSet
  <2>8. QED
    BY <2>1, <2>4, <2>5, <2>6, <2>7
<1>4. CASE DropExpired(w)
  <2>1. store' \subseteq store /\ UNCHANGED <<clients, secrets, waiting, at, revoked>>
    BY <1>4, StoreShrinks DEF DropExpired
  <2>2. QED
    BY <2>1, KeptShrinks DEF TypeOK
<1>5. CASE Restart(w)
  <2>1. /\ Become(w, Idle) /\ waiting' \subseteq waiting /\ store' \subseteq store
        /\ clients' \in [Clients -> Apps \cup {None}] /\ UNCHANGED <<secrets, revoked>>
    BY <1>5 DEF Restart, TypeOK
  <2>2. QED
    BY <2>1, KeptShrinks
<1>6. QED
  BY <1>1, <1>2, <1>3, <1>4, <1>5

LEMMA ExpireKeeps == ASSUME KeptInv, Expire PROVE KeptInv'
<1>1. PICK row \in store : store' = (store \ {row}) \cup {[row EXCEPT !.live = FALSE]}
  BY DEF Expire
<1> DEFINE r == [row EXCEPT !.live = FALSE]
<1>2. row \in Row /\ Kept(row)
  BY DEF KeptInv, TypeOK
<1>3. r \in Row /\ r.kind = row.kind /\ r.client = row.client /\ r.subject = row.subject /\ r.origin = row.origin
  BY <1>2 DEF Row
<1> HIDE DEF r
<1>4. Kept(r)
  BY <1>2, <1>3 DEF Kept
<1>5. store' \subseteq store \cup {r} /\ UNCHANGED <<clients, secrets, waiting, at, revoked>>
  BY <1>1 DEF r, Expire
<1>6. QED
  BY <1>3, <1>4, <1>5 DEF KeptInv, TypeOK

LEMMA KeptStep == KeptInv /\ [Next]_vars => KeptInv'
<1> SUFFICES ASSUME KeptInv, [Next]_vars PROVE KeptInv'
  OBVIOUS
<1>1. CASE UNCHANGED vars
  BY <1>1 DEF vars, KeptInv, TypeOK
<1>2. QED
  BY <1>1, OthersKeep, ExpireKeeps, LoginKeeps, LoadKeeps, RotationKeeps, ExchangeKeeps DEF Next

LEMMA KeptBegins == Init => KeptInv
<1> SUFFICES ASSUME Init PROVE KeptInv
  OBVIOUS
<1>1. Idle.do \notin Tasks
  BY DEF Idle, Tasks
<1>2. QED
  BY <1>1 DEF Init, KeptInv, TypeOK

\* Every reachable state of the provider and its store has its shape.
THEOREM ProviderTypeOK == Spec => []TypeOK
<1>1. KeptInv => TypeOK
  BY DEF KeptInv
<1>2. QED
  BY <1>1, KeptBegins, KeptStep, PTL DEF Spec

\* What is issued stays with the client that asked for the sign-in, however many
\* workers serve its requests and whichever of them restart.
THEOREM IssuedToItsClient == Spec => []ClientKept
<1>1. KeptInv => ClientKept
  BY DEF KeptInv, Kept, ClientKept
<1>2. QED
  BY <1>1, KeptBegins, KeptStep, PTL DEF Spec

\* The tokens of a sign-in name one subject, however often they are refreshed.
THEOREM SubjectKept == Spec => []SubjectSurvivesRefresh
<1>1. KeptInv => SubjectSurvivesRefresh
  BY DEF KeptInv, Kept, SubjectSurvivesRefresh
<1>2. QED
  BY <1>1, KeptBegins, KeptStep, PTL DEF Spec

-----------------------------------------------------------------------------
(* A sign-in is in one place.                                              *)

Rows(s)     == RowsOf(LoginKinds, s)
Waiting(s)  == {y \in waiting : y.row.origin.state = s}
Granting(s) == {v \in Workers : Doing(v, {"grant_access"}, s)}
Granted(s)  == RowsOf(TokenKinds, s) # {} \/ \E v \in Workers : Doing(v, Tasks \ {"grant_access"}, s)

Nowhere(s) == Rows(s) = {} /\ Waiting(s) = {} /\ Granting(s) = {} /\ ~Granted(s)

OnePlace(s) ==
  /\ \A r, q \in Rows(s) : r = q
  /\ \A x, y \in Waiting(s) : x = y
  /\ \A v, w \in Granting(s) : v = w
  /\ Rows(s) # {} => Waiting(s) = {} /\ Granting(s) = {} /\ ~Granted(s)
  /\ Waiting(s) # {} => Granting(s) = {} /\ ~Granted(s)
  /\ Granting(s) # {} => ~Granted(s)

\* A sign-in that has not begun is nowhere.
PlaceOK(s) == OnePlace(s) /\ (s \notin 1..secrets => Nowhere(s))

PlacesInv == KeptInv /\ \A s \in Nat : PlaceOK(s)

LEMMA OnePlaceSuffices ==
  ASSUME NEW s, OnePlace(s)
  PROVE  \A p, q \in LoginPlaces(s) : p = q
<1>1. ASSUME NEW p \in LoginPlaces(s)
      PROVE  \/ \E r \in Rows(s) : p = <<"row", r>>
             \/ \E x \in Waiting(s) : p = <<"callback", x>>
             \/ \E w \in Granting(s) : p = <<"worker", w>>
             \/ Granted(s) /\ p = <<"granted">>
  BY <1>1 DEF LoginPlaces, Rows, Waiting, Granting, Granted
<1>2. QED
  BY <1>1, Zenon DEF OnePlace

\* Nothing new for this sign-in.
LEMMA PlaceShrinks ==
  ASSUME NEW s \in Nat, PlaceOK(s), secrets \in Nat, secrets' \in Nat, secrets' >= secrets,
         Rows(s)' \subseteq Rows(s), Waiting(s)' \subseteq Waiting(s),
         Granting(s)' \subseteq Granting(s), Granted(s)' => Granted(s)
  PROVE  PlaceOK(s)'
<1>1. s \notin 1..secrets' => s \notin 1..secrets
  OBVIOUS
<1>2. OnePlace(s)'
  BY DEF PlaceOK, OnePlace
<1>3. s \notin 1..secrets' => Nowhere(s)'
  BY <1>1 DEF PlaceOK, Nowhere
<1>4. QED
  BY <1>2, <1>3 DEF PlaceOK

\* Rows go, callbacks end, and workers are done.
LEMMA PlaceRests ==
  ASSUME PlacesInv, NEW s \in Nat, secrets' \in Nat, secrets' >= secrets,
         store' \subseteq store, waiting' \subseteq waiting,
         \A v \in Workers : at'[v] = at[v] \/ at'[v].do \notin Tasks
  PROVE  PlaceOK(s)'
<1>1. secrets \in Nat /\ PlaceOK(s)
  BY DEF PlacesInv, KeptInv, TypeOK
<1>2. Rows(s)' \subseteq Rows(s) /\ Waiting(s)' \subseteq Waiting(s)
  BY DEF Rows, Waiting, RowsOf
<1>3. Granting(s)' \subseteq Granting(s)
  BY DEF Granting, Doing, Tasks
<1>4. Granted(s)' => Granted(s)
  <2>1. RowsOf(TokenKinds, s)' \subseteq RowsOf(TokenKinds, s)
    BY DEF RowsOf
  <2>2. \A v \in Workers : Doing(v, Tasks \ {"grant_access"}, s)' => Doing(v, Tasks \ {"grant_access"}, s)
    BY DEF Doing
  <2>3. QED
    BY <2>1, <2>2 DEF Granted
<1>5. QED
  BY <1>1, <1>2, <1>3, <1>4, PlaceShrinks

\* A worker goes on with a sign-in that is granted already, and may add a token.
LEMMA PlaceGranted ==
  ASSUME PlacesInv, NEW s \in Nat, secrets' \in Nat, secrets' >= secrets, waiting' = waiting,
         NEW w \in Workers, NEW o, s = o => Granted(s),
         \A r \in store' : r \in store \/ (r.kind \in TokenKinds /\ r.origin.state = o),
         \A v \in Workers \ {w} : at'[v] = at[v],
         at'[w].do # "grant_access",
         at'[w].do \in Tasks => at'[w].row.origin.state = o
  PROVE  PlaceOK(s)'
<1>1. secrets \in Nat /\ PlaceOK(s)
  BY DEF PlacesInv, KeptInv, TypeOK
<1>2. Rows(s)' \subseteq Rows(s) /\ Waiting(s)' \subseteq Waiting(s)
  BY DEF Rows, Waiting, RowsOf, LoginKinds, TokenKinds
<1>3. Granting(s)' \subseteq Granting(s)
  BY DEF Granting, Doing
<1>4. Granted(s)' => Granted(s)
  <2>1. CASE s = o
    BY <2>1
  <2>2. CASE s # o
    <3>1. RowsOf(TokenKinds, s)' \subseteq RowsOf(TokenKinds, s)
      BY <2>2 DEF RowsOf
    <3>2. \A v \in Workers : Doing(v, Tasks \ {"grant_access"}, s)' => Doing(v, Tasks \ {"grant_access"}, s)
      BY <2>2 DEF Doing
    <3>3. QED
      BY <3>1, <3>2 DEF Granted
  <2>3. QED
    BY <2>1, <2>2
<1>5. QED
  BY <1>1, <1>2, <1>3, <1>4, PlaceShrinks

\* What a row or a worker says of a sign-in.
LEMMA TokenGrants ==
  ASSUME NEW r \in store, r.kind \in TokenKinds
  PROVE  Granted(r.origin.state)
BY DEF Granted, RowsOf

LEMMA WorkerGrants ==
  ASSUME NEW w \in Workers, at[w].do \in Tasks \ {"grant_access"}
  PROVE  Granted(at[w].row.origin.state)
BY DEF Granted, Doing

\* A token that is stored.
LEMMA StoresToken ==
  ASSUME KeptInv, NEW w \in Workers, at[w].do \in Tasks, NEW kind \in TokenKinds,
         NEW subject, Insert(NewRow(kind, at[w].id, at[w].client, subject, at[w].row.origin))
  PROVE  \A r \in store' : r \in store \/ (r.kind \in TokenKinds /\ r.origin.state = at[w].row.origin.state)
<1> DEFINE new == NewRow(kind, at[w].id, at[w].client, subject, at[w].row.origin)
<1>1. new.kind = kind /\ new.origin = at[w].row.origin
  BY DEF NewRow
<1>2. store' \subseteq store \cup {new}
  BY StoreGrows
<1> HIDE DEF new
<1>3. QED
  BY <1>1, <1>2

\* The steps of a sign-in that is granted.
LEMMA GrantedPlaces ==
  ASSUME PlacesInv, NEW w \in Workers, NEW s \in Nat,
         \/ \E c \in Clients : LoadRefresh(w, c) \/ LoadForRevoke(w, c)
         \/ ReloadRefresh(w) \/ RetireRefresh(w)
         \/ GrantRefresh(w) \/ RotateAccess(w) \/ RotateRefresh(w)
  PROVE  PlaceOK(s)'
<1>1. KeptInv /\ TypeOK /\ secrets \in Nat /\ at \in [Workers -> WorkerSet]
  BY DEF PlacesInv, KeptInv, TypeOK, WorkerSet
<1>2. \A what : Become(w, what) => at'[w] = what /\ \A v \in Workers \ {w} : at'[v] = at[v]
  BY <1>1 DEF Become
<1>3. Idle.do \notin Tasks /\ Idle.do # "grant_access"
  BY DEF Idle, Tasks
<1>4. ASSUME NEW c \in Clients, LoadRefresh(w, c) \/ LoadForRevoke(w, c) PROVE PlaceOK(s)'
  <2>1. PICK row \in store, do \in {"rotate", "revoke"} :
          row.kind \in TokenKinds /\ Become(w, [do |-> do, row |-> row, client |-> c, id |-> 0])
    BY <1>4 DEF LoadRefresh, LoadForRevoke, TokenKinds
  <2>2. at'[w].do = do /\ at'[w].row = row /\ \A v \in Workers \ {w} : at'[v] = at[v]
    BY <1>2, <2>1
  <2>3. UNCHANGED <<store, waiting, secrets>>
    BY <1>4 DEF LoadRefresh, LoadForRevoke
  <2> DEFINE o == row.origin.state
  <2>4. Granted(o) /\ at'[w].do # "grant_access" /\ at'[w].row.origin.state = o
    BY <2>1, <2>2, TokenGrants
  <2>5. /\ secrets' \in Nat /\ secrets' >= secrets /\ waiting' = waiting
        /\ \A r \in store' : r \in store
    BY <1>1, <2>3
  <2> HIDE DEF o
  <2>6. QED
    BY <2>2, <2>4, <2>5, PlaceGranted
<1>5. CASE ReloadRefresh(w) \/ RetireRefresh(w) \/ GrantRefresh(w) \/ RotateAccess(w) \/ RotateRefresh(w)
  <2> DEFINE o == at[w].row.origin.state
  <2>1. at[w].do \in Tasks \ {"grant_access"}
    BY <1>5 DEF ReloadRefresh, RetireRefresh, GrantRefresh, RotateAccess, RotateRefresh, Tasks
  <2>2. at[w] \in TaskSet /\ Granted(o)
    BY <1>1, <2>1, TaskShape, WorkerGrants
  <2>3. \A next : /\ [at[w] EXCEPT !.do = next].do = next
                  /\ [at[w] EXCEPT !.do = next].row = at[w].row
    BY <2>2 DEF TaskSet
  <2>4. /\ \A v \in Workers \ {w} : at'[v] = at[v]
        /\ at'[w].do # "grant_access" /\ (at'[w].do \in Tasks => at'[w].row.origin.state = o)
    <3>1. ASSUME NEW what, Become(w, what), what = Idle \/ (what.do # "grant_access" /\ what.row = at[w].row)
          PROVE  /\ \A v \in Workers \ {w} : at'[v] = at[v]
                 /\ at'[w].do # "grant_access" /\ (at'[w].do \in Tasks => at'[w].row.origin.state = o)
      <4>1. at'[w] = what /\ \A v \in Workers \ {w} : at'[v] = at[v]
        BY <1>1, <3>1 DEF Become
      <4>2. QED
        BY <1>3, <3>1, <4>1
    <3>2. CASE GrantRefresh(w) \/ RotateRefresh(w)
      BY <3>1, <3>2 DEF GrantRefresh, RotateRefresh, StoreRefresh
    <3>3. CASE RotateAccess(w)
      <4> DEFINE what == [at[w] EXCEPT !.do = "rotate_refresh"]
      <4>1. Become(w, what)
        BY <3>3 DEF RotateAccess, StoreAccess
      <4>2. what.do # "grant_access" /\ what.row = at[w].row
        BY <2>3
      <4> HIDE DEF what
      <4>3. QED
        BY <3>1, <4>1, <4>2
    <3>4. CASE ReloadRefresh(w)
      <4> DEFINE what == [at[w] EXCEPT !.do = "retire"]
      <4>1. Become(w, what) \/ Become(w, Idle)
        BY <3>4 DEF ReloadRefresh
      <4>2. what.do # "grant_access" /\ what.row = at[w].row
        BY <2>3
      <4> HIDE DEF what
      <4>3. QED
        BY <3>1, <4>1, <4>2
    <3>5. CASE RetireRefresh(w)
      <4> DEFINE what == [at[w] EXCEPT !.do = "rotate_access", !.id = secrets']
      <4>1. Become(w, what)
        BY <3>5 DEF RetireRefresh
      <4>2. what.do # "grant_access" /\ what.row = at[w].row
        BY <2>2 DEF TaskSet
      <4> HIDE DEF what
      <4>3. QED
        BY <3>1, <4>1, <4>2
    <3>6. QED
      BY <1>5, <3>2, <3>3, <3>4, <3>5
  <2>5. waiting' = waiting /\ secrets' \in Nat /\ secrets' >= secrets
    BY <1>1, <1>5 DEF ReloadRefresh, RetireRefresh, GrantRefresh, RotateAccess, RotateRefresh,
       StoreAccess, StoreRefresh, Issue
  <2>6. \A r \in store' : r \in store \/ (r.kind \in TokenKinds /\ r.origin.state = o)
    <3>1. CASE ReloadRefresh(w) \/ RetireRefresh(w)
      BY <3>1, StoreShrinks DEF ReloadRefresh, RetireRefresh
    <3>2. CASE GrantRefresh(w) \/ RotateAccess(w) \/ RotateRefresh(w)
      BY <1>1, <2>1, <3>2, StoresToken DEF GrantRefresh, RotateAccess, RotateRefresh, StoreAccess, StoreRefresh, TokenKinds
    <3>3. QED
      BY <1>5, <3>1, <3>2
  <2> HIDE DEF o
  <2>7. QED
    BY <2>2, <2>4, <2>5, <2>6, PlaceGranted
<1>6. QED
  BY <1>4, <1>5

\* The steps that only end something.
LEMMA EndingPlaces ==
  ASSUME PlacesInv, NEW w \in Workers, NEW s \in Nat,
         \/ \E a \in Apps : FindClient(w, a)
         \/ StoreClient(w) \/ RevokeToken(w) \/ DropExpired(w) \/ Restart(w)
  PROVE  PlaceOK(s)'
<1>1. KeptInv /\ TypeOK /\ secrets \in Nat /\ at \in [Workers -> WorkerSet]
  BY DEF PlacesInv, KeptInv, TypeOK, WorkerSet
<1>2. \A what : Become(w, what) => at'[w] = what /\ \A v \in Workers \ {w} : at'[v] = at[v]
  BY <1>1 DEF Become
<1>3. Idle.do \notin Tasks
  BY DEF Idle, Tasks
<1>4. secrets' = secrets /\ waiting' \subseteq waiting
  BY DEF FindClient, StoreClient, RevokeToken, DropExpired, Restart
<1>5. store' \subseteq store
  BY StoreShrinks DEF FindClient, StoreClient, RevokeToken, DropExpired, Restart
<1>6. \A v \in Workers : at'[v] = at[v] \/ at'[v].do \notin Tasks
  <2>1. ASSUME NEW a \in Apps, FindClient(w, a)
        PROVE  \A v \in Workers : at'[v] = at[v] \/ at'[v].do \notin Tasks
    <3>1. at'[w] = [do |-> "register", app |-> a] /\ \A v \in Workers \ {w} : at'[v] = at[v]
      BY <1>1, <2>1 DEF FindClient, Become
    <3>2. QED
      BY <3>1 DEF Tasks
  <2>2. CASE StoreClient(w) \/ RevokeToken(w) \/ Restart(w)
    <3>1. Become(w, Idle)
      BY <2>2 DEF StoreClient, RevokeToken, Restart
    <3>2. QED
      BY <1>2, <1>3, <3>1
  <2>3. CASE DropExpired(w)
    BY <2>3 DEF DropExpired
  <2>4. QED
    BY <2>1, <2>2, <2>3
<1>7. QED
  BY <1>1, <1>4, <1>5, <1>6, PlaceRests

\* A sign-in moves to a row: a state, a code, or either when its time is past.
LEMMA MovesToRow ==
  ASSUME PlacesInv, NEW s \in Nat, NEW r, r.kind \in LoginKinds,
         NEW o, r.origin.state = o, o \in 1..secrets', secrets' \in Nat, secrets' >= secrets,
         store' \subseteq store \cup {r}, waiting' \subseteq waiting, at' = at,
         s = o => /\ Rows(s)' \subseteq {r} /\ Waiting(s)' = {}
                  /\ Granting(s) = {} /\ ~Granted(s)
  PROVE  PlaceOK(s)'
<1>1. secrets \in Nat /\ PlaceOK(s)
  BY DEF PlacesInv, KeptInv, TypeOK
<1>2. Granting(s)' = Granting(s) /\ (Granted(s)' => Granted(s))
  <2>1. RowsOf(TokenKinds, s)' \subseteq RowsOf(TokenKinds, s)
    BY DEF RowsOf, LoginKinds, TokenKinds
  <2>2. QED
    BY <2>1 DEF Granting, Granted, Doing
<1>3. CASE s = o
  BY <1>2, <1>3 DEF PlaceOK, OnePlace
<1>4. CASE s # o
  <2>1. Rows(s)' \subseteq Rows(s) /\ Waiting(s)' \subseteq Waiting(s)
    BY <1>4 DEF Rows, RowsOf, Waiting
  <2>2. QED
    BY <1>1, <1>2, <2>1, PlaceShrinks
<1>5. QED
  BY <1>3, <1>4

LEMMA AuthorizePlaces ==
  ASSUME PlacesInv, NEW w \in Workers, NEW s \in Nat, NEW c \in Clients, Authorize(w, c)
  PROVE  PlaceOK(s)'
<1> DEFINE r == NewRow("pending", secrets', c, None, [state |-> secrets', client |-> c, user |-> None])
<1>1. /\ secrets \in Nat /\ secrets' = secrets + 1 /\ Insert(r)
      /\ waiting' = waiting /\ at' = at
  BY DEF Authorize, Issue, PlacesInv, KeptInv, TypeOK
<1>2. r.kind = "pending" /\ r.origin.state = secrets'
  BY DEF NewRow
<1>3. store' \subseteq store \cup {r}
  BY <1>1, StoreGrows
<1> HIDE DEF r
<1>4. ASSUME s = secrets'
      PROVE  Rows(s)' \subseteq {r} /\ Waiting(s)' = {} /\ Granting(s) = {} /\ ~Granted(s)
  <2>1. s \notin 1..secrets
    BY <1>1, <1>4
  <2>2. Nowhere(s)
    BY <2>1 DEF PlacesInv, PlaceOK
  <2>3. QED
    BY <1>1, <1>3, <2>2 DEF Nowhere, Rows, RowsOf, Waiting
<1>5. QED
  BY <1>1, <1>2, <1>3, <1>4, MovesToRow DEF LoginKinds

LEMMA AnswerPlaces ==
  ASSUME PlacesInv, NEW w \in Workers, NEW s \in Nat, IdpAnswers(w)
  PROVE  PlaceOK(s)'
<1>1. PICK x \in waiting :
        /\ waiting' = waiting \ {x}
        /\ \/ UNCHANGED <<store, secrets>>
           \/ \E u \in Users : Issue /\ Insert(NewRow("code", secrets', x.row.client, u,
                                                      [x.row.origin EXCEPT !.user = u]))
  BY DEF IdpAnswers
<1>2. at' = at /\ secrets \in Nat /\ x.row.origin \in Origin
  BY DEF IdpAnswers, PlacesInv, KeptInv, TypeOK, Row
<1>3. CASE UNCHANGED <<store, secrets>>
  BY <1>1, <1>2, <1>3, PlaceRests
<1>4. ASSUME NEW u \in Users, Issue,
             Insert(NewRow("code", secrets', x.row.client, u, [x.row.origin EXCEPT !.user = u]))
      PROVE  PlaceOK(s)'
  <2> DEFINE r == NewRow("code", secrets', x.row.client, u, [x.row.origin EXCEPT !.user = u])
             o == x.row.origin.state
  <2>1. r.kind = "code" /\ r.origin.state = o /\ o \in Nat
    BY <1>2 DEF NewRow, Origin
  <2>2. store' \subseteq store \cup {r} /\ secrets' = secrets + 1
    BY <1>4, StoreGrows DEF Issue
  <2>3. x \in Waiting(o)
    BY DEF Waiting
  <2> HIDE DEF r, o
  <2>4. PlaceOK(o)
    BY <2>1 DEF PlacesInv
  <2>5. /\ Rows(o) = {} /\ Waiting(o) = {x} /\ Granting(o) = {} /\ ~Granted(o) /\ o \in 1..secrets
    BY <2>3, <2>4 DEF PlaceOK, OnePlace, Nowhere
  <2>6. Rows(o)' \subseteq {r} /\ Waiting(o)' = {}
    BY <1>1, <2>2, <2>5 DEF Rows, RowsOf, Waiting
  <2>7. o \in 1..secrets' /\ secrets' \in Nat /\ secrets' >= secrets
    BY <1>2, <2>2, <2>5
  <2>8. QED
    BY <1>1, <1>2, <2>1, <2>2, <2>5, <2>6, <2>7, MovesToRow DEF LoginKinds
<1>5. QED
  BY <1>1, <1>3, <1>4

LEMMA ExpirePlaces ==
  ASSUME PlacesInv, NEW s \in Nat, Expire
  PROVE  PlaceOK(s)'
<1>1. PICK row \in store : store' = (store \ {row}) \cup {[row EXCEPT !.live = FALSE]}
  BY DEF Expire
<1> DEFINE r == [row EXCEPT !.live = FALSE]
           o == row.origin.state
<1>2. UNCHANGED <<secrets, waiting, at>> /\ secrets \in Nat /\ row \in Row
  BY DEF Expire, PlacesInv, KeptInv, TypeOK
<1>3. /\ r.kind = row.kind /\ r.origin.state = o /\ o \in Nat
      /\ store' \subseteq store \cup {r} /\ store' \subseteq (store \ {row}) \cup {r}
  BY <1>1, <1>2 DEF Row, Origin
<1> HIDE DEF r
<1>4. CASE row.kind \in LoginKinds
  <2>1. row \in Rows(o)
    BY <1>4 DEF Rows, RowsOf
  <2> HIDE DEF o
  <2>2. PlaceOK(o)
    BY <1>3 DEF PlacesInv
  <2>3. Rows(o) = {row} /\ Waiting(o) = {} /\ Granting(o) = {} /\ ~Granted(o) /\ o \in 1..secrets
    BY <2>1, <2>2 DEF PlaceOK, OnePlace, Nowhere
  <2>4. Rows(o)' \subseteq {r} /\ Waiting(o)' = {}
    BY <1>2, <1>3, <2>3 DEF Rows, RowsOf, Waiting
  <2>5. QED
    BY <1>2, <1>3, <1>4, <2>3, <2>4, MovesToRow
<1>5. CASE row.kind \notin LoginKinds
  <2>1. row.kind \in TokenKinds
    BY <1>2, <1>5 DEF Row
  <2>2. Rows(s)' \subseteq Rows(s) /\ Waiting(s)' = Waiting(s) /\ Granting(s)' = Granting(s)
    BY <1>2, <1>3, <1>5 DEF Rows, RowsOf, Waiting, Granting, Doing
  <2>3. Granted(s)' => Granted(s)
    <3>1. RowsOf(TokenKinds, s)' # {} => RowsOf(TokenKinds, s) # {}
      BY <1>3, <2>1 DEF RowsOf
    <3>2. QED
      BY <1>2, <3>1 DEF Granted, Doing
  <2>4. PlaceOK(s)
    BY DEF PlacesInv
  <2>5. QED
    BY <1>2, <2>2, <2>3, <2>4, PlaceShrinks
<1>6. QED
  BY <1>4, <1>5

\* What is claimed is the only place of its sign-in, and is gone.
LEMMA Claimed ==
  ASSUME PlacesInv, NEW row \in store, row.kind \in LoginKinds, Claim(row)
  PROVE  /\ row.origin.state \in 1..secrets /\ store' \subseteq store
         /\ Rows(row.origin.state)' = {} /\ Waiting(row.origin.state) = {}
         /\ Granting(row.origin.state) = {} /\ ~Granted(row.origin.state)
<1> DEFINE o == row.origin.state
<1>1. row \in Rows(o)
  BY DEF Rows, RowsOf
<1>2. o \in Nat /\ store' \subseteq store /\ row \notin store'
  BY StoreShrinks DEF Claim, PlacesInv, KeptInv, TypeOK, Row, Origin
<1> HIDE DEF o
<1>3. PlaceOK(o)
  BY <1>2 DEF PlacesInv
<1>4. Rows(o) = {row} /\ Waiting(o) = {} /\ Granting(o) = {} /\ ~Granted(o) /\ o \in 1..secrets
  BY <1>1, <1>3 DEF PlaceOK, OnePlace, Nowhere
<1>5. Rows(o)' = {}
  BY <1>2, <1>4 DEF Rows, RowsOf
<1>6. QED
  BY <1>2, <1>4, <1>5 DEF o

\* From a row to a callback, which nobody else can claim.
LEMMA CallbackPlaces ==
  ASSUME PlacesInv, NEW w \in Workers, NEW s \in Nat, IdpCallback(w)
  PROVE  PlaceOK(s)'
<1>1. PICK row \in store :
        /\ row.kind = "pending" /\ Claim(row)
        /\ waiting' \subseteq waiting \cup {[worker |-> w, row |-> row]}
  BY DEF IdpCallback
<1> DEFINE o == row.origin.state
           x == [worker |-> w, row |-> row]
<1>2. /\ o \in 1..secrets /\ store' \subseteq store
      /\ Rows(o)' = {} /\ Waiting(o) = {} /\ Granting(o) = {} /\ ~Granted(o)
  BY <1>1, Claimed DEF LoginKinds
<1>3. at' = at /\ secrets' = secrets /\ secrets \in Nat /\ x.row.origin.state = o
  BY DEF IdpCallback, PlacesInv, KeptInv, TypeOK
<1> HIDE DEF o, x
<1>4. waiting' \subseteq waiting \cup {x}
  BY <1>1 DEF x
<1>5. Granting(s)' = Granting(s) /\ (Granted(s)' => Granted(s))
  <2>1. RowsOf(TokenKinds, s)' \subseteq RowsOf(TokenKinds, s)
    BY <1>2 DEF RowsOf
  <2>2. QED
    BY <1>3, <2>1 DEF Granting, Granted, Doing
<1>6. CASE s = o
  <2>1. Waiting(s)' \subseteq {x}
    BY <1>2, <1>4, <1>6 DEF Waiting
  <2>2. QED
    BY <1>2, <1>3, <1>5, <1>6, <2>1 DEF PlaceOK, OnePlace
<1>7. CASE s # o
  <2>1. Rows(s)' \subseteq Rows(s) /\ Waiting(s)' \subseteq Waiting(s)
    BY <1>2, <1>3, <1>4, <1>7 DEF Rows, RowsOf, Waiting
  <2>2. PlaceOK(s)
    BY DEF PlacesInv
  <2>3. QED
    BY <1>3, <1>5, <2>1, <2>2, PlaceShrinks
<1>8. QED
  BY <1>6, <1>7

\* From a row to the worker that will grant it.
LEMMA CodePlaces ==
  ASSUME PlacesInv, NEW w \in Workers, NEW s \in Nat, NEW c \in Clients, LoadCode(w, c)
  PROVE  PlaceOK(s)'
<1>1. PICK row \in store :
        /\ row.kind = "code" /\ Claim(row)
        /\ \/ UNCHANGED <<at, secrets>>
           \/ Issue /\ Become(w, [do |-> "grant_access", row |-> row, client |-> c, id |-> secrets'])
  BY DEF LoadCode
<1> DEFINE o == row.origin.state
<1>2. /\ o \in 1..secrets /\ store' \subseteq store
      /\ Rows(o)' = {} /\ Waiting(o) = {} /\ Granting(o) = {} /\ ~Granted(o)
  BY <1>1, Claimed DEF LoginKinds
<1>3. waiting' = waiting /\ secrets \in Nat /\ at \in [Workers -> WorkerSet]
  BY DEF LoadCode, PlacesInv, KeptInv, TypeOK, WorkerSet
<1>4. CASE UNCHANGED <<at, secrets>>
  BY <1>2, <1>3, <1>4, PlaceRests
<1>5. CASE Issue /\ Become(w, [do |-> "grant_access", row |-> row, client |-> c, id |-> secrets'])
  <2>1. /\ at'[w].do = "grant_access" /\ at'[w].row.origin.state = o
        /\ \A v \in Workers \ {w} : at'[v] = at[v]
    BY <1>3, <1>5 DEF Become
  <2>2. secrets' = secrets + 1
    BY <1>5 DEF Issue
  <2> HIDE DEF o
  <2>3. Rows(s)' \subseteq Rows(s) /\ Waiting(s)' = Waiting(s)
    BY <1>2, <1>3 DEF Rows, RowsOf, Waiting
  <2>4. Granted(s)' => Granted(s)
    <3>1. RowsOf(TokenKinds, s)' \subseteq RowsOf(TokenKinds, s)
      BY <1>2 DEF RowsOf
    <3>2. \A v \in Workers : Doing(v, Tasks \ {"grant_access"}, s)' => Doing(v, Tasks \ {"grant_access"}, s)
      BY <2>1 DEF Doing
    <3>3. QED
      BY <3>1, <3>2 DEF Granted
  <2>5. CASE s = o
    <3>1. Granting(s)' \subseteq {w}
      BY <1>2, <2>1, <2>5 DEF Granting, Doing
    <3>2. s \in 1..secrets'
      BY <1>2, <1>3, <2>2, <2>5
    <3>3. QED
      BY <1>2, <2>3, <2>4, <2>5, <3>1, <3>2 DEF PlaceOK, OnePlace
  <2>6. CASE s # o
    <3>1. Granting(s)' \subseteq Granting(s)
      BY <2>1, <2>6 DEF Granting, Doing
    <3>2. PlaceOK(s)
      BY DEF PlacesInv
    <3>3. secrets' \in Nat /\ secrets' >= secrets
      BY <1>3, <2>2
    <3>4. QED
      BY <1>3, <2>3, <2>4, <3>1, <3>2, <3>3, PlaceShrinks
  <2>7. QED
    BY <2>5, <2>6
<1>6. QED
  BY <1>1, <1>4, <1>5

\* From the worker to the tokens.
LEMMA GrantPlaces ==
  ASSUME PlacesInv, NEW w \in Workers, NEW s \in Nat, GrantAccess(w)
  PROVE  PlaceOK(s)'
<1> DEFINE o == at[w].row.origin.state
<1>1. at[w].do = "grant_access" /\ at[w].do \in Tasks /\ KeptInv
  BY DEF GrantAccess, Tasks, PlacesInv
<1>2. at[w] \in TaskSet /\ at \in [Workers -> WorkerSet] /\ secrets \in Nat
  BY <1>1, TaskShape DEF KeptInv, TypeOK, WorkerSet
<1>3. /\ at'[w].do = "grant_refresh" /\ at'[w].row = at[w].row
      /\ \A v \in Workers \ {w} : at'[v] = at[v]
  <2> DEFINE task == [at[w] EXCEPT !.do = "grant_refresh"]
  <2>1. task.do = "grant_refresh" /\ task.row = at[w].row
    BY <1>2 DEF TaskSet
  <2>2. Become(w, task)
    BY DEF GrantAccess, StoreAccess
  <2> HIDE DEF task
  <2>3. QED
    BY <1>2, <2>1, <2>2 DEF Become
<1>4. waiting' = waiting /\ secrets' = secrets
  BY DEF GrantAccess, StoreAccess
<1>5. \A r \in store' : r \in store \/ (r.kind \in TokenKinds /\ r.origin.state = o)
  BY <1>1, StoresToken DEF GrantAccess, StoreAccess, TokenKinds
<1>6. w \in Granting(o)
  BY <1>1 DEF Granting, Doing
<1>7. o \in Nat
  BY <1>2 DEF TaskSet, Row, Origin
<1> HIDE DEF o
<1>8. PlaceOK(o) /\ PlaceOK(s)
  BY <1>7 DEF PlacesInv
<1>9. Rows(s)' \subseteq Rows(s) /\ Waiting(s)' = Waiting(s)
  BY <1>4, <1>5 DEF Rows, RowsOf, Waiting, LoginKinds, TokenKinds
<1>10. CASE s = o
  <2>1. Rows(s) = {} /\ Waiting(s) = {} /\ Granting(s) = {w} /\ s \in 1..secrets
    BY <1>6, <1>8, <1>10 DEF PlaceOK, OnePlace, Nowhere
  <2>2. Granting(s)' = {}
    BY <1>3, <2>1 DEF Granting, Doing
  <2>3. QED
    BY <1>4, <1>9, <2>1, <2>2 DEF PlaceOK, OnePlace
<1>11. CASE s # o
  <2>1. at[w].row.origin.state # s
    BY <1>11 DEF o
  <2>2. Granting(s)' \subseteq Granting(s)
    BY <1>3, <2>1 DEF Granting, Doing
  <2>3. Granted(s)' => Granted(s)
    <3>1. RowsOf(TokenKinds, s)' \subseteq RowsOf(TokenKinds, s)
      BY <1>5, <1>11 DEF RowsOf
    <3>2. \A v \in Workers : Doing(v, Tasks \ {"grant_access"}, s)' => Doing(v, Tasks \ {"grant_access"}, s)
      BY <1>3, <2>1 DEF Doing
    <3>3. QED
      BY <3>1, <3>2 DEF Granted
  <2>4. QED
    BY <1>2, <1>4, <1>8, <1>9, <2>2, <2>3, PlaceShrinks
<1>12. QED
  BY <1>10, <1>11

LEMMA PlacesStep == PlacesInv /\ [Next]_vars => PlacesInv'
<1> SUFFICES ASSUME PlacesInv, [Next]_vars PROVE PlacesInv'
  OBVIOUS
<1>1. KeptInv'
  BY KeptStep DEF PlacesInv
<1>2. ASSUME NEW s \in Nat PROVE PlaceOK(s)'
  <2>1. CASE UNCHANGED vars
    <3>1. UNCHANGED <<store, secrets, waiting, at>> /\ secrets \in Nat
      BY <2>1 DEF vars, PlacesInv, KeptInv, TypeOK
    <3>2. QED
      BY <3>1, PlaceRests
  <2>2. QED
    BY <2>1, AuthorizePlaces, CallbackPlaces, AnswerPlaces, CodePlaces, GrantPlaces, GrantedPlaces,
       EndingPlaces, ExpirePlaces DEF Next
<1>3. QED
  BY <1>1, <1>2 DEF PlacesInv

LEMMA PlacesBegin == Init => PlacesInv
<1> SUFFICES ASSUME Init PROVE PlacesInv
  OBVIOUS
<1>1. \A w \in Workers : at[w].do \notin Tasks
  BY DEF Init, Idle, Tasks
<1>2. ASSUME NEW s \in Nat PROVE Nowhere(s)
  BY <1>1 DEF Init, Nowhere, Rows, RowsOf, Waiting, Granting, Granted, Doing, Tasks
<1>3. QED
  BY <1>2, KeptBegins DEF PlacesInv, PlaceOK, OnePlace, Nowhere

\* A state and its code are used once: a sign-in is a row, a callback, a worker that
\* grants it or granted, and no two of these, however many workers race for it.
THEOREM LoginsUsedOnce == Spec => []LoginSingleUse
<1>1. PlacesInv => LoginSingleUse
  <2> SUFFICES ASSUME PlacesInv, NEW s \in 1..secrets PROVE \A p, q \in LoginPlaces(s) : p = q
    BY DEF LoginSingleUse
  <2>1. OnePlace(s)
    BY DEF PlacesInv, PlaceOK
  <2>2. QED
    BY <2>1, OnePlaceSuffices
<1>2. QED
  BY <1>1, PlacesBegin, PlacesStep, PTL DEF Spec

-----------------------------------------------------------------------------
(* With one worker, the right to refresh a sign-in is held once.           *)

OneWorker == \A v, w \in Workers : v = w

Refreshes(s) == RowsOf({"refresh"}, s)
Storing      == Tasks \ {"rotate", "retire", "revoke"}

\* There is one refresh token at most, none while a worker is about to store one,
\* and what a worker rotates or revokes is the one there is.
RefreshOK(s) ==
  /\ \A r, q \in Refreshes(s) : r = q
  /\ \A w \in Workers :
       /\ Doing(w, Storing, s) => Refreshes(s) = {}
       /\ Doing(w, Tasks \ Storing, s) /\ at[w].row.kind = "refresh"
            => \A r \in Refreshes(s) : SameKey(r, at[w].row)

\* Nothing is left of a sign-in but access tokens, and their revocation.
Over(s) ==
  /\ Rows(s) = {} /\ Waiting(s) = {} /\ Refreshes(s) = {}
  /\ \A w \in Workers : ~Doing(w, Tasks \ {"revoke"}, s)

Revoked(s) == \E o \in revoked : o.state = s

SignInOK(s) == RefreshOK(s) /\ (Revoked(s) => Over(s) /\ s \in 1..secrets)

RefreshInv == PlacesInv /\ \A s \in Nat : SignInOK(s)

LEMMA Becomes ==
  ASSUME RefreshInv, NEW w \in Workers, NEW what, Become(w, what)
  PROVE  at'[w] = what /\ \A v \in Workers \ {w} : at'[v] = at[v]
<1>1. at \in [Workers -> WorkerSet]
  BY DEF RefreshInv, PlacesInv, KeptInv, TypeOK, WorkerSet
<1>2. QED
  BY <1>1 DEF Become

\* A step in which no worker takes up a task and no refresh token is stored.
LEMMA SignInRests ==
  ASSUME RefreshInv, NEW s \in Nat, secrets' \in Nat, secrets' >= secrets, revoked' = revoked,
         Refreshes(s)' \subseteq Refreshes(s),
         \A v \in Workers : at'[v] = at[v] \/ at'[v].do \notin Tasks,
         Revoked(s) => Rows(s)' \subseteq Rows(s) /\ Waiting(s)' \subseteq Waiting(s)
  PROVE  SignInOK(s)'
<1>1. SignInOK(s) /\ secrets \in Nat
  BY DEF RefreshInv, PlacesInv, KeptInv, TypeOK
<1>2. \A v \in Workers, T \in SUBSET Tasks : Doing(v, T, s)' => Doing(v, T, s) /\ at'[v] = at[v]
  BY DEF Doing
<1>3. /\ Storing \in SUBSET Tasks /\ Tasks \ Storing \in SUBSET Tasks
      /\ Tasks \ {"revoke"} \in SUBSET Tasks
  BY DEF Storing
<1>4. RefreshOK(s)'
  <2>1. \A r, q \in Refreshes(s)' : r = q
    BY <1>1 DEF SignInOK, RefreshOK
  <2>2. ASSUME NEW v \in Workers, Doing(v, Storing, s)' PROVE Refreshes(s)' = {}
    <3>1. Doing(v, Storing, s)
      BY <1>2, <1>3, <2>2
    <3>2. QED
      BY <1>1, <3>1 DEF SignInOK, RefreshOK
  <2>3. ASSUME NEW v \in Workers, Doing(v, Tasks \ Storing, s)', at'[v].row.kind = "refresh",
               NEW r \in Refreshes(s)'
        PROVE  SameKey(r, at'[v].row)
    <3>1. Doing(v, Tasks \ Storing, s) /\ at'[v] = at[v] /\ r \in Refreshes(s)
      BY <1>2, <1>3, <2>3
    <3>2. SameKey(r, at[v].row)
      BY <1>1, <2>3, <3>1 DEF SignInOK, RefreshOK
    <3>3. QED
      BY <3>1, <3>2
  <2>4. QED
    BY <2>1, <2>2, <2>3 DEF RefreshOK, SameKey
<1>5. Revoked(s)' => Over(s)' /\ s \in 1..secrets'
  <2> SUFFICES ASSUME Revoked(s)' PROVE Over(s)' /\ s \in 1..secrets'
    OBVIOUS
  <2>1. Revoked(s) /\ Over(s) /\ s \in 1..secrets
    BY <1>1 DEF SignInOK, Revoked
  <2>2. \A v \in Workers : ~Doing(v, Tasks \ {"revoke"}, s)'
    BY <1>2, <1>3, <2>1 DEF Over
  <2>3. QED
    BY <1>1, <2>1, <2>2 DEF Over
<1>6. QED
  BY <1>4, <1>5 DEF SignInOK

\* A step in which the worker takes up a task, or goes on with it.
LEMMA SignInTask ==
  ASSUME RefreshInv, OneWorker, NEW w \in Workers, NEW s \in Nat, NEW o,
         at'[w].row.origin.state = o,
         secrets' \in Nat, secrets' >= secrets, revoked' = revoked,
         Refreshes(s)' \subseteq Refreshes(s),
         Rows(s)' \subseteq Rows(s), Waiting(s)' \subseteq Waiting(s),
         s = o => /\ at'[w].do \in Storing => Refreshes(s)' = {}
                  /\ at'[w].do \notin Storing /\ at'[w].row.kind = "refresh"
                       => \A r \in Refreshes(s)' : SameKey(r, at'[w].row)
                  /\ at'[w].do # "revoke" => ~Over(s)
  PROVE  SignInOK(s)'
<1>1. SignInOK(s) /\ secrets \in Nat
  BY DEF RefreshInv, PlacesInv, KeptInv, TypeOK
<1>2. \A v \in Workers : v = w
  BY DEF OneWorker
<1>3. RefreshOK(s)'
  <2>1. \A r, q \in Refreshes(s)' : r = q
    BY <1>1 DEF SignInOK, RefreshOK
  <2>2. Doing(w, Storing, s)' => Refreshes(s)' = {}
    BY DEF Doing
  <2>3. Doing(w, Tasks \ Storing, s)' /\ at'[w].row.kind = "refresh"
          => \A r \in Refreshes(s)' : SameKey(r, at'[w].row)
    BY DEF Doing
  <2>4. QED
    BY <1>2, <2>1, <2>2, <2>3 DEF RefreshOK, SameKey
<1>4. Revoked(s)' => Over(s)' /\ s \in 1..secrets'
  <2> SUFFICES ASSUME Revoked(s)' PROVE Over(s)' /\ s \in 1..secrets'
    OBVIOUS
  <2>1. Over(s) /\ s \in 1..secrets
    BY <1>1 DEF SignInOK, Revoked
  <2>2. ~Doing(w, Tasks \ {"revoke"}, s)'
    BY <2>1 DEF Doing
  <2>3. QED
    BY <1>1, <1>2, <2>1, <2>2 DEF Over
<1>5. QED
  BY <1>3, <1>4 DEF SignInOK

\* Whoever goes on with a task other than a revocation does so for a sign-in that
\* is not over.
LEMMA GoesOn ==
  ASSUME RefreshInv, NEW w \in Workers, at[w].do \in Tasks
  PROVE  /\ at[w] \in TaskSet /\ at[w].row.origin.state \in Nat
         /\ at[w].do # "revoke" => ~Over(at[w].row.origin.state)
<1>1. at[w] \in TaskSet /\ at[w].row.origin.state \in Nat
  BY TaskShape DEF RefreshInv, PlacesInv, KeptInv, TaskSet, Row, Origin
<1>2. at[w].do # "revoke" => ~Over(at[w].row.origin.state)
  BY DEF Over, Doing
<1>3. QED
  BY <1>1, <1>2

\* Signing in, as far as the claim of the code, touches no refresh token.
LEMMA LoginRefreshes ==
  ASSUME RefreshInv, NEW w \in Workers, NEW s \in Nat,
         (\E c \in Clients : Authorize(w, c)) \/ IdpCallback(w) \/ IdpAnswers(w)
  PROVE  SignInOK(s)'
<1>1. secrets \in Nat /\ PlacesInv
  BY DEF RefreshInv, PlacesInv, KeptInv, TypeOK
<1>2. Revoked(s) => Over(s) /\ s \in 1..secrets
  BY DEF RefreshInv, SignInOK
<1>3. ASSUME NEW c \in Clients, Authorize(w, c) PROVE SignInOK(s)'
  <2> DEFINE r == NewRow("pending", secrets', c, None, [state |-> secrets', client |-> c, user |-> None])
  <2>1. /\ secrets' = secrets + 1 /\ Insert(r)
        /\ waiting' = waiting /\ at' = at /\ revoked' = revoked
    BY <1>3 DEF Authorize, Issue
  <2>2. r.kind = "pending" /\ r.origin.state = secrets'
    BY DEF NewRow
  <2>3. store' \subseteq store \cup {r}
    BY <2>1, StoreGrows
  <2> HIDE DEF r
  <2>4. Refreshes(s)' \subseteq Refreshes(s)
    BY <2>2, <2>3 DEF Refreshes, RowsOf
  <2>5. s \in 1..secrets => Rows(s)' \subseteq Rows(s)
    BY <1>1, <2>1, <2>2, <2>3 DEF Rows, RowsOf
  <2>6. Waiting(s)' \subseteq Waiting(s)
    BY <2>1 DEF Waiting
  <2>7. secrets' \in Nat /\ secrets' >= secrets
    BY <1>1, <2>1
  <2>8. QED
    BY <1>2, <2>1, <2>4, <2>5, <2>6, <2>7, SignInRests
<1>4. CASE IdpCallback(w)
  <2>1. PICK row \in store :
          /\ row.kind = "pending" /\ Claim(row)
          /\ waiting' \subseteq waiting \cup {[worker |-> w, row |-> row]}
    BY <1>4 DEF IdpCallback
  <2>2. store' \subseteq store /\ UNCHANGED <<secrets, at, revoked>>
    BY <1>4, <2>1, StoreShrinks DEF IdpCallback, Claim
  <2>3. Refreshes(s)' \subseteq Refreshes(s) /\ Rows(s)' \subseteq Rows(s)
    BY <2>2 DEF Refreshes, Rows, RowsOf
  <2>4. Over(s) => row.origin.state # s
    BY <2>1 DEF Over, Rows, RowsOf, LoginKinds
  <2>5. Over(s) => Waiting(s)' \subseteq Waiting(s)
    BY <2>1, <2>4 DEF Waiting
  <2>6. secrets' \in Nat /\ secrets' >= secrets
    BY <1>1, <2>2
  <2>7. QED
    BY <1>2, <2>2, <2>3, <2>5, <2>6, SignInRests
<1>5. CASE IdpAnswers(w)
  <2>1. PICK x \in waiting :
          /\ waiting' = waiting \ {x}
          /\ \/ UNCHANGED <<store, secrets>>
             \/ \E u \in Users : Issue /\ Insert(NewRow("code", secrets', x.row.client, u,
                                                        [x.row.origin EXCEPT !.user = u]))
    BY <1>5 DEF IdpAnswers
  <2>2. at' = at /\ revoked' = revoked /\ Waiting(s)' \subseteq Waiting(s) /\ x.row.origin \in Origin
    BY <1>5, <2>1 DEF IdpAnswers, Waiting, RefreshInv, PlacesInv, KeptInv, TypeOK, Row
  <2>3. CASE UNCHANGED <<store, secrets>>
    <3>1. Refreshes(s)' \subseteq Refreshes(s) /\ Rows(s)' \subseteq Rows(s)
      BY <2>3 DEF Refreshes, Rows, RowsOf
    <3>2. QED
      BY <1>1, <2>2, <2>3, <3>1, SignInRests
  <2>4. ASSUME NEW u \in Users, Issue,
               Insert(NewRow("code", secrets', x.row.client, u, [x.row.origin EXCEPT !.user = u]))
        PROVE  SignInOK(s)'
    <3> DEFINE r == NewRow("code", secrets', x.row.client, u, [x.row.origin EXCEPT !.user = u])
    <3>1. r.kind = "code" /\ r.origin.state = x.row.origin.state
      BY <2>2 DEF NewRow, Origin
    <3>2. store' \subseteq store \cup {r} /\ secrets' = secrets + 1
      BY <2>4, StoreGrows DEF Issue
    <3> HIDE DEF r
    <3>3. Refreshes(s)' \subseteq Refreshes(s)
      BY <3>1, <3>2 DEF Refreshes, RowsOf
    <3>4. Over(s) => x.row.origin.state # s
      BY DEF Over, Waiting
    <3>5. Over(s) => Rows(s)' \subseteq Rows(s)
      BY <3>1, <3>2, <3>4 DEF Rows, RowsOf
    <3>6. secrets' \in Nat /\ secrets' >= secrets
      BY <1>1, <3>2
    <3>7. QED
      BY <1>2, <2>2, <3>3, <3>5, <3>6, SignInRests
  <2>5. QED
    BY <2>1, <2>3, <2>4
<1>6. QED
  BY <1>3, <1>4, <1>5

\* Taking a code: there are no tokens of its sign-in yet.
LEMMA CodeRefreshes ==
  ASSUME RefreshInv, OneWorker, NEW w \in Workers, NEW s \in Nat, NEW c \in Clients, LoadCode(w, c)
  PROVE  SignInOK(s)'
<1>1. PICK row \in store :
        /\ row.kind = "code" /\ Claim(row)
        /\ \/ UNCHANGED <<at, secrets>>
           \/ Issue /\ Become(w, [do |-> "grant_access", row |-> row, client |-> c, id |-> secrets'])
  BY DEF LoadCode
<1> DEFINE o == row.origin.state
<1>2. store' \subseteq store /\ ~Granted(o)
  BY <1>1, Claimed DEF LoginKinds, RefreshInv
<1>3. waiting' = waiting /\ revoked' = revoked /\ secrets \in Nat
  BY DEF LoadCode, RefreshInv, PlacesInv, KeptInv, TypeOK
<1>4. Refreshes(s)' \subseteq Refreshes(s) /\ Rows(s)' \subseteq Rows(s) /\ Waiting(s)' \subseteq Waiting(s)
  BY <1>2, <1>3 DEF Refreshes, Rows, RowsOf, Waiting
<1>5. CASE UNCHANGED <<at, secrets>>
  BY <1>3, <1>4, <1>5, SignInRests
<1>6. CASE Issue /\ Become(w, [do |-> "grant_access", row |-> row, client |-> c, id |-> secrets'])
  <2>1. at'[w].do = "grant_access" /\ at'[w].row.origin.state = o
    BY <1>6, Becomes
  <2>2. secrets' \in Nat /\ secrets' >= secrets
    BY <1>3, <1>6 DEF Issue
  <2>3. Refreshes(o) = {}
    BY <1>2 DEF Granted, Refreshes, RowsOf, TokenKinds
  <2>4. ~Over(o)
    BY <1>1 DEF Over, Rows, RowsOf, LoginKinds
  <2>5. "grant_access" \in Storing
    BY DEF Storing, Tasks
  <2> HIDE DEF o
  <2>6. s = o => Refreshes(s)' = {}
    BY <1>4, <2>3
  <2>7. QED
    BY <1>3, <1>4, <2>1, <2>2, <2>4, <2>5, <2>6, SignInTask
<1>7. QED
  BY <1>1, <1>5, <1>6

\* Taking a token to rotate or to revoke it: if it is a refresh token, it is the one
\* there is.
LEMMA TokenRefreshes ==
  ASSUME RefreshInv, OneWorker, NEW w \in Workers, NEW s \in Nat, NEW c \in Clients,
         LoadRefresh(w, c) \/ LoadForRevoke(w, c)
  PROVE  SignInOK(s)'
<1>1. PICK row \in store, do \in {"rotate", "revoke"} :
        /\ do = "rotate" => row.kind = "refresh"
        /\ Become(w, [do |-> do, row |-> row, client |-> c, id |-> 0])
  BY DEF LoadRefresh, LoadForRevoke
<1> DEFINE o == row.origin.state
<1>2. UNCHANGED <<store, secrets, waiting, revoked>> /\ secrets \in Nat /\ o \in Nat
  BY DEF LoadRefresh, LoadForRevoke, RefreshInv, PlacesInv, KeptInv, TypeOK, Row, Origin
<1>3. at'[w].do = do /\ at'[w].row = row
  BY <1>1, Becomes
<1>4. Refreshes(s)' = Refreshes(s) /\ Rows(s)' = Rows(s) /\ Waiting(s)' = Waiting(s)
  BY <1>2 DEF Refreshes, Rows, RowsOf, Waiting
<1>5. row.kind = "refresh" => row \in Refreshes(o) /\ \A r \in Refreshes(o) : r = row
  <2>1. row.kind = "refresh" => row \in Refreshes(o)
    BY DEF Refreshes, RowsOf
  <2>2. QED
    BY <1>2, <2>1 DEF RefreshInv, SignInOK, RefreshOK
<1>6. do \notin Storing
  BY <1>1 DEF Storing
<1>7. s = o => /\ row.kind = "refresh" => \A r \in Refreshes(s)' : SameKey(r, row)
               /\ do # "revoke" => ~Over(s)
  BY <1>1, <1>4, <1>5 DEF SameKey, Over
<1> HIDE DEF o
<1>8. at'[w].row.origin.state = o
  BY <1>3 DEF o
<1>9. QED
  BY <1>2, <1>3, <1>4, <1>6, <1>7, <1>8, SignInTask

\* The steps of a rotation before it stores anything: the old token goes.
LEMMA RotationRefreshes ==
  ASSUME RefreshInv, OneWorker, NEW w \in Workers, NEW s \in Nat,
         ReloadRefresh(w) \/ RetireRefresh(w)
  PROVE  SignInOK(s)'
<1> DEFINE o == at[w].row.origin.state
<1>1. at[w].do \in {"rotate", "retire"} /\ at[w].do \in Tasks
  BY DEF ReloadRefresh, RetireRefresh, Tasks
<1>2. /\ at[w] \in TaskSet /\ o \in Nat /\ ~Over(o) /\ at[w].row.kind = "refresh"
      /\ secrets \in Nat
  BY <1>1, GoesOn DEF RefreshInv, PlacesInv, KeptInv, TypeOK
<1>3. \A r \in Refreshes(o) : SameKey(r, at[w].row)
  BY <1>1, <1>2 DEF RefreshInv, SignInOK, RefreshOK, Doing, Storing
<1>4. store' \subseteq store /\ waiting' = waiting /\ revoked' = revoked
  BY StoreShrinks DEF ReloadRefresh, RetireRefresh
<1>5. Refreshes(s)' \subseteq Refreshes(s) /\ Rows(s)' \subseteq Rows(s) /\ Waiting(s)' \subseteq Waiting(s)
  BY <1>4 DEF Refreshes, Rows, RowsOf, Waiting
<1>6. CASE ReloadRefresh(w) /\ at[w].row \in store
  <2> DEFINE task == [at[w] EXCEPT !.do = "retire"]
  <2>1. task.do = "retire" /\ task.row = at[w].row
    BY <1>2 DEF TaskSet
  <2>2. Become(w, task) /\ secrets' = secrets
    BY <1>6 DEF ReloadRefresh
  <2> HIDE DEF task
  <2>3. at'[w] = task
    BY <2>2, Becomes
  <2>4. "retire" \notin Storing
    BY DEF Storing
  <2> HIDE DEF o
  <2>5. at'[w].row.origin.state = o /\ at'[w].row = at[w].row
    BY <2>1, <2>3 DEF o
  <2>6. s = o => \A r \in Refreshes(s)' : SameKey(r, at'[w].row)
    BY <1>3, <1>5, <2>5
  <2>7. QED
    BY <1>2, <1>4, <1>5, <2>1, <2>2, <2>3, <2>4, <2>5, <2>6, SignInTask
<1>7. CASE ReloadRefresh(w) /\ at[w].row \notin store
  <2>1. Become(w, Idle) /\ secrets' = secrets
    BY <1>7 DEF ReloadRefresh
  <2>2. \A v \in Workers : at'[v] = at[v] \/ at'[v].do \notin Tasks
    BY <2>1, Becomes DEF Idle, Tasks
  <2>3. QED
    BY <1>2, <1>4, <1>5, <2>1, <2>2, SignInRests
<1>8. CASE RetireRefresh(w)
  <2> DEFINE task == [at[w] EXCEPT !.do = "rotate_access", !.id = secrets']
  <2>1. task.do = "rotate_access" /\ task.row = at[w].row
    BY <1>2 DEF TaskSet
  <2>2. Become(w, task) /\ secrets' = secrets + 1 /\ Delete(at[w].row)
    BY <1>8 DEF RetireRefresh, Issue
  <2> HIDE DEF task
  <2>3. at'[w] = task
    BY <2>2, Becomes
  <2>4. "rotate_access" \in Storing /\ secrets' \in Nat /\ secrets' >= secrets
    BY <1>2, <2>2 DEF Storing, Tasks
  <2>5. s = o => Refreshes(s)' = {}
    BY <1>3, <2>2 DEF Delete, Refreshes, RowsOf
  <2> HIDE DEF o
  <2>6. at'[w].row.origin.state = o
    BY <2>1, <2>3 DEF o
  <2>7. QED
    BY <1>2, <1>4, <1>5, <2>1, <2>3, <2>4, <2>5, <2>6, SignInTask
<1>9. QED
  BY <1>6, <1>7, <1>8

\* The four calls that store tokens.
LEMMA StoreRefreshes ==
  ASSUME RefreshInv, OneWorker, NEW w \in Workers, NEW s \in Nat,
         GrantAccess(w) \/ GrantRefresh(w) \/ RotateAccess(w) \/ RotateRefresh(w)
  PROVE  SignInOK(s)'
<1> DEFINE o == at[w].row.origin.state
<1>1. at[w].do \in Storing /\ at[w].do \in Tasks /\ at[w].do # "revoke"
  BY DEF GrantAccess, GrantRefresh, RotateAccess, RotateRefresh, Storing, Tasks
<1>2. at[w] \in TaskSet /\ o \in Nat /\ ~Over(o) /\ secrets \in Nat
  BY <1>1, GoesOn DEF RefreshInv, PlacesInv, KeptInv, TypeOK
<1>3. Refreshes(o) = {}
  BY <1>1, <1>2 DEF RefreshInv, SignInOK, RefreshOK, Doing
<1>4. PICK kind, subject, task :
        /\ kind \in TokenKinds
        /\ Insert(NewRow(kind, at[w].id, at[w].client, subject, at[w].row.origin))
        /\ Become(w, task)
        /\ \/ kind = "access" /\ \E next \in Storing : task = [at[w] EXCEPT !.do = next]
           \/ task = Idle
        /\ UNCHANGED <<secrets, waiting, revoked>>
  BY DEF GrantAccess, GrantRefresh, RotateAccess, RotateRefresh, StoreAccess, StoreRefresh,
         TokenKinds, Storing, Tasks
<1> DEFINE new == NewRow(kind, at[w].id, at[w].client, subject, at[w].row.origin)
<1>5. new.kind = kind /\ new.origin.state = o
  BY DEF NewRow
<1>6. store' \subseteq store \cup {new}
  BY <1>4, StoreGrows
<1> HIDE DEF new
<1>7. Rows(s)' \subseteq Rows(s) /\ Waiting(s)' \subseteq Waiting(s)
  BY <1>4, <1>5, <1>6 DEF Rows, RowsOf, Waiting, LoginKinds, TokenKinds
<1>8. CASE kind = "access" /\ \E next \in Storing : task = [at[w] EXCEPT !.do = next]
  <2>1. PICK next \in Storing : task = [at[w] EXCEPT !.do = next]
    BY <1>8
  <2>2. at'[w] = task
    BY <1>4, Becomes
  <2>3. at'[w].do = next /\ at'[w].row = at[w].row
    BY <1>2, <2>1, <2>2 DEF TaskSet
  <2>4. Refreshes(s)' \subseteq Refreshes(s)
    BY <1>5, <1>6, <1>8 DEF Refreshes, RowsOf
  <2>5. at'[w].row.origin.state = o
    BY <2>3
  <2> HIDE DEF o
  <2>6. secrets' = secrets /\ revoked' = revoked
    BY <1>4
  <2>7. secrets' \in Nat /\ secrets' >= secrets
    BY <1>2, <2>6
  <2>8. s = o => Refreshes(s)' = {} /\ ~Over(s)
    BY <1>2, <1>3, <2>4
  <2>9. QED
    BY <1>7, <2>3, <2>4, <2>5, <2>6, <2>7, <2>8, SignInTask
<1>9. CASE task = Idle
  <2>1. \A v \in Workers : at'[v].do \notin Tasks
    BY <1>4, <1>9, Becomes DEF OneWorker, Idle, Tasks
  <2>2. CASE s # o
    <3>1. Refreshes(s)' \subseteq Refreshes(s)
      BY <1>5, <1>6, <2>2 DEF Refreshes, RowsOf
    <3>2. secrets' \in Nat /\ secrets' >= secrets
      BY <1>2, <1>4
    <3>3. QED
      BY <1>4, <1>7, <2>1, <3>1, <3>2, SignInRests
  <2>3. CASE s = o
    <3>1. Refreshes(s)' \subseteq {new}
      BY <1>3, <1>6, <2>3 DEF Refreshes, RowsOf
    <3>2. RefreshOK(s)'
      BY <2>1, <3>1 DEF RefreshOK, Doing, Storing
    <3>3. ~Revoked(s)'
      BY <1>2, <1>4, <2>3 DEF Revoked, RefreshInv, SignInOK
    <3>4. QED
      BY <3>2, <3>3 DEF SignInOK
  <2>4. QED
    BY <2>2, <2>3
<1>10. QED
  BY <1>4, <1>8, <1>9

\* Revoking a refresh token ends its sign-in.
LEMMA RevokeRefreshes ==
  ASSUME RefreshInv, OneWorker, NEW w \in Workers, NEW s \in Nat, RevokeToken(w)
  PROVE  SignInOK(s)'
<1> DEFINE o == at[w].row.origin.state
<1>1. at[w].do = "revoke" /\ at[w].do \in Tasks /\ at[w].do # "grant_access"
  BY DEF RevokeToken, Tasks
<1>2. at[w] \in TaskSet /\ o \in Nat /\ secrets \in Nat
  BY <1>1, GoesOn DEF RefreshInv, PlacesInv, KeptInv, TypeOK
<1>3. /\ Delete(at[w].row) /\ Become(w, Idle) /\ UNCHANGED <<secrets, waiting>>
      /\ revoked' = IF at[w].row.kind = "refresh" THEN revoked \cup {at[w].row.origin} ELSE revoked
  BY DEF RevokeToken
<1>4. store' \subseteq store
  BY <1>3, StoreShrinks
<1>5. Refreshes(s)' \subseteq Refreshes(s) /\ Rows(s)' \subseteq Rows(s) /\ Waiting(s)' \subseteq Waiting(s)
  BY <1>3, <1>4 DEF Refreshes, Rows, RowsOf, Waiting
<1>6. \A v \in Workers : at'[v].do \notin Tasks
  BY <1>3, Becomes DEF OneWorker, Idle, Tasks
<1>7. RefreshOK(s)'
  <2>1. \A r, q \in Refreshes(s) : r = q
    BY DEF RefreshInv, SignInOK, RefreshOK
  <2>2. QED
    BY <1>5, <1>6, <2>1 DEF RefreshOK, Doing, Storing
<1>8. CASE s = o /\ at[w].row.kind = "refresh"
  <2>1. \A r \in Refreshes(s) : SameKey(r, at[w].row)
    BY <1>1, <1>8 DEF RefreshInv, SignInOK, RefreshOK, Doing, Storing
  <2>2. Refreshes(s)' = {}
    BY <1>3, <2>1 DEF Delete, Refreshes, RowsOf
  <2>3. Granted(s) /\ PlaceOK(s)
    BY <1>1, <1>8 DEF Granted, Doing, RefreshInv, PlacesInv
  <2>4. Rows(s) = {} /\ Waiting(s) = {} /\ s \in 1..secrets
    BY <2>3 DEF PlaceOK, OnePlace, Nowhere
  <2>5. Over(s)'
    BY <1>5, <1>6, <2>2, <2>4 DEF Over, Doing
  <2>6. QED
    BY <1>3, <1>7, <2>4, <2>5 DEF SignInOK
<1>9. CASE ~(s = o /\ at[w].row.kind = "refresh")
  <2>1. Revoked(s)' => Revoked(s)
    BY <1>3, <1>9 DEF Revoked
  <2>2. Revoked(s) => Over(s) /\ s \in 1..secrets
    BY DEF RefreshInv, SignInOK
  <2>3. Over(s) => Over(s)'
    BY <1>5, <1>6 DEF Over, Doing
  <2>4. QED
    BY <1>3, <1>7, <2>1, <2>2, <2>3 DEF SignInOK
<1>10. QED
  BY <1>8, <1>9

\* An expired row is the same row to whoever holds its key.
LEMMA ExpireRefreshes ==
  ASSUME RefreshInv, NEW s \in Nat, Expire
  PROVE  SignInOK(s)'
<1>1. PICK row \in store : store' = (store \ {row}) \cup {[row EXCEPT !.live = FALSE]}
  BY DEF Expire
<1> DEFINE r == [row EXCEPT !.live = FALSE]
<1>2. UNCHANGED <<secrets, waiting, at, revoked>> /\ row \in Row
  BY DEF Expire, RefreshInv, PlacesInv, KeptInv, TypeOK
<1>3. r.kind = row.kind /\ r.id = row.id /\ r.origin = row.origin
  BY <1>2 DEF Row
<1>4. store' = (store \ {row}) \cup {r}
  BY <1>1
<1> HIDE DEF r
<1>5. SignInOK(s)
  BY DEF RefreshInv
<1>6. /\ Refreshes(s) = {} => Refreshes(s)' = {}
      /\ Rows(s) = {} => Rows(s)' = {}
      /\ Waiting(s)' = Waiting(s)
      /\ \A T : \A w \in Workers : Doing(w, T, s)' <=> Doing(w, T, s)
  BY <1>2, <1>3, <1>4 DEF Refreshes, Rows, RowsOf, Waiting, Doing
<1>7. \A q \in Refreshes(s)' : \E p \in Refreshes(s) : q.kind = p.kind /\ q.id = p.id
  BY <1>3, <1>4 DEF Refreshes, RowsOf
<1>8. \A p, q \in Refreshes(s)' : p = q
  <2>1. \A p, q \in Refreshes(s) : p = q
    BY <1>5 DEF SignInOK, RefreshOK
  <2>2. CASE row \in Refreshes(s)
    <3>1. Refreshes(s)' \subseteq {r}
      BY <1>4, <2>1, <2>2 DEF Refreshes, RowsOf
    <3>2. QED
      BY <3>1
  <2>3. CASE row \notin Refreshes(s)
    <3>1. Refreshes(s)' \subseteq Refreshes(s)
      BY <1>3, <1>4, <2>3 DEF Refreshes, RowsOf
    <3>2. QED
      BY <2>1, <3>1
  <2>4. QED
    BY <2>2, <2>3
<1>9. RefreshOK(s)'
  <2>1. ASSUME NEW w \in Workers
        PROVE  /\ Doing(w, Storing, s)' => Refreshes(s)' = {}
               /\ Doing(w, Tasks \ Storing, s)' /\ at'[w].row.kind = "refresh"
                    => \A q \in Refreshes(s)' : SameKey(q, at'[w].row)
    <3>1. Doing(w, Storing, s) => Refreshes(s) = {}
      BY <1>5 DEF SignInOK, RefreshOK
    <3>2. Doing(w, Tasks \ Storing, s) /\ at[w].row.kind = "refresh"
            => \A q \in Refreshes(s) : SameKey(q, at[w].row)
      BY <1>5 DEF SignInOK, RefreshOK
    <3>3. QED
      BY <1>2, <1>6, <1>7, <3>1, <3>2 DEF SameKey
  <2>2. QED
    BY <1>8, <2>1 DEF RefreshOK, SameKey
<1>10. QED
  BY <1>2, <1>5, <1>6, <1>9 DEF SignInOK, Over, Revoked

\* The steps that only end something, or do not concern sign-ins.
LEMMA OtherRefreshes ==
  ASSUME RefreshInv, NEW w \in Workers, NEW s \in Nat,
         \/ \E a \in Apps : FindClient(w, a)
         \/ StoreClient(w) \/ DropExpired(w) \/ Restart(w)
  PROVE  SignInOK(s)'
<1>1. secrets' = secrets /\ waiting' \subseteq waiting /\ revoked' = revoked /\ secrets \in Nat
  BY DEF FindClient, StoreClient, DropExpired, Restart, RefreshInv, PlacesInv, KeptInv, TypeOK
<1>2. store' \subseteq store
  BY StoreShrinks DEF FindClient, StoreClient, DropExpired, Restart
<1>3. \A v \in Workers : at'[v] = at[v] \/ at'[v].do \notin Tasks
  <2>1. ASSUME NEW what, Become(w, what), what.do \notin Tasks
        PROVE  \A v \in Workers : at'[v] = at[v] \/ at'[v].do \notin Tasks
    BY <2>1, Becomes
  <2>2. Idle.do \notin Tasks /\ \A a : [do |-> "register", app |-> a].do \notin Tasks
    BY DEF Idle, Tasks
  <2>3. QED
    BY <2>1, <2>2 DEF FindClient, StoreClient, DropExpired, Restart
<1>4. Refreshes(s)' \subseteq Refreshes(s) /\ Rows(s)' \subseteq Rows(s) /\ Waiting(s)' \subseteq Waiting(s)
  BY <1>1, <1>2 DEF Refreshes, Rows, RowsOf, Waiting
<1>5. QED
  BY <1>1, <1>3, <1>4, SignInRests

LEMMA RefreshStep == OneWorker /\ RefreshInv /\ [Next]_vars => RefreshInv'
<1> SUFFICES ASSUME OneWorker, RefreshInv, [Next]_vars PROVE RefreshInv'
  OBVIOUS
<1>1. PlacesInv'
  BY PlacesStep DEF RefreshInv
<1>2. ASSUME NEW s \in Nat PROVE SignInOK(s)'
  <2>1. CASE UNCHANGED vars
    <3>1. /\ secrets' = secrets /\ waiting' = waiting /\ revoked' = revoked /\ secrets \in Nat
          /\ store' = store /\ at' = at
      BY <2>1 DEF vars, RefreshInv, PlacesInv, KeptInv, TypeOK
    <3>2. Refreshes(s)' = Refreshes(s) /\ Rows(s)' = Rows(s) /\ Waiting(s)' = Waiting(s)
      BY <3>1 DEF Refreshes, Rows, RowsOf, Waiting
    <3>3. QED
      BY <3>1, <3>2, SignInRests
  <2>2. QED
    BY <2>1, LoginRefreshes, CodeRefreshes, TokenRefreshes, RotationRefreshes, StoreRefreshes,
       RevokeRefreshes, ExpireRefreshes, OtherRefreshes DEF Next
<1>3. QED
  BY <1>1, <1>2 DEF RefreshInv

LEMMA RefreshBegins == Init => RefreshInv
<1> SUFFICES ASSUME Init PROVE RefreshInv
  OBVIOUS
<1>1. \A w \in Workers : at[w].do \notin Tasks
  BY DEF Init, Idle, Tasks
<1>2. ASSUME NEW s \in Nat PROVE SignInOK(s)
  BY <1>1 DEF Init, SignInOK, RefreshOK, Refreshes, RowsOf, Revoked, Doing, Storing
<1>3. QED
  BY <1>2, PlacesBegin DEF RefreshInv

LEMMA RefreshHolds == ASSUME OneWorker PROVE Spec => []RefreshInv
<1>1. RefreshInv /\ [Next]_vars => RefreshInv'
  BY RefreshStep, OneWorker
<1>2. QED
  BY RefreshBegins, <1>1, PTL DEF Spec

\* With one worker, refreshing never leaves a sign-in with two refresh tokens, however
\* many tabs refresh at once (exchange_refresh_token).
THEOREM RefreshedOnce == ASSUME OneWorker PROVE Spec => []OneRefreshToken
<1>1. ASSUME RefreshInv PROVE OneRefreshToken
  <2> SUFFICES ASSUME NEW s \in 1..secrets, NEW p \in RefreshPlaces(s), NEW q \in RefreshPlaces(s)
               PROVE  p = q
    BY DEF OneRefreshToken
  <2>1. s \in Nat
    BY <1>1 DEF RefreshInv, PlacesInv, KeptInv, TypeOK
  <2>2. RefreshOK(s)
    BY <1>1, <2>1 DEF RefreshInv, SignInOK
  <2>3. /\ p \in {<<"row", r>> : r \in Refreshes(s)} \/ \E v \in Workers : p = <<"worker", v>> /\ Doing(v, Storing, s)
        /\ q \in {<<"row", r>> : r \in Refreshes(s)} \/ \E v \in Workers : q = <<"worker", v>> /\ Doing(v, Storing, s)
    BY DEF RefreshPlaces, Refreshes, Storing
  <2>4. QED
    BY <2>2, <2>3 DEF RefreshOK, OneWorker
<1>2. QED
  BY <1>1, RefreshHolds, OneWorker, PTL

\* With one worker, revoking a refresh token ends its sign-in for good: no rotation
\* that was under way brings one back (revoke_token).
THEOREM RevokedEnds == ASSUME OneWorker PROVE Spec => []RevocationEndsLogin
<1>1. ASSUME RefreshInv PROVE RevocationEndsLogin
  <2> SUFFICES ASSUME NEW o \in revoked PROVE RefreshPlaces(o.state) = {}
    BY DEF RevocationEndsLogin
  <2>1. o.state \in Nat
    BY <1>1 DEF RefreshInv, PlacesInv, KeptInv, TypeOK, Origin
  <2>2. Over(o.state)
    BY <1>1, <2>1 DEF RefreshInv, SignInOK, Revoked
  <2>3. QED
    BY <2>2 DEF RefreshPlaces, Over, Refreshes, Doing
<1>2. QED
  BY <1>1, RefreshHolds, OneWorker, PTL

-----------------------------------------------------------------------------
(* Registrations, with one worker.                                         *)

ClientsInv ==
  /\ KeptInv
  /\ OneClientPerApp
  /\ \A w \in Workers : at[w].do = "register" => \A c \in Clients : clients[c] # at[w].app

LEMMA ClientsStep == OneWorker /\ ClientsInv /\ [Next]_vars => ClientsInv'
<1> SUFFICES ASSUME OneWorker, ClientsInv, [Next]_vars PROVE ClientsInv'
  OBVIOUS
<1>1. KeptInv'
  BY KeptStep DEF ClientsInv
<1>2. at \in [Workers -> WorkerSet] /\ clients \in [Clients -> Apps \cup {None}]
  BY DEF ClientsInv, KeptInv, TypeOK, WorkerSet
<1> DEFINE Rest == OneClientPerApp /\ \A w \in Workers :
                     at[w].do = "register" => \A c \in Clients : clients[c] # at[w].app
<1>3. ASSUME NEW w \in Workers, NEW a \in Apps, FindClient(w, a) PROVE Rest'
  <2>1. /\ \A c \in Clients : clients[c] # a
        /\ clients' = clients /\ at'[w] = [do |-> "register", app |-> a]
    BY <1>2, <1>3 DEF FindClient, Become
  <2>2. at'[w].app = a
    BY <2>1
  <2>3. QED
    BY <2>1, <2>2 DEF ClientsInv, OneClientPerApp, OneWorker
<1>4. ASSUME NEW w \in Workers, StoreClient(w) PROVE Rest'
  <2>1. PICK c \in Clients : clients' = [clients EXCEPT ![c] = at[w].app]
    BY <1>4 DEF StoreClient
  <2>2. at[w].do = "register" /\ at'[w] = Idle
    BY <1>2, <1>4 DEF StoreClient, Become
  <2>3. \A d \in Clients : clients[d] # at[w].app
    BY <2>2 DEF ClientsInv
  <2>4. OneClientPerApp'
    BY <1>2, <2>1, <2>3 DEF ClientsInv, OneClientPerApp
  <2>5. QED
    BY <2>2, <2>4 DEF OneWorker, Idle
<1>5. ASSUME NEW w \in Workers, Restart(w) PROVE Rest'
  <2>1. /\ at'[w] = Idle
        /\ clients' = clients \/ clients' = [c \in Clients |-> None]
    BY <1>2, <1>5 DEF Restart, Become
  <2>2. OneClientPerApp'
    BY <2>1 DEF ClientsInv, OneClientPerApp
  <2>3. QED
    BY <2>1, <2>2 DEF OneWorker, Idle
<1>6. ASSUME clients' = clients, \A w \in Workers : at'[w] = at[w] \/ at'[w].do # "register" PROVE Rest'
  BY <1>6 DEF ClientsInv, OneClientPerApp
<1>7. ASSUME NEW w \in Workers,
             \/ \E c \in Clients : Authorize(w, c) \/ LoadCode(w, c) \/ LoadRefresh(w, c) \/ LoadForRevoke(w, c)
             \/ IdpCallback(w) \/ IdpAnswers(w) \/ RevokeToken(w) \/ DropExpired(w)
      PROVE  Rest'
  <2>1. clients' = clients
    BY <1>7 DEF Authorize, LoadCode, LoadRefresh, LoadForRevoke, IdpCallback, IdpAnswers,
                RevokeToken, DropExpired
  <2>2. ASSUME NEW what, Become(w, what), what.do # "register"
        PROVE  \A v \in Workers : at'[v] = at[v] \/ at'[v].do # "register"
    BY <1>2, <2>2 DEF Become
  <2>3. CASE RevokeToken(w)
    <3>1. Become(w, Idle) /\ Idle.do # "register"
      BY <2>3 DEF RevokeToken, Idle
    <3>2. QED
      BY <1>6, <2>1, <2>2, <3>1
  <2>4. CASE \E c \in Clients : LoadCode(w, c) \/ LoadRefresh(w, c) \/ LoadForRevoke(w, c)
    <3>1. \/ at' = at
          \/ \E do \in Tasks : \E row, c, id : Become(w, [do |-> do, row |-> row, client |-> c, id |-> id])
      <4>1. "grant_access" \in Tasks /\ "rotate" \in Tasks /\ "revoke" \in Tasks
        BY DEF Tasks
      <4>2. ASSUME NEW c \in Clients, LoadCode(w, c)
            PROVE  at' = at \/ \E row, id : Become(w, [do |-> "grant_access", row |-> row, client |-> c, id |-> id])
        BY <4>2 DEF LoadCode
      <4>3. ASSUME NEW c \in Clients, LoadRefresh(w, c)
            PROVE  \E row : Become(w, [do |-> "rotate", row |-> row, client |-> c, id |-> 0])
        BY <4>3 DEF LoadRefresh
      <4>4. ASSUME NEW c \in Clients, LoadForRevoke(w, c)
            PROVE  \E row : Become(w, [do |-> "revoke", row |-> row, client |-> c, id |-> 0])
        BY <4>4 DEF LoadForRevoke
      <4>5. QED
        BY <2>4, <4>1, <4>2, <4>3, <4>4
    <3>2. ASSUME NEW do \in Tasks, NEW row, NEW c, NEW id
          PROVE  [do |-> do, row |-> row, client |-> c, id |-> id].do # "register"
      BY DEF Tasks
    <3>3. QED
      BY <1>6, <2>1, <2>2, <3>1, <3>2
  <2>5. CASE (\E c \in Clients : Authorize(w, c)) \/ IdpCallback(w) \/ IdpAnswers(w) \/ DropExpired(w)
    <3>1. at' = at
      BY <2>5 DEF Authorize, IdpCallback, IdpAnswers, DropExpired
    <3>2. QED
      BY <1>6, <2>1, <3>1
  <2>6. QED
    BY <1>7, <2>3, <2>4, <2>5
<1>8. ASSUME NEW w \in Workers,
             \/ GrantAccess(w) \/ GrantRefresh(w) \/ ReloadRefresh(w) \/ RetireRefresh(w)
             \/ RotateAccess(w) \/ RotateRefresh(w)
      PROVE  Rest'
  <2>1. clients' = clients
    BY <1>8 DEF GrantAccess, GrantRefresh, ReloadRefresh, RetireRefresh, RotateAccess,
                RotateRefresh, StoreAccess, StoreRefresh
  <2>2. at[w].do \in Tasks
    BY <1>8 DEF GrantAccess, GrantRefresh, ReloadRefresh, RetireRefresh, RotateAccess,
                RotateRefresh, Tasks
  <2>3. at[w] \in TaskSet
    BY <2>2, TaskShape DEF ClientsInv, KeptInv
  <2>4. \/ Become(w, Idle)
        \/ \E next \in Tasks : Become(w, [at[w] EXCEPT !.do = next])
        \/ \E id : Become(w, [at[w] EXCEPT !.do = "rotate_access", !.id = id])
    BY <1>8 DEF GrantAccess, GrantRefresh, ReloadRefresh, RetireRefresh, RotateAccess,
                RotateRefresh, StoreAccess, StoreRefresh, Tasks
  <2>5. at'[w].do # "register" /\ \A v \in Workers \ {w} : at'[v] = at[v]
    <3>1. Idle.do # "register"
      BY DEF Idle
    <3>2. ASSUME NEW next \in Tasks PROVE [at[w] EXCEPT !.do = next].do # "register"
      BY <2>3 DEF Tasks, TaskSet
    <3>3. ASSUME NEW id PROVE [at[w] EXCEPT !.do = "rotate_access", !.id = id].do # "register"
      BY <2>3 DEF TaskSet
    <3>4. ASSUME NEW what, Become(w, what)
          PROVE  at'[w] = what /\ \A v \in Workers \ {w} : at'[v] = at[v]
      BY <1>2, <3>4 DEF Become
    <3>5. QED
      BY <2>4, <3>1, <3>2, <3>3, <3>4
  <2>6. QED
    BY <1>6, <2>1, <2>5
<1>9. CASE Expire \/ UNCHANGED vars
  <2>1. clients' = clients /\ at' = at
    BY <1>9 DEF Expire, vars
  <2>2. Rest'
    BY <1>6, <2>1
  <2>3. QED
    BY <1>1, <2>2 DEF ClientsInv
<1>10. QED
  BY <1>1, <1>3, <1>4, <1>5, <1>7, <1>8, <1>9 DEF Next, ClientsInv

LEMMA ClientsBegin == Init => ClientsInv
<1> SUFFICES ASSUME Init PROVE ClientsInv
  OBVIOUS
<1>1. \A w \in Workers : at[w].do # "register"
  BY DEF Init, Idle
<1>2. QED
  BY <1>1, KeptBegins DEF Init, ClientsInv, OneClientPerApp

\* With one worker, an application that registers again and again, from as many
\* windows as it likes, has one client id (register_client).
THEOREM RegistersOnce == ASSUME OneWorker PROVE Spec => []OneClientPerApp
<1>1. ClientsInv /\ [Next]_vars => ClientsInv'
  BY ClientsStep, OneWorker
<1>2. ClientsInv => OneClientPerApp
  BY DEF ClientsInv
<1>3. QED
  BY ClientsBegin, <1>1, <1>2, PTL DEF Spec

-----------------------------------------------------------------------------
(* A sign-in whose time is past, for any number of workers.                *)

\* Whoever presents it gets nothing: it stays the row it is, or is gone.
LEMMA ExpiredStep ==
  ASSUME PlacesInv, Next, NEW r \in store, r.kind \in LoginKinds, ~r.live
  PROVE  LoginPlaces(r.origin.state)' \subseteq LoginPlaces(r.origin.state)
<1> DEFINE o == r.origin.state
<1>1. o \in Nat /\ r \in Rows(o)
  BY DEF PlacesInv, KeptInv, TypeOK, Row, Origin, Rows, RowsOf
<1>2. Rows(o) = {r} /\ Waiting(o) = {} /\ Granting(o) = {} /\ ~Granted(o) /\ o \in 1..secrets
  BY <1>1 DEF PlacesInv, PlaceOK, OnePlace, Nowhere
<1> HIDE DEF o
<1>3. at \in [Workers -> WorkerSet] /\ secrets \in Nat /\ KeptInv
  BY DEF PlacesInv, KeptInv, TypeOK, WorkerSet
<1>4. \A q \in store : q.kind \in LoginKinds \cup TokenKinds /\ (q.origin.state = o => q = r)
  BY <1>2 DEF Rows, RowsOf, Granted, PlacesInv, KeptInv, TypeOK, Row
<1>5. \A w \in Workers : ~Doing(w, Tasks, o)
  BY <1>2 DEF Granting, Granted, Doing, Tasks
<1> DEFINE NoWorker == \A w \in Workers : ~Doing(w, Tasks, o)'
           NoRow == \A q \in store' : q.origin.state = o => q = r
           NoWait == Waiting(o)' = {}
<1>6. SUFFICES NoWorker /\ NoRow /\ NoWait
  <2>1. LoginPlaces(o)' \subseteq {<<"row", r>>} /\ LoginPlaces(o) = {<<"row", r>>}
    BY <1>1, <1>2, <1>5, <1>6
       DEF LoginPlaces, Rows, RowsOf, Waiting, Granted, Doing, Tasks, LoginKinds, TokenKinds
  <2>2. QED
    BY <2>1 DEF o
<1>7. ASSUME store' \subseteq store, waiting' \subseteq waiting,
             \A w \in Workers : at'[w] = at[w] \/ at'[w].do \notin Tasks \/ at'[w].row.origin.state # o
      PROVE  NoWorker /\ NoRow /\ NoWait
  BY <1>2, <1>4, <1>5, <1>7 DEF Doing, Waiting
<1>8. ASSUME NEW w \in Workers, NEW c \in Clients, Authorize(w, c) PROVE NoWorker /\ NoRow /\ NoWait
  <2> DEFINE new == NewRow("pending", secrets', c, None, [state |-> secrets', client |-> c, user |-> None])
  <2>1. new.origin.state = secrets' /\ secrets' = secrets + 1 /\ Insert(new) /\ UNCHANGED <<waiting, at>>
    BY <1>8 DEF Authorize, Issue, NewRow
  <2>2. store' \subseteq store \cup {new}
    BY <2>1, StoreGrows
  <2> HIDE DEF new
  <2>3. new.origin.state # o
    BY <1>2, <1>3, <2>1
  <2>4. QED
    BY <1>2, <1>4, <1>5, <2>1, <2>2, <2>3 DEF Doing, Waiting
<1>9. ASSUME NEW w \in Workers, IdpCallback(w) PROVE NoWorker /\ NoRow /\ NoWait
  <2>1. PICK row \in store :
          /\ Claim(row)
          /\ waiting' = IF row.live THEN waiting \cup {[worker |-> w, row |-> row]} ELSE waiting
    BY <1>9 DEF IdpCallback
  <2>2. store' \subseteq store /\ at' = at
    BY <1>9, <2>1, StoreShrinks DEF IdpCallback, Claim
  <2>3. row.live => row.origin.state # o
    BY <1>4, <2>1
  <2>4. Waiting(o)' = {}
    BY <1>2, <2>1, <2>3 DEF Waiting
  <2>5. QED
    BY <1>4, <1>5, <2>2, <2>4 DEF Doing
<1>10. ASSUME NEW w \in Workers, IdpAnswers(w) PROVE NoWorker /\ NoRow /\ NoWait
  <2>1. PICK x \in waiting :
          /\ waiting' = waiting \ {x}
          /\ \/ store' = store
             \/ \E u \in Users : Insert(NewRow("code", secrets', x.row.client, u,
                                               [x.row.origin EXCEPT !.user = u]))
    BY <1>10 DEF IdpAnswers
  <2>2. at' = at /\ x.row.origin \in Origin /\ x.row.origin.state # o
    BY <1>2, <1>10 DEF IdpAnswers, Waiting, PlacesInv, KeptInv, TypeOK, Row
  <2>3. \A q \in store' : q \in store \/ q.origin.state # o
    <3>1. ASSUME NEW u \in Users,
                 Insert(NewRow("code", secrets', x.row.client, u, [x.row.origin EXCEPT !.user = u]))
          PROVE  \A q \in store' : q \in store \/ q.origin.state # o
      <4> DEFINE new == NewRow("code", secrets', x.row.client, u, [x.row.origin EXCEPT !.user = u])
      <4>1. new.origin.state # o
        BY <2>2 DEF NewRow, Origin
      <4>2. store' \subseteq store \cup {new}
        BY <3>1, StoreGrows
      <4> HIDE DEF new
      <4>3. QED
        BY <4>1, <4>2
    <3>2. QED
      BY <2>1, <3>1
  <2>4. QED
    BY <1>2, <1>4, <1>5, <2>1, <2>2, <2>3 DEF Doing, Waiting
<1>11. ASSUME NEW w \in Workers, NEW c \in Clients, LoadCode(w, c) PROVE NoWorker /\ NoRow /\ NoWait
  <2>1. PICK row \in store :
          /\ Claim(row)
          /\ \/ at' = at
             \/ row.live /\ Become(w, [do |-> "grant_access", row |-> row, client |-> c, id |-> secrets'])
    BY <1>11 DEF LoadCode
  <2>2. store' \subseteq store /\ waiting' = waiting
    BY <1>11, <2>1, StoreShrinks DEF LoadCode, Claim
  <2>3. row.live => row.origin.state # o
    BY <1>4, <2>1
  <2>4. \A v \in Workers : at'[v] = at[v] \/ at'[v].row.origin.state # o
    BY <1>3, <2>1, <2>3 DEF Become
  <2>5. QED
    BY <1>7, <2>2, <2>4
<1>12. ASSUME NEW w \in Workers, NEW c \in Clients, LoadRefresh(w, c) \/ LoadForRevoke(w, c)
       PROVE  NoWorker /\ NoRow /\ NoWait
  <2>1. PICK row \in store, do \in Tasks :
          row.kind \in TokenKinds /\ Become(w, [do |-> do, row |-> row, client |-> c, id |-> 0])
    BY <1>12 DEF LoadRefresh, LoadForRevoke, TokenKinds, Tasks
  <2>2. row.origin.state # o
    BY <1>4, <2>1 DEF LoginKinds, TokenKinds
  <2>3. \A v \in Workers : at'[v] = at[v] \/ at'[v].row.origin.state # o
    BY <1>3, <2>1, <2>2 DEF Become
  <2>4. store' = store /\ waiting' = waiting
    BY <1>12 DEF LoadRefresh, LoadForRevoke
  <2>5. QED
    BY <1>7, <2>3, <2>4
<1>13. ASSUME NEW w \in Workers,
              \/ GrantAccess(w) \/ GrantRefresh(w) \/ ReloadRefresh(w) \/ RetireRefresh(w)
              \/ RotateAccess(w) \/ RotateRefresh(w)
       PROVE  NoWorker /\ NoRow /\ NoWait
  <2>1. at[w].do \in Tasks
    BY <1>13 DEF GrantAccess, GrantRefresh, ReloadRefresh, RetireRefresh, RotateAccess,
                 RotateRefresh, Tasks
  <2>2. at[w] \in TaskSet /\ at[w].row.origin.state # o
    BY <1>3, <1>5, <2>1, TaskShape DEF Doing, KeptInv
  <2>3. \/ Become(w, Idle)
        \/ \E next \in Tasks : Become(w, [at[w] EXCEPT !.do = next])
        \/ \E id : Become(w, [at[w] EXCEPT !.do = "rotate_access", !.id = id])
    BY <1>13 DEF GrantAccess, GrantRefresh, ReloadRefresh, RetireRefresh, RotateAccess,
                 RotateRefresh, StoreAccess, StoreRefresh, Tasks
  <2>4. \A v \in Workers : at'[v] = at[v] \/ at'[v].do \notin Tasks \/ at'[v].row.origin.state # o
    <3>1. Idle.do \notin Tasks
      BY DEF Idle, Tasks
    <3>2. ASSUME NEW next \in Tasks PROVE [at[w] EXCEPT !.do = next].row = at[w].row
      BY <2>2 DEF TaskSet
    <3>3. ASSUME NEW id PROVE [at[w] EXCEPT !.do = "rotate_access", !.id = id].row = at[w].row
      BY <2>2 DEF TaskSet
    <3>4. ASSUME NEW what, Become(w, what)
          PROVE  at'[w] = what /\ \A v \in Workers \ {w} : at'[v] = at[v]
      BY <1>3, <3>4 DEF Become
    <3>5. CASE Become(w, Idle)
      BY <3>1, <3>4, <3>5
    <3>6. ASSUME NEW next \in Tasks, Become(w, [at[w] EXCEPT !.do = next])
          PROVE  at'[w].row.origin.state # o
      <4>1. at'[w] = [at[w] EXCEPT !.do = next]
        BY <3>4, <3>6
      <4>2. at'[w].row = at[w].row
        BY <3>2, <4>1
      <4>3. QED
        BY <2>2, <4>2
    <3>7. ASSUME NEW id, Become(w, [at[w] EXCEPT !.do = "rotate_access", !.id = id])
          PROVE  at'[w].row.origin.state # o
      <4>1. at'[w] = [at[w] EXCEPT !.do = "rotate_access", !.id = id]
        BY <3>4, <3>7
      <4>2. at'[w].row = at[w].row
        BY <3>3, <4>1
      <4>3. QED
        BY <2>2, <4>2
    <3>8. \A v \in Workers \ {w} : at'[v] = at[v]
      BY <2>3, <3>4
    <3>9. QED
      BY <2>3, <3>5, <3>6, <3>7, <3>8
  <2>5. waiting' = waiting
    BY <1>13 DEF GrantAccess, GrantRefresh, ReloadRefresh, RetireRefresh, RotateAccess,
                 RotateRefresh, StoreAccess, StoreRefresh
  <2>6. \A q \in store' : q \in store \/ q.origin.state # o
    <3>1. CASE ReloadRefresh(w) \/ RetireRefresh(w)
      BY <3>1, StoreShrinks DEF ReloadRefresh, RetireRefresh
    <3>2. CASE GrantAccess(w) \/ GrantRefresh(w) \/ RotateAccess(w) \/ RotateRefresh(w)
      <4>1. PICK kind, subject :
              /\ kind \in TokenKinds
              /\ Insert(NewRow(kind, at[w].id, at[w].client, subject, at[w].row.origin))
        BY <3>2 DEF GrantAccess, GrantRefresh, RotateAccess, RotateRefresh, StoreAccess,
                    StoreRefresh, TokenKinds
      <4>2. QED
        BY <1>3, <2>1, <2>2, <4>1, StoresToken
    <3>3. QED
      BY <1>13, <3>1, <3>2
  <2>7. QED
    BY <1>2, <1>4, <1>5, <2>4, <2>5, <2>6 DEF Doing, Waiting
<1>14. ASSUME NEW w \in Workers,
              \/ \E a \in Apps : FindClient(w, a)
              \/ StoreClient(w) \/ RevokeToken(w) \/ DropExpired(w) \/ Restart(w)
       PROVE  NoWorker /\ NoRow /\ NoWait
  <2>1. waiting' \subseteq waiting /\ store' \subseteq store
    BY <1>14, StoreShrinks DEF FindClient, StoreClient, RevokeToken, DropExpired, Restart
  <2>2. ASSUME NEW what, Become(w, what), what.do \notin Tasks
        PROVE  \A v \in Workers : at'[v] = at[v] \/ at'[v].do \notin Tasks
    BY <1>3, <2>2 DEF Become
  <2>3. \A v \in Workers : at'[v] = at[v] \/ at'[v].do \notin Tasks
    <3>1. Idle.do \notin Tasks /\ \A a : [do |-> "register", app |-> a].do \notin Tasks
      BY DEF Idle, Tasks
    <3>2. QED
      BY <1>14, <2>2, <3>1 DEF FindClient, StoreClient, RevokeToken, DropExpired, Restart
  <2>4. QED
    BY <1>7, <2>1, <2>3
<1>15. ASSUME Expire PROVE NoWorker /\ NoRow /\ NoWait
  <2>1. PICK row \in store : row.live /\ store' = (store \ {row}) \cup {[row EXCEPT !.live = FALSE]}
    BY <1>15 DEF Expire
  <2>2. row.origin.state # o /\ row \in Row
    BY <1>4, <2>1 DEF PlacesInv, KeptInv, TypeOK
  <2>3. [row EXCEPT !.live = FALSE].origin.state # o
    BY <2>2 DEF Row
  <2>4. waiting' = waiting /\ at' = at
    BY <1>15 DEF Expire
  <2>5. QED
    BY <1>2, <1>4, <1>5, <2>1, <2>3, <2>4 DEF Doing, Waiting
<1>16. QED
  BY <1>8, <1>9, <1>10, <1>11, <1>12, <1>13, <1>14, <1>15 DEF Next

\* However many workers share the store, no step takes a sign-in whose time is past
\* any further (the callback, load_authorization_code).
THEOREM ExpiredGoesNowhere == Spec => ExpiredLoginEnds
<1> DEFINE Ends == \A r \in store : r.kind \in LoginKinds /\ ~r.live
                     => LoginPlaces(r.origin.state)' \subseteq LoginPlaces(r.origin.state)
<1>1. PlacesInv /\ [Next]_vars => [Ends]_vars
  BY ExpiredStep
<1>2. QED
  BY PlacesBegin, PlacesStep, <1>1, PTL DEF Spec, ExpiredLoginEnds
=============================================================================
