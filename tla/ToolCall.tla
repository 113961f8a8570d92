------------------------------ MODULE ToolCall ------------------------------
(***************************************************************************)
(* One tool call of an authenticated client, from the bearer token it      *)
(* presents to the answer it gets: the caller's identity from the OAuth    *)
(* store, the database login from the credential map, the manager from the *)
(* registry (ConnectionRegistry, composed here), the tool's work on its    *)
(* session, and the audit wrapper around it all.                           *)
(*                                                                         *)
(* A token may expire or be revoked at any point of a call, and a manager  *)
(* may be evicted or torn down while a call works with it.                 *)
(***************************************************************************)
EXTENDS Integers, FiniteSets, Sequences

CONSTANTS
  Callers,         \* threads that serve requests
  Forcers,         \* threads that tear every session down (the watchdog)
  Tokens,          \* access tokens
  Subjects,        \* people, as far as tokens name them
  SubjectOf,       \* StoredToken.user_subject of each token
  LoginOf,         \* the credential map: subject -> login, or None
  Keys,            \* database logins
  Managers,
  MaxConnections,
  AuditEnabled,    \* config.audit_enabled: the tools are wrapped with the audit log
  MaxRequests,     \* bounds the number of requests
  None

ASSUME BoundsAssumption == MaxConnections \in Nat \ {0} /\ MaxRequests \in Nat
ASSUME AuditAssumption  == AuditEnabled \in BOOLEAN
ASSUME SubjectAssumption == SubjectOf \in [Tokens -> Subjects]
ASSUME LoginAssumption  == LoginOf \in [Subjects -> Keys \cup {None}]
ASSUME NoLoginAssumption == None \notin Keys /\ None \notin Subjects /\ None \notin Managers

VARIABLES
  slots, lock, created, open, adrift, pc, held, closing, askedAt, requests,
                \* of ConnectionRegistry
  live,         \* the tokens the OAuth store still has
  credentials,  \* the login each manager was created with
  at,           \* where a call is
  token,        \* the bearer token of a call
  login,        \* the login its identity was resolved to
  reply         \* what the tool's function gave, and then what the client gets

R == INSTANCE ConnectionRegistry WITH Closers <- {}

registry == <<slots, lock, created, open, adrift, pc, held, closing, askedAt, requests>>
call     == <<at, token, login, reply>>
vars     == <<registry, live, credentials, call>>

Init ==
  /\ R!Init
  /\ live = Tokens
  /\ credentials = [m \in Managers |-> None]
  /\ at = [t \in Callers |-> "idle"]
  /\ token = [t \in Callers |-> None]
  /\ login = [t \in Callers |-> None]
  /\ reply = [t \in Callers |-> None]

-----------------------------------------------------------------------------
(* The OAuth store, changed by requests of its own (OAuthProvider).  A      *)
(* token that is yet to be issued differs in nothing from one that is yet  *)
(* to be presented, so all of them are there from the start.               *)

\* It expires, or is revoked.
TokenEnds(k) ==
  /\ k \in live
  /\ live' = live \ {k}
  /\ UNCHANGED <<registry, credentials, call>>

-----------------------------------------------------------------------------
(* The request, and who makes it.                                          *)

\* The SDK has checked the bearer token, and the tool's function starts.
Arrive(t) ==
  /\ at[t] = "idle"
  /\ requests + Cardinality({u \in Callers : at[u] # "idle"}) < MaxRequests
  /\ \E k \in live : token' = [token EXCEPT ![t] = k]
  /\ at' = [at EXCEPT ![t] = "resolving"]
  /\ reply' = [reply EXCEPT ![t] = None]
  /\ UNCHANGED <<registry, live, credentials, login>>

\* current_caller(): a token that has ended since names nobody.
CurrentCaller(t) == IF token[t] \in live THEN SubjectOf[token[t]] ELSE None

\* The login of the current caller; None stands for IdentityError and
\* CredentialError, for a caller has no other login to fall back to.
CurrentLogin(t) ==
  IF CurrentCaller(t) = None THEN None ELSE LoginOf[CurrentCaller(t)]

\* get_connection_manager() raises, out of the tool's function.
Refuse(t) ==
  /\ at[t] = "resolving"
  /\ CurrentLogin(t) = None
  /\ at' = [at EXCEPT ![t] = "finishing"]
  /\ reply' = [reply EXCEPT ![t] = "error"]
  /\ UNCHANGED <<registry, live, credentials, token, login>>

\* Mutant of Resolve: a caller without a login is let through.
ResolveUnmapped(t) ==
  /\ at[t] = "resolving"
  /\ CurrentCaller(t) # None
  /\ R!Ask(t)
  /\ login' = [login EXCEPT ![t] = CurrentLogin(t)]
  /\ at' = [at EXCEPT ![t] = "working"]
  /\ UNCHANGED <<live, credentials, token, reply>>

\* for_caller() resolves the login before it takes the registry's lock.
Resolve(t) ==
  /\ at[t] = "resolving"
  /\ CurrentLogin(t) # None
  /\ R!Ask(t)
  /\ login' = [login EXCEPT ![t] = CurrentLogin(t)]
  /\ at' = [at EXCEPT ![t] = "working"]
  /\ UNCHANGED <<live, credentials, token, reply>>

-----------------------------------------------------------------------------
(* The tool's function.                                                    *)

\* A manager that is created gets the login it is created for.
GetManager(t) ==
  /\ R!ForCaller(t, login[t])
  /\ credentials' = [m \in Managers |->
       IF m \in created' \ created THEN login[t] ELSE credentials[m]]
  /\ UNCHANGED <<live, call>>

CloseEvicted(t) == R!CloseEvicted(t) /\ UNCHANGED <<live, credentials, call>>
EvictionDone(t) == R!EvictionDone(t) /\ UNCHANGED <<live, credentials, call>>
Work(t) ==
  /\ R!UseSession(t) \/ R!Disconnect(t)
  /\ UNCHANGED <<live, credentials, call>>

\* The function returns what it found, or a dict that says what went wrong.
ToolReturns(t) ==
  /\ R!RequestEnds(t)
  /\ at' = [at EXCEPT ![t] = "finishing"]
  /\ reply' = [reply EXCEPT ![t] = "result"]
  /\ UNCHANGED <<live, credentials, token, login>>

\* What the client gets.  The audit wrapper's finally clause calls
\* audit_tool_call with an argument it does not take: no record is written, and
\* the error takes the place of what the function gave.
Answer(t) == IF AuditEnabled THEN "error" ELSE reply[t]

Finish(t) ==
  /\ at[t] = "finishing"
  /\ reply' = [reply EXCEPT ![t] = Answer(t)]
  /\ at' = [at EXCEPT ![t] = "idle"]
  /\ token' = [token EXCEPT ![t] = None]
  /\ login' = [login EXCEPT ![t] = None]
  /\ UNCHANGED <<registry, live, credentials>>

-----------------------------------------------------------------------------
\* Everything of a call but the close of evicted sessions and the tool's work,
\* which may take as long as the database likes.
Advance(t) == \/ Refuse(t) \/ Resolve(t) \/ GetManager(t) \/ EvictionDone(t)
              \/ ToolReturns(t) \/ Finish(t)

TornDown(t) ==
  /\ R!ForceDisconnect(t) \/ R!CloseNext(t) \/ R!Forced(t)
  /\ UNCHANGED <<live, credentials, call>>

Next ==
  \/ \E k \in Tokens : TokenEnds(k)
  \/ \E t \in Callers : Arrive(t) \/ Advance(t) \/ CloseEvicted(t) \/ Work(t)
  \/ \E t \in Forcers : TornDown(t)

Spec == Init /\ [][Next]_vars

\* A thread that can go on does.  Nothing is assumed of closes, of new calls,
\* of tokens or of the watchdog.
FairSpec == Spec /\ \A t \in Callers : WF_vars(Advance(t))

-----------------------------------------------------------------------------
TypeOK ==
  /\ R!TypeOK
  /\ live \subseteq Tokens
  /\ credentials \in [Managers -> Keys \cup {None}]
  /\ at \in [Callers -> {"idle", "resolving", "working", "finishing"}]
  /\ token \in [Callers -> Tokens \cup {None}]
  /\ login \in [Callers -> Keys \cup {None}]
  /\ reply \in [Callers -> {"result", "error", None}]
  /\ \A t \in Callers : at[t] = "working" => login[t] # None

\* Whoever works on a session has a login, and works under it: the one that the
\* credential map gives the subject of its own token, whatever was evicted, torn
\* down, revoked or asked for by others since (identity.py, credentials.py,
\* registry.py).
WorksUnderOwnLogin ==
  \A t \in Callers :
    pc[t] = "using" =>
      LET own == LoginOf[SubjectOf[token[t]]] IN own # None /\ credentials[held[t]] = own

\* A call is answered unless it is itself closing an evicted session: nobody
\* waits for a session that somebody else is closing (registry.py, for_caller:
\* "closing a wedged socket ... would freeze every caller").
NobodyWaitsForAClose ==
  \A t \in Callers : at[t] # "idle" ~> at[t] = "idle" \/ closing[t] # <<>>

\* The audit wrapper hands on what the tool gave ("auditing must not break the
\* call it records", server.py).
AuditKeepsAnswer ==
  [][\A t \in Callers :
       at[t] = "finishing" /\ at'[t] = "idle" => reply'[t] = reply[t]]_vars
=============================================================================
