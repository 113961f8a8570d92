------------------------------ MODULE Recovery ------------------------------
(***************************************************************************)
(* The watchdog at work: Watchdog's loop, the registry's managers it       *)
(* probes and tears down through its two callbacks, and the requests that  *)
(* open, use and evict their sessions meanwhile.                           *)
(*                                                                         *)
(* A session is hung while it does not answer WHO within watchdog_timeout, *)
(* whatever the reason.  A manager is its login, for as long as it is in   *)
(* the registry: one that is evicted has its session closed, and in a list *)
(* of managers it is Gone: it answers, and has nothing to close.  A        *)
(* session is absent once its manager has let go of it, which it does      *)
(* whether its close succeeds or raises.  What is left of it on the server *)
(* then, and that a request which still holds an evicted manager may open  *)
(* a session again, is in ConnectionManager and ConnectionRegistry: nobody *)
(* watches over such a session, and nothing is said of it here.  The       *)
(* thread of a check that timed out lives on until the session it waits    *)
(* for is let go of or answers; its result goes nowhere.                   *)
(***************************************************************************)
EXTENDS Watchdog, FiniteSets, SequencesExt

CONSTANTS
  Logins,          \* database logins: credentials.pool_key
  MaxConnections,  \* config.max_connections
  Gone             \* a manager that was evicted after it was listed

ASSUME SlotsAssumption == MaxConnections \in Nat \ {0}
ASSUME GoneAssumption  == Gone \notin Logins

VARIABLES
  slots,     \* _managers of the registry, least recently used first
  sessions,  \* what the session of a login is: "absent", "good" or "hung"
  probing,   \* managers the check in progress has still to probe
  closing,   \* managers the teardown in progress has still to disconnect
  silent,    \* history: logins hung ever since the check in progress began
  older      \* history: logins whose session is older than the teardown in progress

round    == <<probing, closing>>
history  == <<silent, older>>
allVars  == <<vars, slots, sessions, round, history>>

HungLogins == {l \in Logins : sessions[l] = "hung"}
OpenLogins == {l \in Logins : sessions[l] # "absent"}

RecoveryInit ==
  /\ Init
  /\ slots = <<>>
  /\ sessions = [l \in Logins |-> "absent"]
  /\ probing = <<>> /\ closing = <<>>
  /\ silent = {} /\ older = {}

-----------------------------------------------------------------------------
(* The check: registry.health_check() on a thread of its own.              *)

\* The steps of the watchdog that do not touch the registry.
ControlStep ==
  /\ Start \/ Stop \/ StopReturns \/ LoopEnds \/ CheckRaises
  /\ UNCHANGED <<slots, sessions, round, history>>

\* The managers are listed under the lock, and probed outside it.
CheckBegins ==
  /\ IntervalElapses
  /\ probing' = slots
  /\ silent' = HungLogins
  /\ UNCHANGED <<slots, sessions, closing, older>>

\* Mutant of ProbeAnswers: the managers are not copied, but read as they are now.
ProbeAnswersLive ==
  /\ task = "checking"
  /\ probing # <<>>
  /\ Head(probing) \notin HungLogins
  /\ probing' = IF Head(probing) \in ToSet(slots)
                  THEN SubSeq(slots, 1 + SelectInSeq(slots, LAMBDA x : x = Head(probing)), Len(slots))
                  ELSE <<>>
  /\ UNCHANGED <<vars, slots, sessions, closing, history>>

\* health_check() of one manager is true: WHO answered, or there is no session.
ProbeAnswers ==
  /\ task = "checking"
  /\ probing # <<>>
  /\ Head(probing) \notin HungLogins
  /\ probing' = Tail(probing)
  /\ UNCHANGED <<vars, slots, sessions, closing, history>>

\* all() is true only at the end of the list.
RegistryHealthy ==
  /\ probing = <<>>
  /\ CheckPasses
  /\ silent' = {}
  /\ UNCHANGED <<slots, sessions, round, older>>

\* Mutant of RegistryUnhealthy: a check without an answer is no failed check.
RegistryUnanswered ==
  /\ task = "checking"
  /\ task' = "waiting"
  /\ silent' = {}
  /\ UNCHANGED <<control, consecutive_failures, outcomes, slots, sessions, round, older>>

\* A manager answers false, or watchdog_timeout passes first, be it that one is hung
\* or that many were slow.  After the last failure force_disconnect() lists the
\* managers, under the lock.
RegistryUnhealthy ==
  /\ CheckFails
  /\ probing' = <<>>
  /\ silent' = {}
  /\ closing' = IF task' = "forcing" THEN slots ELSE <<>>
  /\ older' = IF task' = "forcing" THEN OpenLogins ELSE {}
  /\ UNCHANGED <<slots, sessions>>

-----------------------------------------------------------------------------
(* The teardown: registry.force_disconnect() on the loop's thread.  A      *)
(* manager's own force_disconnect() raises nothing (connection.py:513), so *)
(* Watchdog's ForceRaises does not happen.                                 *)

\* Whatever becomes of a session, it is not the one it was.
Replaced(l) ==
  /\ silent' = silent \ {l}
  /\ older' = older \ {l}

\* Mutant of DisconnectNext: one manager that is closed is enough.
DisconnectOne ==
  /\ task = "forcing"
  /\ closing # <<>>
  /\ sessions' = [l \in Logins |-> IF l = Head(closing) THEN "absent" ELSE sessions[l]]
  /\ closing' = <<>>
  /\ Replaced(Head(closing))
  /\ UNCHANGED <<vars, slots, probing>>

\* close() of a hung session may take its time, and other threads go on.
DisconnectNext ==
  /\ task = "forcing"
  /\ closing # <<>>
  /\ sessions' = [l \in Logins |-> IF l = Head(closing) THEN "absent" ELSE sessions[l]]
  /\ closing' = Tail(closing)
  /\ Replaced(Head(closing))
  /\ UNCHANGED <<vars, slots, probing>>

TeardownEnds ==
  /\ closing = <<>>
  /\ ForceReconnect
  /\ UNCHANGED <<slots, sessions, round, history>>

-----------------------------------------------------------------------------
(* The requests and the database server.                                   *)

\* The least recently used login gives way to one that has no slot.
Evictee(l) ==
  IF l \notin ToSet(slots) /\ Len(slots) = MaxConnections THEN {Head(slots)} ELSE {}

\* get_session() opens one if there is none, and _close_evicted() closes the other.
SessionsAfter(l) ==
  [x \in Logins |-> IF x \in Evictee(l) THEN "absent"
                    ELSE IF x = l /\ sessions[l] = "absent" THEN "good"
                    ELSE sessions[x]]

\* for_caller(): the login becomes the most recently used.
SlotsAfter(l) ==
  LET rest == IF l \in ToSet(slots) THEN RemoveAt(slots, CHOOSE i \in DOMAIN slots : slots[i] = l)
              ELSE IF Evictee(l) # {} THEN Tail(slots) ELSE slots
  IN  Append(rest, l)

Listed(s, evicted) == [i \in DOMAIN s |-> IF s[i] \in evicted THEN Gone ELSE s[i]]

Request(l) ==
  /\ slots' = SlotsAfter(l)
  /\ sessions' = SessionsAfter(l)
  /\ probing' = Listed(probing, Evictee(l))
  /\ closing' = Listed(closing, Evictee(l))
  /\ silent' = silent \ Evictee(l)
  /\ older' = older \ Evictee(l)
  /\ UNCHANGED vars

\* The disconnect tool, or a query that times out, closes the session.
Disconnects(l) ==
  /\ sessions[l] # "absent"
  /\ sessions' = [sessions EXCEPT ![l] = "absent"]
  /\ Replaced(l)
  /\ UNCHANGED <<vars, slots, round>>

Hangs(l) ==
  /\ sessions[l] = "good"
  /\ sessions' = [sessions EXCEPT ![l] = "hung"]
  /\ UNCHANGED <<vars, slots, round, history>>

Answers(l) ==
  /\ sessions[l] = "hung"
  /\ sessions' = [sessions EXCEPT ![l] = "good"]
  /\ silent' = silent \ {l}
  /\ UNCHANGED <<vars, slots, round, older>>

Environment == \E l \in Logins : Request(l) \/ Disconnects(l) \/ Hangs(l) \/ Answers(l)

RecoveryNext ==
  \/ ControlStep
  \/ CheckBegins \/ ProbeAnswers \/ RegistryHealthy \/ RegistryUnhealthy
  \/ DisconnectNext \/ TeardownEnds
  \/ Environment

RecoverySpec == RecoveryInit /\ [][RecoveryNext]_allVars

\* The interval and the timeout of a check pass, a manager that answers does, and
\* close() returns, if only with the error of a dead socket.  A check that is tried
\* again and again has an outcome in the end.  Nothing is assumed of the requests
\* or the server.
FairRecovery ==
  /\ RecoverySpec
  /\ WF_allVars(CheckBegins)
  /\ SF_allVars(RegistryHealthy \/ RegistryUnhealthy)
  /\ WF_allVars(DisconnectNext)
  /\ WF_allVars(TeardownEnds)

-----------------------------------------------------------------------------
\* Requests come and go while a list of managers is worked through: the lists hold
\* what is still to be done, and the histories only what they are about.
RecoveryTypeOK ==
  /\ TypeOK
  /\ slots \in Seq(Logins)
  /\ Len(slots) <= MaxConnections
  /\ sessions \in [Logins -> {"absent", "good", "hung"}]
  /\ probing \in Seq(Logins \cup {Gone}) /\ closing \in Seq(Logins \cup {Gone})
  /\ silent \subseteq HungLogins /\ older \subseteq OpenLogins

\* A check does not pass over a login that hung all the time it took, whatever the
\* requests of the others did to the order of the managers meanwhile.
NoPassOverHung == [][RegistryHealthy => silent = {}]_allVars

\* When a teardown is over, no session of the registry is left that was open when
\* it began: what is open then was opened by a request since, and the counter
\* starts again for it.
TeardownReachesAll == [][task = "forcing" /\ task' # "forcing" => older = {}]_allVars

\* The manager of a login is rid of a session that stays hung in the end, by a
\* teardown or an eviction, whatever the others do, unless the watchdog is stopped.
HungIsReset == \A l \in Logins : sessions[l] = "hung" ~> (sessions[l] # "hung" \/ ~is_running)
=============================================================================
