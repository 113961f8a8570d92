---------------------------- MODULE QueryService ----------------------------
(***************************************************************************)
(* What a ConnectionManager promises the callers of execute_command, with  *)
(* no word of locks, dials and workers.  Queries are served one at a time, *)
(* each on one session.  A caller gets one answer; "ok" is the answer of a *)
(* query that ran to its end on a session that still lived.  A query may   *)
(* be given up on: its session is then never used for a query again, and   *)
(* no other query begins before that caller has been told.                 *)
(***************************************************************************)
EXTENDS Naturals

CONSTANTS
  Callers,    \* the threads that ask
  Sessions,   \* database sessions
  None        \* no session

VARIABLES
  at,         \* where the query of a caller is
  on,         \* the session it runs on
  answer,     \* the answer to a caller's last call, of whatever kind
  retired,    \* sessions on which no query will run any more
  lost        \* sessions that have ended

vars == <<at, on, answer, retired, lost>>

Init ==
  /\ at = [c \in Callers |-> "idle"]
  /\ on = [c \in Callers |-> None]
  /\ answer = [c \in Callers |-> "none"]
  /\ retired = {}
  /\ lost = {}

\* Sessions end, and are replaced, at any time; a session that is replaced under
\* a query is retired when that query has ended.
SessionsGo ==
  /\ retired \subseteq retired' /\ retired' \subseteq Sessions
  /\ lost \subseteq lost' /\ lost' \subseteq Sessions
  /\ \A c \in Callers : on'[c] \notin retired'

Moves(c, from, to) ==
  /\ at[c] = from
  /\ at' = [at EXCEPT ![c] = to]

Answers(c, r) == answer' = [answer EXCEPT ![c] = r]

Ask(c) ==
  /\ Moves(c, "idle", "asked")
  /\ Answers(c, "none")
  /\ UNCHANGED on

\* There is no session to be had.
Refuse(c) ==
  /\ Moves(c, "asked", "idle")
  /\ Answers(c, "error")
  /\ UNCHANGED on

Begin(c) ==
  /\ Moves(c, "asked", "served")
  /\ \A d \in Callers : at[d] \in {"idle", "asked"}
  /\ \E s \in Sessions \ retired : on' = [on EXCEPT ![c] = s]
  /\ UNCHANGED answer

End(c) ==
  /\ Moves(c, "served", "ended")
  /\ \E r \in {"ok", "error"} :
       /\ r = "ok" => on[c] \notin lost
       /\ Answers(c, r)
  /\ on' = [on EXCEPT ![c] = None]

Deliver(c) ==
  /\ Moves(c, "ended", "idle")
  /\ UNCHANGED <<on, answer>>

GiveUp(c) ==
  /\ Moves(c, "served", "stopped")
  /\ on[c] \in retired'
  /\ on' = [on EXCEPT ![c] = None]
  /\ UNCHANGED answer

ReportTimeout(c) ==
  /\ Moves(c, "stopped", "idle")
  /\ Answers(c, "timeout")
  /\ UNCHANGED on

\* Calls of other kinds, whose answers are nothing to a query under way.
Otherwise ==
  /\ DOMAIN answer' = Callers
  /\ \A c \in Callers : at[c] # "idle" => answer'[c] = answer[c]
  /\ UNCHANGED <<at, on>>

Next ==
  /\ SessionsGo
  /\ \/ Otherwise
     \/ \E c \in Callers :
          \/ Ask(c) \/ Refuse(c) \/ Begin(c) \/ End(c) \/ Deliver(c)
          \/ GiveUp(c) \/ ReportTimeout(c)

Spec == Init /\ [][Next]_vars
=============================================================================
