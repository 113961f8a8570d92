------------------------- MODULE ConnectionRegistry -------------------------
(***************************************************************************)
(* The registry: one connection manager per database login, at most        *)
(* MaxConnections of them, the least recently used one giving way.         *)
(*                                                                         *)
(* A manager is reduced to whether it has a session: it opens one when it  *)
(* is used (get_session), and closes it when it is told to, if the driver  *)
(* does.  A manager the registry has forgotten still works for whoever was *)
(* handed it.                                                              *)
(* Each block under the registry's lock is one step, except disconnect_all *)
(* which closes sessions while it holds the lock.                          *)
(***************************************************************************)
EXTENDS Integers, FiniteSets, Sequences, SequencesExt

CONSTANTS
  Callers,         \* threads that serve requests
  Closers,         \* threads that run disconnect_all (reset_connection_manager)
  Forcers,         \* threads that run force_disconnect (the watchdog)
  Keys,            \* database logins: credentials.pool_key
  Managers,        \* identities for manager objects; bounds the evictions
  MaxConnections,  \* config.max_connections
  MaxRequests,     \* bounds the number of requests
  None

ASSUME MaxAssumption  == MaxConnections \in Nat \ {0}
ASSUME BoundAssumption == MaxRequests \in Nat
ASSUME NoManagerAssumption == None \notin Managers

VARIABLES
  slots,     \* _managers, least recently used first: <<[key, manager], ...>>
  lock,      \* _lock is held across steps (by disconnect_all only)
  created,   \* managers that exist
  open,      \* managers that have a session open
  adrift,    \* history: those whose session nobody will close: a request that
             \* outlived their slot opened it, or a close of it has failed
  pc,        \* where a thread is
  held,      \* the manager a caller was handed for its request
  closing,   \* managers a thread still has to close
  askedAt,   \* history: the number of the last request of each login
  requests   \* history: requests so far

sessions == <<open, adrift>>
vars == <<slots, lock, created, sessions, pc, held, closing, askedAt, requests>>

Threads == Callers \cup Closers \cup Forcers
Slot    == [key : Keys, manager : Managers]

ManagersOf(s) == [i \in DOMAIN s |-> s[i].manager]
KeysOf(s)     == {s[i].key : i \in DOMAIN s}
InSlot(m)     == \E i \in DOMAIN slots : slots[i].manager = m

Init ==
  /\ slots = <<>>
  /\ lock = FALSE
  /\ created = {}
  /\ open = {}
  /\ adrift = {}
  /\ pc = [t \in Threads |-> "idle"]
  /\ held = [t \in Callers |-> None]
  /\ closing = [t \in Threads |-> <<>>]
  /\ askedAt = [k \in Keys |-> 0]
  /\ requests = 0

-----------------------------------------------------------------------------
(* for_caller(): a request asks for the manager of its login.              *)

Ask(t) ==
  /\ pc[t] = "idle"
  /\ requests < MaxRequests
  /\ pc' = [pc EXCEPT ![t] = "asking"]
  /\ UNCHANGED <<slots, lock, created, sessions, held, closing, askedAt, requests>>

Request(k) ==
  /\ requests' = requests + 1
  /\ askedAt' = [askedAt EXCEPT ![k] = requests + 1]

\* Mutant of MoveToEnd: a login keeps its place when it is asked for again.
KeepPlace(s, i) == s

MoveToEnd(s, i) == Append(RemoveAt(s, i), s[i])

\* Mutant of Hit: any login's manager will do.
HitAnyones(t, k) ==
  /\ \E i \in DOMAIN slots :
       /\ slots' = MoveToEnd(slots, i)
       /\ held' = [held EXCEPT ![t] = slots[i].manager]
  /\ pc' = [pc EXCEPT ![t] = "using"]
  /\ UNCHANGED <<created, closing>>

\* The login becomes the most recently used.
Hit(t, k) ==
  /\ \E i \in DOMAIN slots :
       /\ slots[i].key = k
       /\ slots' = MoveToEnd(slots, i)
       /\ held' = [held EXCEPT ![t] = slots[i].manager]
  /\ pc' = [pc EXCEPT ![t] = "using"]
  /\ UNCHANGED <<created, closing>>

\* Mutant of Evicted: room is made one slot too late.
EvictedLate == IF Len(slots) <= MaxConnections THEN 0 ELSE Len(slots) - MaxConnections

\* _take_evictable_managers: the oldest slots go until there is room for one.
Evicted == IF Len(slots) < MaxConnections THEN 0 ELSE Len(slots) - MaxConnections + 1

\* Mutant of Miss: a slot is added without looking for the login's own.
MissUnchecked(t, k) ==
  /\ \E m \in Managers \ created :
       /\ slots' = Append(SubSeq(slots, Evicted + 1, Len(slots)), [key |-> k, manager |-> m])
       /\ created' = created \cup {m}
       /\ held' = [held EXCEPT ![t] = m]
  /\ closing' = [closing EXCEPT ![t] = ManagersOf(SubSeq(slots, 1, Evicted))]
  /\ pc' = [pc EXCEPT ![t] = "closing"]

Miss(t, k) ==
  /\ k \notin KeysOf(slots)
  /\ \E m \in Managers \ created :
       /\ slots' = Append(SubSeq(slots, Evicted + 1, Len(slots)), [key |-> k, manager |-> m])
       /\ created' = created \cup {m}
       /\ held' = [held EXCEPT ![t] = m]
  /\ closing' = [closing EXCEPT ![t] = ManagersOf(SubSeq(slots, 1, Evicted))]
  /\ pc' = [pc EXCEPT ![t] = "closing"]

\* Mutant of ForCaller: evicted sessions are closed before the lock is left.
ForCallerBehindClose(t, k) ==
  /\ pc[t] = "asking"
  /\ ~lock
  /\ \A u \in Callers : pc[u] # "closing"
  /\ Request(k)
  /\ Hit(t, k) \/ Miss(t, k)
  /\ UNCHANGED <<lock, sessions>>

ForCaller(t, k) ==
  /\ pc[t] = "asking"
  /\ ~lock
  /\ Request(k)
  /\ Hit(t, k) \/ Miss(t, k)
  /\ UNCHANGED <<lock, sessions>>

Close(m) ==
  /\ open' = open \ {m}
  /\ adrift' = adrift \ {m}

\* The driver's close() fails.  A manager's disconnect() answers false and keeps
\* its session; nobody looks at the answer.
CloseFails(m) ==
  /\ m \in open
  /\ adrift' = adrift \cup {m}
  /\ UNCHANGED open

\* Mutant of CloseEvicted: the evicted manager is dropped with its session open.
DropEvicted(t) ==
  /\ pc[t] = "closing"
  /\ closing[t] # <<>>
  /\ closing' = [closing EXCEPT ![t] = Tail(closing[t])]
  /\ UNCHANGED <<slots, lock, created, sessions, pc, held, askedAt, requests>>

\* _close_evicted, outside the lock: one disconnect_all per evicted manager.  What
\* goes wrong is logged, and the manager dropped.
CloseEvicted(t) ==
  /\ pc[t] = "closing"
  /\ closing[t] # <<>>
  /\ Close(Head(closing[t])) \/ CloseFails(Head(closing[t]))
  /\ closing' = [closing EXCEPT ![t] = Tail(closing[t])]
  /\ UNCHANGED <<slots, lock, created, pc, held, askedAt, requests>>

EvictionDone(t) ==
  /\ pc[t] = "closing"
  /\ closing[t] = <<>>
  /\ pc' = [pc EXCEPT ![t] = "using"]
  /\ UNCHANGED <<slots, lock, created, sessions, held, closing, askedAt, requests>>

\* The request works on the manager it was handed: get_session opens a session
\* whenever there is none, evicted or not.
UseSession(t) ==
  /\ pc[t] = "using"
  /\ open' = open \cup {held[t]}
  /\ adrift' = IF lock \/ ~InSlot(held[t]) THEN adrift \cup {held[t]} ELSE adrift
  /\ UNCHANGED <<slots, lock, created, pc, held, closing, askedAt, requests>>

\* The disconnect tool, if the close succeeds.
Disconnect(t) ==
  /\ pc[t] = "using"
  /\ Close(held[t])
  /\ UNCHANGED <<slots, lock, created, pc, held, closing, askedAt, requests>>

RequestEnds(t) ==
  /\ pc[t] = "using"
  /\ pc' = [pc EXCEPT ![t] = "idle"]
  /\ held' = [held EXCEPT ![t] = None]
  /\ UNCHANGED <<slots, lock, created, sessions, closing, askedAt, requests>>

-----------------------------------------------------------------------------
(* disconnect_all() closes under the lock; force_disconnect() takes a      *)
(* snapshot under the lock and closes outside it.                          *)

DisconnectAll(t) ==
  /\ pc[t] = "idle"
  /\ ~lock
  /\ lock' = TRUE
  /\ pc' = [pc EXCEPT ![t] = "disconnecting"]
  /\ closing' = [closing EXCEPT ![t] = ManagersOf(slots)]
  /\ UNCHANGED <<slots, created, sessions, held, askedAt, requests>>

ForceDisconnect(t) ==
  /\ pc[t] = "idle"
  /\ ~lock
  /\ pc' = [pc EXCEPT ![t] = "forcing"]
  /\ closing' = [closing EXCEPT ![t] = ManagersOf(slots)]
  /\ UNCHANGED <<slots, lock, created, sessions, held, askedAt, requests>>

\* A manager's force_disconnect() leaves it without a session, closed or not; its
\* disconnect() may fail.
CloseNext(t) ==
  /\ pc[t] \in {"disconnecting", "forcing"}
  /\ closing[t] # <<>>
  /\ Close(Head(closing[t])) \/ (pc[t] = "disconnecting" /\ CloseFails(Head(closing[t])))
  /\ closing' = [closing EXCEPT ![t] = Tail(closing[t])]
  /\ UNCHANGED <<slots, lock, created, pc, held, askedAt, requests>>

\* A manager's disconnect() that raises takes disconnect_all with it: the lock
\* is left, and nothing is forgotten.
CloseRaises(t) ==
  /\ pc[t] = "disconnecting"
  /\ closing[t] # <<>>
  /\ lock' = FALSE
  /\ pc' = [pc EXCEPT ![t] = "idle"]
  /\ closing' = [closing EXCEPT ![t] = <<>>]
  /\ UNCHANGED <<slots, created, sessions, held, askedAt, requests>>

\* disconnect_all forgets every manager and leaves the lock.
DisconnectedAll(t) ==
  /\ pc[t] = "disconnecting"
  /\ closing[t] = <<>>
  /\ slots' = <<>>
  /\ lock' = FALSE
  /\ pc' = [pc EXCEPT ![t] = "idle"]
  /\ UNCHANGED <<created, sessions, held, closing, askedAt, requests>>

Forced(t) ==
  /\ pc[t] = "forcing"
  /\ closing[t] = <<>>
  /\ pc' = [pc EXCEPT ![t] = "idle"]
  /\ UNCHANGED <<slots, lock, created, sessions, held, closing, askedAt, requests>>

-----------------------------------------------------------------------------
Next ==
  \/ \E t \in Callers : \/ Ask(t) \/ CloseEvicted(t) \/ EvictionDone(t)
                        \/ UseSession(t) \/ Disconnect(t) \/ RequestEnds(t)
                        \/ \E k \in Keys : ForCaller(t, k)
  \/ \E t \in Closers : DisconnectAll(t) \/ CloseNext(t) \/ CloseRaises(t) \/ DisconnectedAll(t)
  \/ \E t \in Forcers : ForceDisconnect(t) \/ CloseNext(t) \/ Forced(t)

Spec == Init /\ [][Next]_vars

-----------------------------------------------------------------------------
TypeOK ==
  /\ slots \in Seq(Slot)
  /\ lock \in BOOLEAN
  /\ created \subseteq Managers
  /\ open \subseteq Managers
  /\ adrift \subseteq Managers
  /\ pc \in [Threads -> {"idle", "asking", "closing", "using", "disconnecting", "forcing"}]
  /\ held \in [Callers -> Managers \cup {None}]
  /\ closing \in [Threads -> Seq(Managers)]
  /\ askedAt \in [Keys -> Nat]
  /\ requests \in Nat

\* The registry never keeps more slots than max_connections, however many
\* callers ask at once.
SlotsBounded == Len(slots) <= MaxConnections

\* A login has one slot, and no two logins share a manager: nobody is ever
\* handed another login's session.
SlotsDistinct ==
  \A i, j \in DOMAIN slots :
    slots[i].key = slots[j].key \/ slots[i].manager = slots[j].manager => i = j

\* The slot that gives way is the one that was asked for longest ago.
EvictsLeastRecentlyUsed ==
  [][\A i \in DOMAIN slots :
       slots[i].key \notin KeysOf(slots') /\ slots' # <<>>
         => \A j \in DOMAIN slots' : askedAt'[slots[i].key] < askedAt'[slots'[j].key]]_vars

\* Whatever is evicted or reset is closed, or its close was tried and failed: when
\* every request has ended and every close has returned, a manager without a slot
\* has a session only if the driver would not close it, or if a request that
\* outlived the slot opened it again (_close_evicted, disconnect_all).
EvictedSessionsClosed ==
  (\A t \in Threads : pc[t] = "idle") =>
    \A m \in open : InSlot(m) \/ m \in adrift
=============================================================================
