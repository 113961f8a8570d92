--------------------------- MODULE RecoveryProofs ---------------------------
(***************************************************************************)
(* Theorems about the watchdog, for every limit of failures, and about the *)
(* watchdog at work, for any logins and slots.                             *)
(*                                                                         *)
(* The counter the loop decides by is tied to the history of outcomes: as  *)
(* many of the latest outcomes as the counter says are failures            *)
(* (CounterIsExact).  What hung since a check began is still in the list   *)
(* of what it has to probe, and what was open when a teardown began is     *)
(* still in the list of what it has to close: so neither can end before    *)
(* its list is empty (ListsInv).                                           *)
(***************************************************************************)
EXTENDS Recovery, SequenceTheorems, TLAPS

-----------------------------------------------------------------------------
(* The loop (module Watchdog).                                             *)

CounterIsExact ==
  /\ \A i \in DOMAIN outcomes :
       i > Len(outcomes) - consecutive_failures => outcomes[i] = "failed"
  /\ consecutive_failures <= Len(outcomes) \/ Len(outcomes) = MaxFailures
  /\ task = "forcing" => consecutive_failures >= MaxFailures

FailureInv == TypeOK /\ CounterIsExact

\* The window of a watchdog that has not checked yet.
LEMMA NoOutcomes ==
  ASSUME NEW s, s = <<>>
  PROVE  s \in Seq({"passed", "failed"}) /\ Len(s) = 0 /\ DOMAIN s = {} /\ Len(s) <= MaxFailures
<1>1. <<>> \in Seq({"passed", "failed"}) /\ Len(<<>>) = 0 /\ DOMAIN <<>> = {}
  OBVIOUS
<1>2. QED
  BY <1>1, FailuresAssumption

\* What a check records: the window of outcomes keeps its type and its bound, and
\* the outcomes that stay move down by one if the window was full.
LEMMA RecordWindow ==
  ASSUME TypeOK, NEW o \in {"passed", "failed"}, Record(o)
  PROVE  /\ outcomes' \in Seq({"passed", "failed"})
         /\ Len(outcomes') \in 1..MaxFailures
         /\ outcomes'[Len(outcomes')] = o
         /\ IF Len(outcomes) = MaxFailures
              THEN /\ Len(outcomes') = MaxFailures
                   /\ \A i \in 1..(MaxFailures - 1) : outcomes'[i] = outcomes[i + 1]
              ELSE /\ Len(outcomes') = Len(outcomes) + 1
                   /\ \A i \in 1..Len(outcomes) : outcomes'[i] = outcomes[i]
<1> USE FailuresAssumption DEF TypeOK, Record
<1>1. CASE Len(outcomes) = MaxFailures
  <2>1. /\ Tail(outcomes) \in Seq({"passed", "failed"})
        /\ Len(Tail(outcomes)) = MaxFailures - 1
        /\ \A i \in 1..(MaxFailures - 1) : Tail(outcomes)[i] = outcomes[i + 1]
    BY <1>1
  <2>2. outcomes' = Append(Tail(outcomes), o)
    BY <1>1
  <2> HIDE DEF Record
  <2>3. QED
    BY <1>1, <2>1, <2>2
<1>2. CASE Len(outcomes) # MaxFailures
  BY <1>2
<1>3. QED
  BY <1>1, <1>2

\* A failure counts one more, and is one more at the end of the window.
LEMMA FailStep == FailureInv /\ CheckFails => FailureInv'
<1> SUFFICES ASSUME FailureInv, CheckFails PROVE FailureInv'
  OBVIOUS
<1> USE FailuresAssumption DEF FailureInv
<1>1. /\ outcomes' \in Seq({"passed", "failed"})
      /\ Len(outcomes') \in 1..MaxFailures
      /\ outcomes'[Len(outcomes')] = "failed"
      /\ IF Len(outcomes) = MaxFailures
           THEN /\ Len(outcomes') = MaxFailures
                /\ \A i \in 1..(MaxFailures - 1) : outcomes'[i] = outcomes[i + 1]
           ELSE /\ Len(outcomes') = Len(outcomes) + 1
                /\ \A i \in 1..Len(outcomes) : outcomes'[i] = outcomes[i]
  BY RecordWindow DEF CheckFails
<1>2. /\ consecutive_failures' \in 0..(MaxFailures + 1)
      /\ consecutive_failures' <= consecutive_failures + 1
      /\ consecutive_failures' > MaxFailures => consecutive_failures >= MaxFailures
  BY DEF CheckFails, Counted, TypeOK
<1>3. TypeOK'
  BY <1>1, <1>2 DEF CheckFails, TypeOK, control
<1>4. ASSUME NEW i \in DOMAIN outcomes', i > Len(outcomes') - consecutive_failures'
      PROVE  outcomes'[i] = "failed"
  <2>1. i \in 1..Len(outcomes') /\ Len(outcomes) \in Nat
    BY <1>1 DEF TypeOK
  <2>2. CASE i = Len(outcomes')
    BY <1>1, <2>2
  <2>3. CASE i # Len(outcomes') /\ Len(outcomes) = MaxFailures
    <3>1. i + 1 \in DOMAIN outcomes /\ i + 1 > Len(outcomes) - consecutive_failures
      BY <1>1, <1>2, <1>4, <2>1, <2>3 DEF TypeOK
    <3>2. QED
      BY <1>1, <2>1, <2>3, <3>1 DEF CounterIsExact
  <2>4. CASE i # Len(outcomes') /\ Len(outcomes) # MaxFailures
    <3>1. i \in DOMAIN outcomes /\ i > Len(outcomes) - consecutive_failures
      BY <1>1, <1>2, <1>4, <2>1, <2>4 DEF TypeOK
    <3>2. QED
      BY <1>1, <2>1, <2>4, <3>1 DEF CounterIsExact
  <2>5. QED
    BY <2>2, <2>3, <2>4
<1>5. consecutive_failures' <= Len(outcomes') \/ Len(outcomes') = MaxFailures
  BY <1>1, <1>2 DEF CounterIsExact, TypeOK
<1>6. task' = "forcing" => consecutive_failures' >= MaxFailures
  BY DEF CheckFails
<1>7. QED
  BY <1>3, <1>4, <1>5, <1>6 DEF CounterIsExact

\* Every other step leaves counter and window alone, or starts both again.
LEMMA FailureStep == FailureInv /\ [Next]_vars => FailureInv'
<1> SUFFICES ASSUME FailureInv, [Next]_vars PROVE FailureInv'
  OBVIOUS
<1> USE FailuresAssumption DEF FailureInv, control
<1>1. CASE CheckFails
  BY <1>1, FailStep
<1>2. CASE CheckPasses
  <2>1. outcomes' \in Seq({"passed", "failed"}) /\ Len(outcomes') \in 1..MaxFailures
    BY <1>2, RecordWindow DEF CheckPasses
  <2>2. QED
    BY <1>2, <2>1 DEF CheckPasses, TypeOK, CounterIsExact
<1>3. CASE Start \/ ForceReconnect
  <2>1. outcomes' = <<>> /\ consecutive_failures' = 0 /\ task' = "waiting"
    BY <1>3 DEF Start, ForceReconnect
  <2>2. TypeOK'
    <3>1. /\ outcomes' \in Seq({"passed", "failed"}) /\ Len(outcomes') <= MaxFailures
          /\ consecutive_failures' \in 0..(MaxFailures + 1)
      BY <2>1, NoOutcomes
    <3>2. QED
      BY <1>3, <2>1, <3>1 DEF Start, ForceReconnect, TypeOK
  <2>3. CounterIsExact'
    BY <2>1, NoOutcomes DEF CounterIsExact
  <2>4. QED
    BY <2>2, <2>3
<1>4. CASE Stop \/ StopReturns
  BY <1>4 DEF Stop, StopReturns, TypeOK, CounterIsExact
<1>5. CASE IntervalElapses \/ LoopEnds \/ CheckRaises \/ ForceRaises
  BY <1>5 DEF IntervalElapses, LoopEnds, CheckRaises, ForceRaises, TypeOK, CounterIsExact
<1>6. CASE UNCHANGED vars
  BY <1>6 DEF vars, TypeOK, CounterIsExact
<1>7. QED
  BY <1>1, <1>2, <1>3, <1>4, <1>5, <1>6 DEF Next

\* A watchdog that was never started has no outcomes.
LEMMA FailureInit == Init => FailureInv
<1> SUFFICES ASSUME Init PROVE FailureInv
  OBVIOUS
<1>1. outcomes \in Seq({"passed", "failed"}) /\ Len(outcomes) = 0 /\ DOMAIN outcomes = {}
  BY NoOutcomes DEF Init
<1>2. /\ is_running = FALSE /\ stop_event = FALSE /\ task = "none" /\ caller = "idle"
      /\ consecutive_failures = 0
  BY DEF Init
<1>3. TypeOK
  <2>1. consecutive_failures \in 0..(MaxFailures + 1) /\ Len(outcomes) <= MaxFailures
    BY <1>1, <1>2, FailuresAssumption
  <2>2. QED
    BY <1>1, <1>2, <2>1 DEF TypeOK
<1>4. CounterIsExact
  BY <1>1, <1>2 DEF CounterIsExact
<1>5. QED
  BY <1>3, <1>4 DEF FailureInv

\* A connection is never torn down but after MaxFailures failures in a row.
THEOREM TeardownEarned == Spec => []TeardownIsEarned
<1>1. FailureInv => TeardownIsEarned
  BY FailuresAssumption DEF FailureInv, TypeOK, CounterIsExact, TeardownIsEarned
<1>2. QED
  BY <1>1, FailureInit, FailureStep, PTL DEF Spec

\* The stop event is what ends a loop whose flag is down, and a caller that waits in
\* stop() is between two loops.
LoopInv ==
  /\ OneLoopPerStart
  /\ caller = "stopping" => ~is_running
  /\ stop_event => ~is_running

LEMMA LoopStep == LoopInv /\ [Next]_vars => LoopInv'
<1> SUFFICES ASSUME LoopInv, [Next]_vars PROVE LoopInv'
  OBVIOUS
<1> USE DEF LoopInv, OneLoopPerStart, control
<1>1. CASE Start
  BY <1>1 DEF Start
<1>2. CASE Stop \/ StopReturns
  BY <1>2 DEF Stop, StopReturns
<1>3. CASE IntervalElapses \/ LoopEnds
  BY <1>3 DEF IntervalElapses, LoopEnds
<1>4. CASE CheckPasses \/ CheckFails \/ CheckRaises
  BY <1>4 DEF CheckPasses, CheckFails, CheckRaises
<1>5. CASE ForceReconnect \/ ForceRaises
  BY <1>5 DEF ForceReconnect, ForceRaises
<1>6. CASE UNCHANGED vars
  BY <1>6 DEF vars
<1>7. QED
  BY <1>1, <1>2, <1>3, <1>4, <1>5, <1>6 DEF Next

LEMMA LoopBegins == Init => LoopInv
BY DEF Init, LoopInv, OneLoopPerStart

\* Every start() begins the one loop, and no stop() leaves one behind: start(),
\* stop() and the loop's own end, in any order.
THEOREM OneLoop == Spec => []OneLoopPerStart
<1>1. LoopInv => OneLoopPerStart
  BY DEF LoopInv
<1>2. QED
  BY <1>1, LoopBegins, LoopStep, PTL DEF Spec

-----------------------------------------------------------------------------
(* The loop at work (module Recovery).                                     *)

\* A login that is not in the registry has no session: the lists miss none.
SessionsHaveSlots == OpenLogins \subseteq ToSet(slots)

RegistryInv ==
  /\ slots \in Seq(Logins)
  /\ Len(slots) <= MaxConnections
  /\ sessions \in [Logins -> {"absent", "good", "hung"}]
  /\ SessionsHaveSlots

ListsInv ==
  /\ probing \in Seq(Logins \cup {Gone})
  /\ closing \in Seq(Logins \cup {Gone})
  /\ silent \subseteq HungLogins
  /\ older \subseteq OpenLogins
  /\ task = "checking" => silent \subseteq ToSet(probing)
  /\ task = "forcing" => older \subseteq ToSet(closing)

RecoveryInv == RegistryInv /\ ListsInv

\* What is in a list but not at its head is in its tail.
LEMMA TailKeeps ==
  ASSUME NEW S, NEW s \in Seq(S), s # <<>>
  PROVE  /\ Tail(s) \in Seq(S)
         /\ \A x \in ToSet(s) : x # Head(s) => x \in ToSet(Tail(s))
<1>1. Tail(s) \in Seq(S) /\ Len(Tail(s)) = Len(s) - 1
  OBVIOUS
<1>2. ASSUME NEW x \in ToSet(s), x # Head(s) PROVE x \in ToSet(Tail(s))
  <2>1. PICK i \in 1..Len(s) : x = s[i]
    BY DEF ToSet
  <2>2. i - 1 \in DOMAIN Tail(s) /\ Tail(s)[i - 1] = x
    BY <1>1, <1>2, <2>1
  <2>3. QED
    BY <2>2 DEF ToSet
<1>3. QED
  BY <1>1, <1>2

\* An empty list has nothing in it, and a list of managers is one again when those
\* that are evicted are crossed out.
LEMMA EmptyList == ASSUME NEW s, s = <<>> PROVE ToSet(s) = {}
BY DEF ToSet

LEMMA ListedKeeps ==
  ASSUME NEW s \in Seq(Logins \cup {Gone}), NEW evicted
  PROVE  /\ Listed(s, evicted) \in Seq(Logins \cup {Gone})
         /\ \A x \in ToSet(s) : x \notin evicted => x \in ToSet(Listed(s, evicted))
<1> DEFINE r == Listed(s, evicted)
<1>1. /\ Len(s) \in Nat /\ DOMAIN s = 1..Len(s)
      /\ \A i \in 1..Len(s) : s[i] \in Logins \cup {Gone}
  OBVIOUS
<1>2. r \in [1..Len(s) -> Logins \cup {Gone}]
  BY <1>1 DEF Listed
<1>3. r \in Seq(Logins \cup {Gone})
  BY <1>1, <1>2
<1>4. ASSUME NEW x \in ToSet(s), x \notin evicted PROVE x \in ToSet(r)
  <2>1. PICK i \in 1..Len(s) : x = s[i]
    BY <1>1 DEF ToSet
  <2>2. r[i] = x /\ i \in DOMAIN r
    BY <1>1, <1>2, <1>4, <2>1 DEF Listed
  <2>3. QED
    BY <2>2 DEF ToSet
<1>5. QED
  BY <1>3, <1>4

\* A sequence without one of its elements.
LEMMA RemoveAtKeeps ==
  ASSUME NEW S, NEW s \in Seq(S), NEW i \in DOMAIN s
  PROVE  /\ RemoveAt(s, i) \in Seq(S)
         /\ Len(RemoveAt(s, i)) = Len(s) - 1
         /\ \A x \in ToSet(s) : x # s[i] => x \in ToSet(RemoveAt(s, i))
<1> DEFINE a == SubSeq(s, 1, i - 1)
           b == SubSeq(s, i + 1, Len(s))
<1>1. i \in 1..Len(s) /\ Len(s) \in Nat
  OBVIOUS
<1>2. /\ a \in Seq(S) /\ Len(a) = i - 1
      /\ \A j \in 1..(i - 1) : a[j] = s[j]
  BY <1>1
<1>3. /\ b \in Seq(S) /\ Len(b) = Len(s) - i
      /\ \A j \in 1..(Len(s) - i) : b[j] = s[i + j]
  BY <1>1
<1>4. RemoveAt(s, i) = a \o b
  BY DEF RemoveAt
<1> HIDE DEF a, b
<1>5. /\ a \o b \in Seq(S) /\ Len(a \o b) = Len(s) - 1
      /\ \A j \in 1..Len(a) : (a \o b)[j] = a[j]
      /\ \A j \in 1..Len(b) : (a \o b)[Len(a) + j] = b[j]
  <2>1. /\ a \o b \in Seq(S)
        /\ Len(a \o b) = Len(a) + Len(b)
        /\ \A j \in 1..(Len(a) + Len(b)) : (a \o b)[j] = IF j <= Len(a) THEN a[j] ELSE b[j - Len(a)]
    BY <1>2, <1>3, ConcatProperties
  <2>2. Len(a) \in Nat /\ Len(b) \in Nat /\ Len(a) + Len(b) = Len(s) - 1
    BY <1>1, <1>2, <1>3
  <2>3. ASSUME NEW j \in 1..Len(a) PROVE (a \o b)[j] = a[j]
    <3>1. j \in 1..(Len(a) + Len(b)) /\ j <= Len(a)
      BY <2>2
    <3>2. QED
      BY <2>1, <3>1
  <2>4. ASSUME NEW j \in 1..Len(b) PROVE (a \o b)[Len(a) + j] = b[j]
    <3>1. Len(a) + j \in 1..(Len(a) + Len(b)) /\ ~(Len(a) + j <= Len(a)) /\ (Len(a) + j) - Len(a) = j
      BY <2>2
    <3>2. QED
      BY <2>1, <3>1
  <2>5. QED
    BY <2>1, <2>2, <2>3, <2>4
<1>6. DOMAIN (a \o b) = 1..(Len(s) - 1)
  BY <1>5
<1>7. ASSUME NEW x \in ToSet(s), x # s[i] PROVE x \in ToSet(a \o b)
  <2>1. PICK j \in 1..Len(s) : x = s[j]
    BY <1>1 DEF ToSet
  <2>2. j # i
    BY <1>7, <2>1
  <2>3. CASE j < i
    <3>1. j \in 1..Len(a) /\ a[j] = x /\ j \in DOMAIN (a \o b)
      BY <1>1, <1>2, <1>6, <2>1, <2>3
    <3>2. QED
      BY <1>5, <3>1 DEF ToSet
  <2>4. CASE j > i
    <3>1. j - i \in 1..Len(b) /\ b[j - i] = x
      BY <1>1, <1>3, <2>1, <2>4
    <3>2. j - 1 \in 1..(Len(s) - 1) /\ (i - 1) + (j - i) = j - 1
      BY <1>1, <2>1, <2>4
    <3>3. (a \o b)[j - 1] = b[j - i]
      BY <1>2, <1>5, <3>1, <3>2
    <3>4. QED
      BY <1>6, <3>1, <3>2, <3>3 DEF ToSet
  <2>5. QED
    BY <1>1, <2>1, <2>2, <2>3, <2>4
<1>8. QED
  BY <1>4, <1>5, <1>7

\* A request keeps the bound, and whoever has a slot keeps it but the evictee.
LEMMA RequestSlots ==
  ASSUME RegistryInv, NEW l \in Logins
  PROVE  /\ SlotsAfter(l) \in Seq(Logins)
         /\ Len(SlotsAfter(l)) <= MaxConnections
         /\ (ToSet(slots) \ Evictee(l)) \cup {l} \subseteq ToSet(SlotsAfter(l))
<1> DEFINE rest == IF l \in ToSet(slots)
                     THEN RemoveAt(slots, CHOOSE i \in DOMAIN slots : slots[i] = l)
                   ELSE IF Evictee(l) # {} THEN Tail(slots) ELSE slots
<1>1. SlotsAfter(l) = Append(rest, l)
  BY DEF SlotsAfter
<1>2. slots \in Seq(Logins) /\ Len(slots) <= MaxConnections /\ MaxConnections \in Nat \ {0}
  BY SlotsAssumption DEF RegistryInv
<1>3. /\ rest \in Seq(Logins) /\ Len(rest) < MaxConnections
      /\ (ToSet(slots) \ Evictee(l)) \ {l} \subseteq ToSet(rest)
  <2>1. CASE l \in ToSet(slots)
    <3> DEFINE i == CHOOSE i \in DOMAIN slots : slots[i] = l
    <3>1. i \in DOMAIN slots /\ slots[i] = l
      BY <2>1 DEF ToSet
    <3>2. rest = RemoveAt(slots, i)
      BY <2>1
    <3> HIDE DEF i, rest
    <3>3. QED
      BY <1>2, <3>1, <3>2, RemoveAtKeeps
  <2>2. CASE l \notin ToSet(slots) /\ Len(slots) = MaxConnections
    <3>1. Evictee(l) = {Head(slots)} /\ rest = Tail(slots) /\ slots # <<>>
      BY <1>2, <2>2 DEF Evictee
    <3> HIDE DEF rest
    <3>2. QED
      BY <1>2, <2>2, <3>1, TailKeeps
  <2>3. CASE l \notin ToSet(slots) /\ Len(slots) # MaxConnections
    BY <1>2, <2>3 DEF Evictee
  <2>4. QED
    BY <2>1, <2>2, <2>3
<1> HIDE DEF rest
<1>4. /\ Append(rest, l) \in Seq(Logins)
      /\ Len(Append(rest, l)) = Len(rest) + 1
      /\ \A j \in 1..Len(rest) : Append(rest, l)[j] = rest[j]
      /\ Append(rest, l)[Len(rest) + 1] = l
  BY <1>3, AppendProperties
<1>5. ToSet(rest) \cup {l} \subseteq ToSet(Append(rest, l))
  <2>1. DOMAIN rest = 1..Len(rest) /\ DOMAIN Append(rest, l) = 1..(Len(rest) + 1) /\ Len(rest) \in Nat
    BY <1>3, <1>4
  <2>2. QED
    BY <1>4, <2>1 DEF ToSet
<1>6. Len(Append(rest, l)) <= MaxConnections
  BY <1>2, <1>3, <1>4
<1>7. QED
  BY <1>1, <1>3, <1>4, <1>5, <1>6

\* What a request does to the registry, and to the lists of a check or a teardown
\* that is under way.
LEMMA RequestStep ==
  ASSUME RecoveryInv, NEW l \in Logins, Request(l) PROVE RecoveryInv'
<1> USE DEF RecoveryInv
<1>1. RegistryInv'
  <2>1. /\ slots' \in Seq(Logins) /\ Len(slots') <= MaxConnections
        /\ (ToSet(slots) \ Evictee(l)) \cup {l} \subseteq ToSet(slots')
    BY RequestSlots DEF Request
  <2>2. /\ sessions' \in [Logins -> {"absent", "good", "hung"}]
        /\ \A x \in Logins : sessions'[x] # "absent" => x = l \/ (sessions[x] # "absent" /\ x \notin Evictee(l))
    BY DEF Request, SessionsAfter, RegistryInv
  <2>3. SessionsHaveSlots'
    BY <2>1, <2>2 DEF SessionsHaveSlots, OpenLogins, RegistryInv
  <2>4. QED
    BY <2>1, <2>2, <2>3 DEF RegistryInv
<1>2. ListsInv'
  <2>1. \A x \in Logins \ Evictee(l) : sessions[x] # "absent" => sessions'[x] = sessions[x]
    BY DEF Request, SessionsAfter, RegistryInv
  <2>2. silent' \subseteq HungLogins' /\ older' \subseteq OpenLogins'
    BY <2>1 DEF Request, ListsInv, HungLogins, OpenLogins
  <2>3. /\ probing' \in Seq(Logins \cup {Gone}) /\ closing' \in Seq(Logins \cup {Gone})
        /\ \A x \in ToSet(probing) : x \notin Evictee(l) => x \in ToSet(probing')
        /\ \A x \in ToSet(closing) : x \notin Evictee(l) => x \in ToSet(closing')
    BY ListedKeeps DEF Request, ListsInv
  <2>4. task' = task /\ silent' = silent \ Evictee(l) /\ older' = older \ Evictee(l)
    BY DEF Request, vars
  <2>5. QED
    BY <2>2, <2>3, <2>4 DEF ListsInv
<1>3. QED
  BY <1>1, <1>2

\* The steps of the loop, the server and the disconnect tool.
LEMMA RecoveryStep == RecoveryInv /\ [RecoveryNext]_allVars => RecoveryInv'
<1> SUFFICES ASSUME RecoveryInv, [RecoveryNext]_allVars PROVE RecoveryInv'
  OBVIOUS
<1> USE DEF RecoveryInv
<1>1. CASE ControlStep
  <2>1. UNCHANGED <<slots, sessions, probing, closing, silent, older>>
    BY <1>1 DEF ControlStep, round, history
  <2>2. task' \in {"waiting", "none", task}
    BY <1>1 DEF ControlStep, Start, Stop, StopReturns, LoopEnds, CheckRaises
  <2>3. QED
    BY <2>1, <2>2 DEF RegistryInv, ListsInv, SessionsHaveSlots, OpenLogins, HungLogins
<1>2. CASE CheckBegins
  <2>1. /\ UNCHANGED <<slots, sessions, closing, older>> /\ task' = "checking"
        /\ probing' = slots /\ silent' = HungLogins
    BY <1>2 DEF CheckBegins, IntervalElapses
  <2>2. HungLogins \subseteq ToSet(slots)
    BY DEF RegistryInv, SessionsHaveSlots, HungLogins, OpenLogins
  <2>3. probing' \in Seq(Logins \cup {Gone})
    BY <2>1, SeqMonotonic DEF RegistryInv
  <2>4. QED
    BY <2>1, <2>2, <2>3 DEF RegistryInv, ListsInv, SessionsHaveSlots, OpenLogins, HungLogins
<1>3. CASE ProbeAnswers
  <2>1. /\ UNCHANGED <<slots, sessions, closing, silent, older, task>> /\ probing # <<>>
        /\ Head(probing) \notin HungLogins /\ probing' = Tail(probing)
    BY <1>3 DEF ProbeAnswers, history, vars
  <2>2. /\ Tail(probing) \in Seq(Logins \cup {Gone})
        /\ \A x \in ToSet(probing) : x # Head(probing) => x \in ToSet(Tail(probing))
    BY <2>1, TailKeeps DEF ListsInv
  <2>3. QED
    BY <2>1, <2>2 DEF RegistryInv, ListsInv, SessionsHaveSlots, OpenLogins, HungLogins
<1>4. CASE RegistryHealthy
  <2>1. UNCHANGED <<slots, sessions, probing, closing, older>> /\ silent' = {} /\ task' = "waiting"
    BY <1>4 DEF RegistryHealthy, CheckPasses, round
  <2>2. QED
    BY <2>1 DEF RegistryInv, ListsInv, SessionsHaveSlots, OpenLogins, HungLogins
<1>5. CASE RegistryUnhealthy
  <2>1. /\ UNCHANGED <<slots, sessions>> /\ probing' = <<>> /\ silent' = {}
        /\ closing' = (IF task' = "forcing" THEN slots ELSE <<>>)
        /\ older' = (IF task' = "forcing" THEN OpenLogins ELSE {})
        /\ task' \in {"forcing", "waiting"}
    BY <1>5 DEF RegistryUnhealthy, CheckFails
  <2>2. closing' \in Seq(Logins \cup {Gone}) /\ probing' \in Seq(Logins \cup {Gone})
    BY <2>1, SeqMonotonic, EmptySeq DEF RegistryInv
  <2>3. older' \subseteq OpenLogins' /\ (task' = "forcing" => older' \subseteq ToSet(closing'))
    BY <2>1 DEF RegistryInv, SessionsHaveSlots, OpenLogins
  <2>4. QED
    BY <2>1, <2>2, <2>3 DEF RegistryInv, ListsInv, SessionsHaveSlots, OpenLogins, HungLogins
<1>6. CASE DisconnectNext
  <2>1. /\ UNCHANGED <<slots, probing, task>> /\ task = "forcing" /\ closing # <<>>
        /\ closing' = Tail(closing)
        /\ silent' = silent \ {Head(closing)} /\ older' = older \ {Head(closing)}
    BY <1>6 DEF DisconnectNext, Replaced, vars
  <2>2. /\ sessions' \in [Logins -> {"absent", "good", "hung"}]
        /\ \A x \in Logins : sessions'[x] = IF x = Head(closing) THEN "absent" ELSE sessions[x]
    BY <1>6 DEF DisconnectNext, RegistryInv
  <2>3. /\ Tail(closing) \in Seq(Logins \cup {Gone})
        /\ \A x \in ToSet(closing) : x # Head(closing) => x \in ToSet(Tail(closing))
    BY <2>1, TailKeeps DEF ListsInv
  <2>4. RegistryInv'
    BY <2>1, <2>2 DEF RegistryInv, SessionsHaveSlots, OpenLogins
  <2>5. ListsInv'
    BY <2>1, <2>2, <2>3 DEF ListsInv, OpenLogins, HungLogins
  <2>6. QED
    BY <2>4, <2>5
<1>7. CASE TeardownEnds
  <2>1. UNCHANGED <<slots, sessions, probing, closing, silent, older>> /\ task' = "waiting"
    BY <1>7 DEF TeardownEnds, ForceReconnect, round, history
  <2>2. QED
    BY <2>1 DEF RegistryInv, ListsInv, SessionsHaveSlots, OpenLogins, HungLogins
<1>8. ASSUME NEW l \in Logins, Disconnects(l) \/ Hangs(l) \/ Answers(l) PROVE RecoveryInv'
  <2>1. UNCHANGED <<slots, probing, closing, task>>
    BY <1>8 DEF Disconnects, Hangs, Answers, vars, round
  <2>2. /\ sessions' \in [Logins -> {"absent", "good", "hung"}]
        /\ \A x \in Logins : x # l => sessions'[x] = sessions[x]
        /\ sessions'[l] # "absent" => sessions[l] # "absent"
    BY <1>8 DEF Disconnects, Hangs, Answers, RegistryInv
  <2>3. RegistryInv'
    BY <2>1, <2>2 DEF RegistryInv, SessionsHaveSlots, OpenLogins
  <2>4. silent' \subseteq silent /\ silent' \subseteq HungLogins'
    BY <1>8, <2>2 DEF Disconnects, Hangs, Answers, Replaced, ListsInv, HungLogins, RegistryInv, history
  <2>5. older' \subseteq older /\ older' \subseteq OpenLogins'
    BY <1>8, <2>2 DEF Disconnects, Hangs, Answers, Replaced, ListsInv, OpenLogins, RegistryInv, history
  <2>6. QED
    BY <2>1, <2>3, <2>4, <2>5 DEF ListsInv
<1>9. CASE UNCHANGED allVars
  BY <1>9 DEF allVars, vars, round, history, RegistryInv, ListsInv, SessionsHaveSlots,
              OpenLogins, HungLogins
<1>10. QED
  BY <1>1, <1>2, <1>3, <1>4, <1>5, <1>6, <1>7, <1>8, <1>9, RequestStep DEF RecoveryNext, Environment

LEMMA RecoveryBegins == RecoveryInit => RecoveryInv
<1> SUFFICES ASSUME RecoveryInit PROVE RecoveryInv
  OBVIOUS
<1>1. /\ slots = <<>> /\ probing = <<>> /\ closing = <<>> /\ silent = {} /\ older = {}
      /\ sessions = [l \in Logins |-> "absent"]
  BY DEF RecoveryInit
<1>2. Len(slots) <= MaxConnections
  BY <1>1, SlotsAssumption, EmptySeq
<1>3. QED
  BY <1>1, <1>2, EmptySeq DEF RecoveryInv, RegistryInv, ListsInv, SessionsHaveSlots, OpenLogins, HungLogins

\* A check in which a login hung from its first to its last moment does not pass,
\* whatever the requests did to the registry meanwhile.
THEOREM HungLoginFailsCheck == RecoverySpec => NoPassOverHung
<1>1. ASSUME RecoveryInv, RegistryHealthy PROVE silent = {}
  BY <1>1, EmptyList DEF RecoveryInv, ListsInv, RegistryHealthy, CheckPasses
<1>2. RecoveryInv /\ [RecoveryNext]_allVars => [RegistryHealthy => silent = {}]_allVars
  BY <1>1
<1>3. QED
  BY <1>2, RecoveryBegins, RecoveryStep, PTL DEF RecoverySpec, NoPassOverHung

\* Each step of the loop with the registry behind it is a step of the loop.
LEMMA WatchdogStep == [RecoveryNext]_allVars => [Next]_vars
BY DEF RecoveryNext, allVars, Next, ControlStep, CheckBegins, ProbeAnswers, RegistryHealthy,
       RegistryUnhealthy, DisconnectNext, TeardownEnds, Environment, Request, Disconnects, Hangs, Answers

\* The loop with the registry behind it is the loop of Watchdog: the theorems about
\* Watchdog hold of it.
THEOREM RecoveryIsWatchdog == RecoverySpec => Spec
<1>1. RecoveryInit => Init
  BY DEF RecoveryInit
<1>2. QED
  BY <1>1, WatchdogStep, PTL DEF RecoverySpec, Spec

\* A teardown leaves no session that is older than itself: it ends only at the end
\* of its list, because start() finds no loop that could be in one.
THEOREM TeardownIsComplete == RecoverySpec => TeardownReachesAll
<1>1. ASSUME RecoveryInv, LoopInv, RecoveryNext, task = "forcing", task' # "forcing"
      PROVE  older = {}
  <2>1. ~ControlStep
    BY <1>1 DEF ControlStep, Start, Stop, StopReturns, LoopEnds, CheckRaises, LoopInv, OneLoopPerStart
  <2>2. ~(CheckBegins \/ RegistryHealthy \/ RegistryUnhealthy)
    BY <1>1 DEF CheckBegins, IntervalElapses, RegistryHealthy, CheckPasses, RegistryUnhealthy, CheckFails
  <2>3. ~(ProbeAnswers \/ DisconnectNext \/ Environment)
    BY <1>1 DEF ProbeAnswers, DisconnectNext, Environment, Request, Disconnects, Hangs, Answers, vars
  <2>4. TeardownEnds
    BY <1>1, <2>1, <2>2, <2>3 DEF RecoveryNext
  <2>5. QED
    BY <1>1, <2>4, EmptyList DEF RecoveryInv, ListsInv, TeardownEnds
<1>2. RecoveryInv /\ LoopInv /\ [RecoveryNext]_allVars
        => [task = "forcing" /\ task' # "forcing" => older = {}]_allVars
  BY <1>1
<1>3. RecoveryInit => LoopInv
  BY LoopBegins DEF RecoveryInit
<1>4. LoopInv /\ [RecoveryNext]_allVars => LoopInv'
  BY LoopStep, WatchdogStep
<1>5. QED
  BY <1>2, <1>3, <1>4, RecoveryBegins, RecoveryStep, PTL DEF RecoverySpec, TeardownReachesAll

\* Every reachable state has its shape: as many slots as the configuration allows,
\* and nothing in a list but logins that have or had one.
THEOREM RecoveryTypes == RecoverySpec => []RecoveryTypeOK
<1>1. RecoveryInit => FailureInv
  BY FailureInit DEF RecoveryInit
<1>2. FailureInv /\ [RecoveryNext]_allVars => FailureInv'
  BY FailureStep, WatchdogStep
<1>3. RecoveryInv /\ FailureInv => RecoveryTypeOK
  BY DEF RecoveryInv, RegistryInv, ListsInv, FailureInv, RecoveryTypeOK
<1>4. QED
  BY <1>1, <1>2, <1>3, RecoveryBegins, RecoveryStep, PTL DEF RecoverySpec
=============================================================================
