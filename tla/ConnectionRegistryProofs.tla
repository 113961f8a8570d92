---------------------- MODULE ConnectionRegistryProofs ----------------------
(***************************************************************************)
(* Theorems about ConnectionRegistry, for any number of callers, logins    *)
(* and slots.  The part of the invariant that says where the managers in   *)
(* the slots come from (SlotsCreated) is what keeps a new manager apart    *)
(* from the ones already there.                                            *)
(***************************************************************************)
EXTENDS ConnectionRegistry, SequenceTheorems, TLAPS

SlotsTyped   == slots \in Seq(Slot)
SlotsCreated == \A i \in DOMAIN slots : slots[i].manager \in created
SlotsInv     == SlotsTyped /\ SlotsCreated /\ SlotsBounded /\ SlotsDistinct

\* Taking one element out of a sequence and appending it again keeps the length,
\* and each element of the result is one of the elements there were: the last
\* is the one taken out, the others are in their old order.
LEMMA MoveToEndOrder ==
  ASSUME NEW S, NEW s \in Seq(S), NEW i \in DOMAIN s
  PROVE  /\ MoveToEnd(s, i) \in Seq(S)
         /\ Len(MoveToEnd(s, i)) = Len(s)
         /\ MoveToEnd(s, i)[Len(s)] = s[i]
         /\ \A j \in 1..(Len(s) - 1) : MoveToEnd(s, i)[j] = s[IF j < i THEN j ELSE j + 1]
<1> DEFINE r == MoveToEnd(s, i)
           a == SubSeq(s, 1, i - 1)
           b == SubSeq(s, i + 1, Len(s))
<1>1. i \in 1..Len(s) /\ Len(s) \in Nat
  OBVIOUS
<1>2. /\ a \in Seq(S) /\ Len(a) = i - 1
      /\ \A j \in 1..(i - 1) : a[j] = s[j]
  BY <1>1
<1>3. /\ b \in Seq(S) /\ Len(b) = Len(s) - i
      /\ \A j \in 1..(Len(s) - i) : b[j] = s[i + j]
  BY <1>1
<1> HIDE DEF r, a, b
<1>4. /\ a \o b \in Seq(S) /\ Len(a \o b) = Len(s) - 1
      /\ \A j \in 1..(Len(s) - 1) : (a \o b)[j] = IF j <= i - 1 THEN a[j] ELSE b[j - (i - 1)]
  <2>1. /\ a \o b \in Seq(S)
        /\ Len(a \o b) = Len(a) + Len(b)
        /\ \A j \in 1..(Len(a) + Len(b)) : (a \o b)[j] = IF j <= Len(a) THEN a[j] ELSE b[j - Len(a)]
    BY <1>2, <1>3, ConcatProperties
  <2>2. Len(a) + Len(b) = Len(s) - 1
    BY <1>1, <1>2, <1>3
  <2>3. QED
    BY <1>2, <2>1, <2>2
<1>5. r = Append(a \o b, s[i])
  BY DEF MoveToEnd, RemoveAt, r, a, b
<1>6. s[i] \in S
  BY <1>1
<1>7. ASSUME NEW j \in 1..(Len(s) - 1)
      PROVE  r[j] = s[IF j < i THEN j ELSE j + 1]
  <2>1. r[j] = (a \o b)[j]
    BY <1>1, <1>4, <1>5
  <2>2. CASE j < i
    BY <1>1, <1>2, <1>4, <2>1, <2>2
  <2>3. CASE ~(j < i)
    <3>1. j - (i - 1) \in 1..(Len(s) - i) /\ i + (j - (i - 1)) = j + 1 /\ ~(j <= i - 1)
      BY <1>1, <2>3
    <3>2. r[j] = b[j - (i - 1)]
      BY <1>4, <2>1, <3>1
    <3>3. b[j - (i - 1)] = s[j + 1]
      BY <1>3, <3>1
    <3>4. QED
      BY <2>3, <3>2, <3>3
  <2>4. QED
    BY <2>2, <2>3
<1>8. QED
  BY <1>1, <1>4, <1>5, <1>6, <1>7 DEF r

\* A hit keeps the slots as they are but for their order.
LEMMA HitStep ==
  ASSUME SlotsInv, NEW t, NEW k, Hit(t, k) PROVE SlotsInv'
<1>1. PICK i \in DOMAIN slots : slots' = MoveToEnd(slots, i)
  BY DEF Hit
<1>2. /\ slots' \in Seq(Slot)
      /\ Len(slots') = Len(slots)
      /\ slots'[Len(slots)] = slots[i]
      /\ \A j \in 1..(Len(slots) - 1) : slots'[j] = slots[IF j < i THEN j ELSE j + 1]
  <2>1. slots \in Seq(Slot)
    BY DEF SlotsInv, SlotsTyped
  <2>2. QED
    BY <1>1, <2>1, MoveToEndOrder
<1> DEFINE from(j) == IF j = Len(slots) THEN i ELSE IF j < i THEN j ELSE j + 1
<1>3. \A j \in DOMAIN slots' : from(j) \in DOMAIN slots /\ slots'[j] = slots[from(j)]
  BY <1>2 DEF SlotsInv, SlotsTyped
<1>4. \A j, l \in DOMAIN slots' : from(j) = from(l) => j = l
  BY <1>2 DEF SlotsInv, SlotsTyped
<1> HIDE DEF from
<1>5. SlotsTyped' /\ SlotsBounded'
  BY <1>2 DEF SlotsInv, SlotsTyped, SlotsBounded
<1>6. SlotsCreated'
  BY <1>3 DEF Hit, SlotsInv, SlotsCreated
<1>7. SlotsDistinct'
  <2> SUFFICES ASSUME NEW j \in DOMAIN slots', NEW l \in DOMAIN slots',
                      slots'[j].key = slots'[l].key \/ slots'[j].manager = slots'[l].manager
               PROVE  j = l
    BY DEF SlotsDistinct
  <2>1. from(j) = from(l)
    BY <1>3 DEF SlotsInv, SlotsDistinct
  <2>2. QED
    BY <1>4, <2>1
<1>8. QED
  BY <1>5, <1>6, <1>7 DEF SlotsInv

\* A miss makes room first, and its new slot has a login and a manager that no
\* other slot has.
LEMMA MissStep ==
  ASSUME SlotsInv, NEW t, NEW k \in Keys, Miss(t, k) PROVE SlotsInv'
<1> USE MaxAssumption DEF SlotsInv
<1>1. PICK m \in Managers \ created :
        /\ slots' = Append(SubSeq(slots, Evicted + 1, Len(slots)), [key |-> k, manager |-> m])
        /\ created' = created \cup {m}
  BY DEF Miss
<1> DEFINE kept == SubSeq(slots, Evicted + 1, Len(slots))
           new  == [key |-> k, manager |-> m]
<1>2. Evicted \in 0..Len(slots) /\ Len(slots) - Evicted < MaxConnections
  BY DEF Evicted, SlotsTyped, SlotsBounded
<1>3. /\ kept \in Seq(Slot) /\ Len(kept) = Len(slots) - Evicted
      /\ \A j \in 1..Len(kept) : kept[j] = slots[Evicted + j]
  BY <1>2 DEF SlotsTyped
<1>4. new \in Slot /\ new.key = k /\ new.manager = m
  BY DEF Slot
<1> HIDE DEF kept, new
<1>5. /\ slots' \in Seq(Slot) /\ Len(slots') = Len(kept) + 1
      /\ slots'[Len(kept) + 1] = new
      /\ \A j \in 1..Len(kept) : slots'[j] = slots[Evicted + j] /\ Evicted + j \in DOMAIN slots
  <2>1. slots' = Append(kept, new)
    BY <1>1 DEF kept, new
  <2>2. /\ slots' \in Seq(Slot) /\ Len(slots') = Len(kept) + 1
        /\ slots'[Len(kept) + 1] = new
        /\ \A j \in 1..Len(kept) : slots'[j] = kept[j]
    BY <1>3, <1>4, <2>1
  <2>3. \A j \in 1..Len(kept) : Evicted + j \in DOMAIN slots
    BY <1>2, <1>3 DEF SlotsTyped
  <2>4. QED
    BY <1>3, <2>2, <2>3
<1>6. \A j \in 1..Len(kept) : slots'[j].key # k /\ slots'[j].manager # m
  BY <1>1, <1>5 DEF Miss, KeysOf, SlotsCreated
<1>7. SlotsDistinct'
  <2> SUFFICES ASSUME NEW j \in DOMAIN slots', NEW l \in DOMAIN slots',
                      slots'[j].key = slots'[l].key \/ slots'[j].manager = slots'[l].manager
               PROVE  j = l
    BY DEF SlotsDistinct
  <2>1. Len(kept) \in Nat /\ DOMAIN slots' = 1..(Len(kept) + 1)
    BY <1>3, <1>5
  <2>2. CASE j \in 1..Len(kept) /\ l \in 1..Len(kept)
    <3>1. Evicted + j = Evicted + l
      BY <1>5, <2>2 DEF SlotsDistinct
    <3>2. QED
      BY <1>2, <2>1, <2>2, <3>1 DEF SlotsTyped
  <2>3. CASE j = Len(kept) + 1 \/ l = Len(kept) + 1
    BY <1>4, <1>5, <1>6, <2>1, <2>3
  <2>4. QED
    BY <2>1, <2>2, <2>3
<1>8. SlotsCreated'
  <2> SUFFICES ASSUME NEW j \in DOMAIN slots' PROVE slots'[j].manager \in created'
    BY DEF SlotsCreated
  <2>1. j \in 1..Len(kept) \/ j = Len(kept) + 1
    BY <1>3, <1>5
  <2>2. QED
    BY <1>1, <1>4, <1>5, <2>1 DEF SlotsCreated
<1>9. QED
  BY <1>2, <1>3, <1>5, <1>7, <1>8 DEF SlotsTyped, SlotsBounded

\* Every step of every thread keeps the invariant.
LEMMA SlotsStep == SlotsInv /\ [Next]_vars => SlotsInv'
<1> SUFFICES ASSUME SlotsInv, [Next]_vars PROVE SlotsInv'
  OBVIOUS
<1>1. ASSUME NEW t, NEW k \in Keys, ForCaller(t, k) PROVE SlotsInv'
  BY <1>1, HitStep, MissStep DEF ForCaller
<1>2. ASSUME NEW t, DisconnectedAll(t) PROVE SlotsInv'
  BY <1>2, MaxAssumption
     DEF DisconnectedAll, SlotsInv, SlotsTyped, SlotsCreated, SlotsBounded, SlotsDistinct
<1>3. CASE UNCHANGED <<slots, created>>
  BY <1>3 DEF SlotsInv, SlotsTyped, SlotsCreated, SlotsBounded, SlotsDistinct
<1>4. QED
  BY <1>1, <1>2, <1>3
     DEF Next, vars, Ask, CloseEvicted, EvictionDone, UseSession, Disconnect, RequestEnds,
         DisconnectAll, ForceDisconnect, CloseNext, CloseRaises, Forced

\* The registry starts with no slots.
LEMMA SlotsInit == Init => SlotsInv
  BY MaxAssumption DEF Init, SlotsInv, SlotsTyped, SlotsCreated, SlotsBounded, SlotsDistinct

\* However many callers race for a slot, and whoever disconnects meanwhile, the
\* registry keeps at most max_connections slots.
THEOREM RegistryBounded == Spec => []SlotsBounded
<1>1. SlotsInv => SlotsBounded
  BY DEF SlotsInv
<1>2. QED
  BY SlotsInit, SlotsStep, <1>1, PTL DEF Spec

\* No login ever has two slots, and no two logins ever share a manager, and with
\* it a database session.
THEOREM RegistrySeparatesLogins == Spec => []SlotsDistinct
<1>1. SlotsInv => SlotsDistinct
  BY DEF SlotsInv
<1>2. QED
  BY SlotsInit, SlotsStep, <1>1, PTL DEF Spec

-----------------------------------------------------------------------------
(* The order of the slots.                                                 *)

AskedTyped == requests \in Nat /\ askedAt \in [Keys -> Nat] /\ \A k \in Keys : askedAt[k] <= requests

SlotsOrdered ==
  \A i, j \in DOMAIN slots : i < j => askedAt[slots[i].key] < askedAt[slots[j].key]

OrderInv == SlotsInv /\ AskedTyped /\ SlotsOrdered

LEMMA KeysTyped == SlotsInv => \A i \in DOMAIN slots : slots[i].key \in Keys
<1> SUFFICES ASSUME SlotsInv, NEW i \in DOMAIN slots PROVE slots[i].key \in Keys
  OBVIOUS
<1>1. slots[i] \in Slot
  BY ElementOfSeq DEF SlotsInv, SlotsTyped
<1>2. QED
  BY <1>1 DEF Slot

\* A hit loses no slot.
LEMMA HitKeepsSlots ==
  ASSUME SlotsInv, NEW t, NEW k, Hit(t, k)
  PROVE  \A i \in DOMAIN slots : \E j \in DOMAIN slots' : slots'[j] = slots[i]
<1>1. PICK h \in DOMAIN slots : slots' = MoveToEnd(slots, h)
  BY DEF Hit
<1>2. /\ slots' \in Seq(Slot) /\ Len(slots') = Len(slots)
      /\ slots'[Len(slots)] = slots[h]
      /\ \A j \in 1..(Len(slots) - 1) : slots'[j] = slots[IF j < h THEN j ELSE j + 1]
  BY <1>1, MoveToEndOrder DEF SlotsInv, SlotsTyped
<1>3. DOMAIN slots = 1..Len(slots) /\ DOMAIN slots' = 1..Len(slots) /\ Len(slots) \in Nat
  BY <1>2 DEF SlotsInv, SlotsTyped
<1>4. ASSUME NEW i \in DOMAIN slots PROVE \E j \in DOMAIN slots' : slots'[j] = slots[i]
  <2>1. CASE i = h
    BY <1>2, <1>3, <2>1
  <2>2. CASE i < h
    BY <1>2, <1>3, <2>2
  <2>3. CASE i > h
    <3>1. i - 1 \in 1..(Len(slots) - 1) /\ ~(i - 1 < h) /\ (i - 1) + 1 = i
      BY <1>3, <2>3
    <3>2. QED
      BY <1>2, <1>3, <3>1
  <2>4. QED
    BY <1>3, <2>1, <2>2, <2>3
<1>5. QED
  BY <1>4

\* What a miss does to the slots: the first ones go, and a new one is last.
LEMMA MissShape ==
  ASSUME SlotsInv, NEW t, NEW k \in Keys, Miss(t, k)
  PROVE  /\ Evicted \in 0..Len(slots) /\ Len(slots) \in Nat
         /\ Len(slots') = Len(slots) - Evicted + 1
         /\ DOMAIN slots' = 1..(Len(slots) - Evicted + 1)
         /\ slots'[Len(slots) - Evicted + 1].key = k
         /\ \A j \in 1..(Len(slots) - Evicted) : slots'[j] = slots[Evicted + j] /\ Evicted + j \in DOMAIN slots
<1> USE MaxAssumption DEF SlotsInv
<1>1. PICK m \in Managers \ created :
        slots' = Append(SubSeq(slots, Evicted + 1, Len(slots)), [key |-> k, manager |-> m])
  BY DEF Miss
<1> DEFINE kept == SubSeq(slots, Evicted + 1, Len(slots))
<1>2. Evicted \in 0..Len(slots) /\ Len(slots) \in Nat
  BY DEF Evicted, SlotsTyped, SlotsBounded
<1>3. /\ kept \in Seq(Slot) /\ Len(kept) = Len(slots) - Evicted
      /\ \A j \in 1..Len(kept) : kept[j] = slots[Evicted + j] /\ Evicted + j \in DOMAIN slots
  BY <1>2 DEF SlotsTyped
<1>4. [key |-> k, manager |-> m] \in Slot
  BY DEF Slot
<1> HIDE DEF kept
<1>5. slots' = Append(kept, [key |-> k, manager |-> m])
  BY <1>1 DEF kept
<1>6. QED
  BY <1>2, <1>3, <1>4, <1>5

\* A request brings its login to the end, with the latest number.
LEMMA OrderStep == OrderInv /\ [Next]_vars => OrderInv'
<1> SUFFICES ASSUME OrderInv, [Next]_vars PROVE OrderInv'
  OBVIOUS
<1>1. SlotsInv'
  BY SlotsStep DEF OrderInv
<1>2. ASSUME NEW t, NEW k \in Keys, ForCaller(t, k) PROVE AskedTyped' /\ SlotsOrdered'
  <2>1. /\ requests' = requests + 1 /\ askedAt' = [askedAt EXCEPT ![k] = requests + 1]
        /\ requests \in Nat /\ askedAt \in [Keys -> Nat] /\ \A l \in Keys : askedAt[l] <= requests
    BY <1>2 DEF ForCaller, Request, OrderInv, AskedTyped
  <2>2. AskedTyped'
    BY <2>1 DEF AskedTyped
  <2>3. /\ askedAt'[k] = requests + 1
        /\ \A l \in Keys \ {k} : askedAt'[l] = askedAt[l] /\ askedAt'[l] < askedAt'[k]
    BY <2>1
  <2>4. \A i \in DOMAIN slots : slots[i].key \in Keys
    BY KeysTyped DEF OrderInv
  <2>5. CASE Hit(t, k)
    <3>1. PICK h \in DOMAIN slots : slots[h].key = k /\ slots' = MoveToEnd(slots, h)
      BY <2>5 DEF Hit
    <3>2. /\ slots' \in Seq(Slot) /\ Len(slots') = Len(slots)
          /\ slots'[Len(slots)] = slots[h]
          /\ \A j \in 1..(Len(slots) - 1) : slots'[j] = slots[IF j < h THEN j ELSE j + 1]
      BY <3>1, MoveToEndOrder DEF OrderInv, SlotsInv, SlotsTyped
    <3>3. DOMAIN slots = 1..Len(slots) /\ DOMAIN slots' = 1..Len(slots) /\ Len(slots) \in Nat
      BY <3>2 DEF OrderInv, SlotsInv, SlotsTyped
    <3>4. \A j \in DOMAIN slots : j # h => slots[j].key \in Keys \ {k}
      BY <2>4, <3>1 DEF OrderInv, SlotsInv, SlotsDistinct
    <3>5. ASSUME NEW i \in DOMAIN slots', NEW j \in DOMAIN slots', i < j
          PROVE  askedAt'[slots'[i].key] < askedAt'[slots'[j].key]
      <4> DEFINE a == IF i < h THEN i ELSE i + 1
                 b == IF j < h THEN j ELSE j + 1
      <4>1. a \in DOMAIN slots /\ a # h /\ slots'[i] = slots[a]
        BY <3>2, <3>3, <3>5
      <4>2. CASE j = Len(slots)
        BY <2>3, <3>1, <3>2, <3>4, <4>1, <4>2
      <4>3. CASE j # Len(slots)
        <5>1. b \in DOMAIN slots /\ b # h /\ slots'[j] = slots[b] /\ a < b
          BY <3>2, <3>3, <3>5, <4>3
        <5>2. askedAt[slots[a].key] < askedAt[slots[b].key]
          BY <4>1, <5>1 DEF OrderInv, SlotsOrdered
        <5>3. QED
          BY <2>3, <3>4, <4>1, <5>1, <5>2
      <4>4. QED
        BY <4>2, <4>3
    <3>6. QED
      BY <2>2, <3>5 DEF SlotsOrdered
  <2>6. CASE Miss(t, k)
    <3> DEFINE n == Len(slots) - Evicted
    <3>1. /\ Evicted \in 0..Len(slots) /\ n \in Nat
          /\ DOMAIN slots' = 1..(n + 1) /\ slots'[n + 1].key = k
          /\ \A j \in 1..n : slots'[j] = slots[Evicted + j] /\ Evicted + j \in DOMAIN slots
      BY <2>6, MissShape DEF OrderInv
    <3>2. \A j \in DOMAIN slots : slots[j].key \in Keys \ {k}
      BY <2>4, <2>6 DEF Miss, KeysOf
    <3> HIDE DEF n
    <3>3. ASSUME NEW i \in DOMAIN slots', NEW j \in DOMAIN slots', i < j
          PROVE  askedAt'[slots'[i].key] < askedAt'[slots'[j].key]
      <4>1. i \in 1..n /\ (j \in 1..n \/ j = n + 1)
        BY <3>1, <3>3
      <4>2. slots'[i].key \in Keys \ {k} /\ slots'[i] = slots[Evicted + i]
        BY <3>1, <3>2, <4>1
      <4>3. CASE j = n + 1
        BY <2>3, <3>1, <4>2, <4>3
      <4>4. CASE j \in 1..n
        <5>1. slots'[j].key \in Keys \ {k} /\ slots'[j] = slots[Evicted + j]
          BY <3>1, <3>2, <4>4
        <5>2. Evicted + i < Evicted + j
          BY <3>1, <3>3, <4>1, <4>4
        <5>3. askedAt[slots[Evicted + i].key] < askedAt[slots[Evicted + j].key]
          BY <3>1, <4>1, <4>4, <5>2 DEF OrderInv, SlotsOrdered
        <5>4. QED
          BY <2>3, <4>2, <5>1, <5>3
      <4>5. QED
        BY <4>1, <4>3, <4>4
    <3>4. QED
      BY <2>2, <3>3 DEF SlotsOrdered
  <2>7. QED
    BY <1>2, <2>5, <2>6 DEF ForCaller
<1>3. ASSUME NEW t, DisconnectedAll(t) PROVE AskedTyped' /\ SlotsOrdered'
  BY <1>3 DEF DisconnectedAll, OrderInv, AskedTyped, SlotsOrdered
<1>4. ASSUME UNCHANGED <<slots, requests, askedAt>> PROVE AskedTyped' /\ SlotsOrdered'
  BY <1>4 DEF OrderInv, AskedTyped, SlotsOrdered
<1>5. QED
  BY <1>1, <1>2, <1>3, <1>4
     DEF OrderInv, Next, vars, Ask, CloseEvicted, EvictionDone, UseSession, Disconnect, RequestEnds,
         DisconnectAll, ForceDisconnect, CloseNext, CloseRaises, Forced

LEMMA OrderInit == Init => OrderInv
BY SlotsInit DEF Init, OrderInv, AskedTyped, SlotsOrdered

\* However many callers ask at once, the login whose slot is taken is the one that was
\* asked for longest ago.
THEOREM EvictsOldest == Spec => EvictsLeastRecentlyUsed
<1> DEFINE Older == \A i \in DOMAIN slots :
             slots[i].key \notin KeysOf(slots') /\ slots' # <<>>
               => \A j \in DOMAIN slots' : askedAt'[slots[i].key] < askedAt'[slots'[j].key]
<1>1. ASSUME OrderInv, Next PROVE Older
  <2>1. ASSUME NEW t, NEW k \in Keys, ForCaller(t, k), Hit(t, k) PROVE Older
    BY <1>1, <2>1, HitKeepsSlots DEF OrderInv, KeysOf
  <2>2. ASSUME NEW t, NEW k \in Keys, ForCaller(t, k), Miss(t, k),
               NEW i \in DOMAIN slots, slots[i].key \notin KeysOf(slots'),
               NEW j \in DOMAIN slots'
        PROVE  askedAt'[slots[i].key] < askedAt'[slots'[j].key]
    <3> DEFINE n == Len(slots) - Evicted
    <3>1. /\ Evicted \in 0..Len(slots) /\ n \in Nat /\ i \in 1..Len(slots)
          /\ DOMAIN slots' = 1..(n + 1) /\ slots'[n + 1].key = k
          /\ \A l \in 1..n : slots'[l] = slots[Evicted + l] /\ Evicted + l \in DOMAIN slots
      <4>1. DOMAIN slots = 1..Len(slots)
        BY <1>1 DEF OrderInv, SlotsInv, SlotsTyped
      <4>2. QED
        BY <1>1, <2>2, <4>1, MissShape DEF OrderInv
    <3> HIDE DEF n
    <3>2. /\ \A l \in DOMAIN slots : slots[l].key \in Keys \ {k}
          /\ askedAt' = [askedAt EXCEPT ![k] = requests + 1]
          /\ requests \in Nat /\ askedAt \in [Keys -> Nat] /\ \A l \in Keys : askedAt[l] <= requests
      BY <1>1, <2>2, KeysTyped DEF ForCaller, Request, Miss, KeysOf, OrderInv, AskedTyped
    <3>3. i <= Evicted
      <4>1. SUFFICES ASSUME i > Evicted PROVE FALSE
        BY <3>1
      <4>2. i - Evicted \in 1..n /\ Evicted + (i - Evicted) = i
        BY <3>1, <4>1 DEF n
      <4>3. slots'[i - Evicted] = slots[i] /\ i - Evicted \in DOMAIN slots'
        BY <3>1, <4>2
      <4>4. QED
        BY <2>2, <4>3 DEF KeysOf
    <3>4. CASE j = n + 1
      BY <3>1, <3>2, <3>4
    <3>5. CASE j \in 1..n
      <4>1. slots'[j] = slots[Evicted + j] /\ Evicted + j \in DOMAIN slots /\ i < Evicted + j
        BY <3>1, <3>3, <3>5
      <4>2. askedAt[slots[i].key] < askedAt[slots[Evicted + j].key]
        BY <1>1, <4>1 DEF OrderInv, SlotsOrdered
      <4>3. QED
        BY <3>2, <4>1, <4>2
    <3>6. QED
      BY <3>1, <3>4, <3>5
  <2>3. ASSUME NEW t, NEW k \in Keys, ForCaller(t, k) PROVE Older
    BY <2>1, <2>2, <2>3 DEF ForCaller
  <2>4. ASSUME NEW t, DisconnectedAll(t) PROVE Older
    BY <2>4 DEF DisconnectedAll
  <2>5. CASE UNCHANGED slots
    BY <2>5 DEF KeysOf
  <2>6. QED
    BY <1>1, <2>3, <2>4, <2>5
       DEF Next, Ask, CloseEvicted, EvictionDone, UseSession, Disconnect, RequestEnds,
           DisconnectAll, ForceDisconnect, CloseNext, CloseRaises, Forced
<1>2. OrderInv /\ [Next]_vars => [Older]_vars
  BY <1>1
<1>3. QED
  BY OrderInit, OrderStep, <1>2, PTL DEF Spec, EvictsLeastRecentlyUsed

-----------------------------------------------------------------------------
(* Where the open sessions are.                                            *)

HeldTyped   == \A t \in Callers : pc[t] \in {"closing", "using"} => held[t] \in Managers
RegistryInv == SlotsInv /\ AskedTyped /\ TypeOK /\ HeldTyped

\* Only a thread that closes has anything left to close.
ClosersClose ==
  \A t \in Threads : closing[t] # <<>> => pc[t] \in {"closing", "disconnecting", "forcing"}

\* Whoever runs disconnect_all has the lock, alone.
LockHeld ==
  \A t, u \in Threads : pc[t] = "disconnecting" => lock /\ (pc[u] = "disconnecting" => t = u)

\* An open session has a slot, is adrift, or is about to be closed by the caller
\* that evicted it.
Accounted ==
  \A m \in open : \/ InSlot(m) \/ m \in adrift
                  \/ \E t \in Threads : pc[t] = "closing" /\ m \in ToSet(closing[t])

\* disconnect_all still has to close every session that it will take the slot of.
Snapshot ==
  \A t \in Threads : pc[t] = "disconnecting" =>
    \A m \in open : InSlot(m) => m \in adrift \/ m \in ToSet(closing[t])

ClosedInv == RegistryInv /\ ClosersClose /\ LockHeld /\ Accounted /\ Snapshot

LEMMA ManagersTyped ==
  ASSUME SlotsInv, NEW a \in Nat
  PROVE  /\ ManagersOf(slots) \in Seq(Managers)
         /\ a <= Len(slots) => ManagersOf(SubSeq(slots, 1, a)) \in Seq(Managers)
<1>1. slots \in Seq(Slot) /\ Len(slots) \in Nat
  BY DEF SlotsInv, SlotsTyped
<1>2. ASSUME NEW q \in Seq(Slot) PROVE ManagersOf(q) \in Seq(Managers)
  <2>1. DOMAIN q = 1..Len(q) /\ Len(q) \in Nat
    OBVIOUS
  <2>2. \A i \in 1..Len(q) : q[i].manager \in Managers
    <3>1. \A i \in 1..Len(q) : q[i] \in Slot
      BY ElementOfSeq
    <3>2. QED
      BY <3>1 DEF Slot
  <2>3. QED
    BY <2>1, <2>2 DEF ManagersOf
<1>3. a <= Len(slots) => SubSeq(slots, 1, a) \in Seq(Slot)
  BY <1>1
<1>4. QED
  BY <1>1, <1>2, <1>3

\* A request keeps the types, and hands its caller a manager.
LEMMA RequestTypes ==
  ASSUME RegistryInv, NEW t \in Callers, NEW k \in Keys, ForCaller(t, k)
  PROVE  TypeOK' /\ HeldTyped'
<1>1. t \in Threads
  BY DEF Threads
<1>2. SlotsInv'
  BY HitStep, MissStep DEF ForCaller, RegistryInv
<1>3. askedAt' \in [Keys -> Nat] /\ requests' \in Nat
  BY DEF ForCaller, Request, RegistryInv, AskedTyped
<1>4. CASE Hit(t, k)
  <2>1. PICK i \in DOMAIN slots : held' = [held EXCEPT ![t] = slots[i].manager]
    BY <1>4 DEF Hit
  <2>2. slots[i].manager \in Managers
    <3>1. slots[i] \in Slot
      BY ElementOfSeq DEF RegistryInv, TypeOK
    <3>2. QED
      BY <3>1 DEF Slot
  <2>3. QED
    BY <1>1, <1>2, <1>3, <1>4, <2>1, <2>2
       DEF RegistryInv, TypeOK, HeldTyped, SlotsInv, SlotsTyped, ForCaller, Hit, sessions
<1>5. CASE Miss(t, k)
  <2>1. PICK m \in Managers : created' = created \cup {m} /\ held' = [held EXCEPT ![t] = m]
    BY <1>5 DEF Miss
  <2>2. ManagersOf(SubSeq(slots, 1, Evicted)) \in Seq(Managers)
    BY <1>5, MissShape, ManagersTyped DEF RegistryInv
  <2>3. QED
    BY <1>1, <1>2, <1>3, <1>5, <2>1, <2>2
       DEF RegistryInv, TypeOK, HeldTyped, SlotsInv, SlotsTyped, ForCaller, Miss, sessions
<1>6. QED
  BY <1>4, <1>5 DEF ForCaller

\* So does every other step.
LEMMA RegistryStep == RegistryInv /\ [Next]_vars => RegistryInv'
<1> SUFFICES ASSUME RegistryInv, [Next]_vars PROVE RegistryInv'
  OBVIOUS
<1> USE DEF Threads
<1>1. SlotsInv'
  BY SlotsStep DEF RegistryInv
<1>2. AskedTyped'
  <2>1. ASSUME NEW t, NEW k \in Keys, ForCaller(t, k) PROVE AskedTyped'
    BY <2>1 DEF ForCaller, Request, RegistryInv, AskedTyped
  <2>2. CASE UNCHANGED <<requests, askedAt>>
    BY <2>2 DEF RegistryInv, AskedTyped
  <2>3. QED
    BY <2>1, <2>2
       DEF Next, vars, Ask, CloseEvicted, EvictionDone, UseSession, Disconnect, RequestEnds,
           DisconnectAll, ForceDisconnect, CloseNext, CloseRaises, DisconnectedAll, Forced
<1>3. ASSUME NEW t \in Callers, Ask(t) \/ EvictionDone(t) \/ RequestEnds(t)
      PROVE  TypeOK' /\ HeldTyped'
  BY <1>3 DEF Ask, EvictionDone, RequestEnds, RegistryInv, TypeOK, HeldTyped, sessions
<1>4. ASSUME NEW t \in Callers, UseSession(t) \/ Disconnect(t) PROVE TypeOK' /\ HeldTyped'
  BY <1>4 DEF UseSession, Disconnect, Close, RegistryInv, TypeOK, HeldTyped, sessions
<1>5. ASSUME NEW t \in Threads, CloseEvicted(t) \/ CloseNext(t) PROVE TypeOK' /\ HeldTyped'
  <2>1. Tail(closing[t]) \in Seq(Managers)
    BY <1>5 DEF CloseEvicted, CloseNext, RegistryInv, TypeOK
  <2>2. QED
    BY <1>5, <2>1 DEF CloseEvicted, CloseNext, Close, CloseFails, RegistryInv, TypeOK, HeldTyped
<1>6. ASSUME NEW t \in Threads, DisconnectAll(t) \/ ForceDisconnect(t) PROVE TypeOK' /\ HeldTyped'
  <2>1. ManagersOf(slots) \in Seq(Managers)
    BY ManagersTyped DEF RegistryInv
  <2>2. QED
    BY <1>6, <2>1 DEF DisconnectAll, ForceDisconnect, RegistryInv, TypeOK, HeldTyped, sessions
<1>7. ASSUME NEW t \in Threads, CloseRaises(t) \/ DisconnectedAll(t) \/ Forced(t)
      PROVE  TypeOK' /\ HeldTyped'
  <2>1. <<>> \in Seq(Managers) /\ <<>> \in Seq(Slot)
    OBVIOUS
  <2>2. QED
    BY <1>7, <2>1
       DEF CloseRaises, DisconnectedAll, Forced, RegistryInv, TypeOK, HeldTyped, sessions
<1>8. ASSUME UNCHANGED vars PROVE TypeOK' /\ HeldTyped'
  BY <1>8 DEF vars, sessions, RegistryInv, TypeOK, HeldTyped
<1>9. TypeOK' /\ HeldTyped'
  BY <1>3, <1>4, <1>5, <1>6, <1>7, <1>8, RequestTypes DEF Next
<1>10. QED
  BY <1>1, <1>2, <1>9 DEF RegistryInv

LEMMA RegistryInit == Init => RegistryInv
<1>1. <<>> \in Seq(Managers) /\ <<>> \in Seq(Slot)
  OBVIOUS
<1>2. Init => SlotsInv /\ AskedTyped
  BY OrderInit DEF OrderInv
<1>3. Init => HeldTyped
  BY DEF Init, HeldTyped, Threads
<1>4. Init => TypeOK
  <2> SUFFICES ASSUME Init PROVE TypeOK
    OBVIOUS
  <2>1. pc \in [Threads -> {"idle", "asking", "closing", "using", "disconnecting", "forcing"}]
    BY DEF Init
  <2>2. closing \in [Threads -> Seq(Managers)] /\ held \in [Callers -> Managers \cup {None}]
    BY <1>1 DEF Init
  <2>3. QED
    BY <1>1, <1>2, <2>1, <2>2 DEF Init, TypeOK, AskedTyped
<1>5. QED
  BY <1>2, <1>3, <1>4 DEF RegistryInv

\* Every reachable state of the registry and its threads has its shape.
THEOREM RegistryTypeOK == Spec => []TypeOK
<1>1. RegistryInv => TypeOK
  BY DEF RegistryInv
<1>2. QED
  BY RegistryInit, RegistryStep, <1>1, PTL DEF Spec

\* A hit leaves every manager in its slot; a miss moves those it takes out of
\* theirs to what its caller has to close.
LEMMA RequestAccounts ==
  ASSUME ClosedInv, NEW t \in Callers, NEW k \in Keys, ForCaller(t, k)
  PROVE  Accounted'
<1>1. t \in Threads /\ pc[t] = "asking" /\ open' = open /\ adrift' = adrift
  BY DEF ForCaller, Threads, sessions
<1>2. \A u \in Threads : u # t => pc'[u] = pc[u] /\ closing'[u] = closing[u]
  BY DEF ForCaller, Hit, Miss, ClosedInv, RegistryInv, TypeOK
<1>3. ASSUME NEW m, InSlot(m)
      PROVE  InSlot(m)' \/ (pc'[t] = "closing" /\ m \in ToSet(closing'[t]))
  <2>1. PICK i \in DOMAIN slots : slots[i].manager = m
    BY <1>3 DEF InSlot
  <2>2. CASE Hit(t, k)
    BY <2>1, <2>2, HitKeepsSlots DEF ClosedInv, RegistryInv, InSlot
  <2>3. CASE Miss(t, k)
    <3>1. /\ Evicted \in 0..Len(slots) /\ Len(slots) \in Nat /\ i \in 1..Len(slots)
          /\ DOMAIN slots' = 1..(Len(slots) - Evicted + 1)
          /\ \A j \in 1..(Len(slots) - Evicted) : slots'[j] = slots[Evicted + j]
      <4>1. DOMAIN slots = 1..Len(slots)
        BY DEF ClosedInv, RegistryInv, SlotsInv, SlotsTyped
      <4>2. QED
        BY <2>3, <4>1, MissShape DEF ClosedInv, RegistryInv
    <3>2. CASE i > Evicted
      <4>1. /\ i - Evicted \in 1..(Len(slots) - Evicted) /\ Evicted + (i - Evicted) = i
            /\ i - Evicted \in DOMAIN slots'
        BY <3>1, <3>2
      <4>2. slots'[i - Evicted] = slots[i]
        BY <3>1, <4>1
      <4>3. QED
        BY <2>1, <4>1, <4>2 DEF InSlot
    <3>3. CASE i <= Evicted
      <4> DEFINE q == SubSeq(slots, 1, Evicted)
      <4>1. /\ DOMAIN q = 1..Evicted /\ i \in 1..Evicted /\ q[i] = slots[i]
        BY <3>1, <3>3 DEF ClosedInv, RegistryInv, SlotsInv, SlotsTyped
      <4>2. pc'[t] = "closing" /\ closing'[t] = ManagersOf(q)
        BY <1>1, <2>3 DEF Miss, ClosedInv, RegistryInv, TypeOK
      <4> HIDE DEF q
      <4>3. m \in ToSet(ManagersOf(q))
        BY <2>1, <4>1 DEF ManagersOf, ToSet
      <4>4. QED
        BY <4>2, <4>3
    <3>4. QED
      BY <3>1, <3>2, <3>3
  <2>4. QED
    BY <2>2, <2>3 DEF ForCaller
<1>4. SUFFICES ASSUME NEW m \in open
               PROVE  \/ InSlot(m)' \/ m \in adrift
                      \/ \E u \in Threads : pc'[u] = "closing" /\ m \in ToSet(closing'[u])
  BY <1>1 DEF Accounted, InSlot
<1>5. CASE InSlot(m)
  BY <1>1, <1>3, <1>5
<1>6. CASE \E u \in Threads : pc[u] = "closing" /\ m \in ToSet(closing[u])
  BY <1>1, <1>2, <1>6
<1>7. QED
  BY <1>5, <1>6 DEF ClosedInv, Accounted

\* The next session to close is crossed off, closed or adrift, and no other is.
LEMMA CloseAccounts ==
  ASSUME ClosedInv, NEW t \in Threads, CloseEvicted(t) \/ CloseNext(t)
  PROVE  ClosersClose' /\ LockHeld' /\ Accounted' /\ Snapshot'
<1> DEFINE h == Head(closing[t])
<1>1. /\ closing[t] \in Seq(Managers) /\ closing[t] # <<>>
      /\ \/ open' = open \ {h} /\ adrift' = adrift \ {h}
         \/ open' = open /\ adrift' = adrift \cup {h}
      /\ closing' = [closing EXCEPT ![t] = Tail(closing[t])]
      /\ slots' = slots /\ lock' = lock /\ pc' = pc
      /\ closing \in [Threads -> Seq(Managers)]
  BY DEF CloseEvicted, CloseNext, Close, CloseFails, ClosedInv, RegistryInv, TypeOK
<1>2. ASSUME NEW m \in ToSet(closing[t]), m # h PROVE m \in ToSet(Tail(closing[t]))
  <2>1. PICK i \in 1..Len(closing[t]) : m = closing[t][i]
    BY <1>1 DEF ToSet
  <2>2. /\ h = closing[t][1] /\ Len(Tail(closing[t])) = Len(closing[t]) - 1
        /\ \A j \in 1..(Len(closing[t]) - 1) : Tail(closing[t])[j] = closing[t][j + 1]
        /\ DOMAIN Tail(closing[t]) = 1..(Len(closing[t]) - 1) /\ Len(closing[t]) \in Nat
    BY <1>1
  <2>3. i - 1 \in 1..(Len(closing[t]) - 1) /\ (i - 1) + 1 = i
    BY <1>2, <2>1, <2>2
  <2>4. QED
    BY <2>1, <2>2, <2>3 DEF ToSet
<1> HIDE DEF h
<1>3. \A u \in Threads : \A m \in ToSet(closing[u]) : m # h => m \in ToSet(closing'[u])
  <2>1. ASSUME NEW u \in Threads, NEW m \in ToSet(closing[u]), m # h
        PROVE  m \in ToSet(closing'[u])
    <3>1. CASE u = t
      <4>1. closing'[u] = Tail(closing[t])
        BY <1>1, <3>1
      <4>2. m \in ToSet(Tail(closing[t]))
        BY <1>2, <2>1, <3>1
      <4>3. QED
        BY <4>1, <4>2
    <3>2. CASE u # t
      <4>1. closing'[u] = closing[u]
        BY <1>1, <3>2
      <4>2. QED
        BY <2>1, <4>1
    <3>3. QED
      BY <3>1, <3>2
  <2>2. QED
    BY <2>1
<1>4. ClosersClose' /\ LockHeld'
  <2>1. \A u \in Threads : closing'[u] # <<>> => closing[u] # <<>>
    BY <1>1
  <2>2. QED
    BY <1>1, <2>1 DEF ClosedInv, ClosersClose, LockHeld
<1>5. Accounted'
  BY <1>1, <1>3 DEF ClosedInv, Accounted, InSlot
<1>6. Snapshot'
  BY <1>1, <1>3 DEF ClosedInv, Snapshot, InSlot
<1>7. QED
  BY <1>4, <1>5, <1>6

\* Every step of every thread accounts for the sessions that are open.
LEMMA ClosedStep == ClosedInv /\ [Next]_vars => ClosedInv'
<1> SUFFICES ASSUME ClosedInv, [Next]_vars PROVE ClosedInv'
  OBVIOUS
<1> DEFINE Rest == ClosersClose /\ LockHeld /\ Accounted /\ Snapshot
<1>1. RegistryInv'
  BY RegistryStep DEF ClosedInv
<1>2. Callers \subseteq Threads /\ Closers \subseteq Threads /\ Forcers \subseteq Threads
  BY DEF Threads
<1>3. pc \in [Threads -> {"idle", "asking", "closing", "using", "disconnecting", "forcing"}]
      /\ closing \in [Threads -> Seq(Managers)]
  BY DEF ClosedInv, RegistryInv, TypeOK
<1>4. ASSUME NEW t \in Threads, Ask(t) \/ EvictionDone(t) \/ RequestEnds(t) \/ Forced(t)
      PROVE  Rest'
  <2>1. /\ pc[t] \notin {"disconnecting"} /\ closing[t] = <<>>
        /\ pc'[t] \notin {"disconnecting", "closing"}
        /\ \A u \in Threads : u # t => pc'[u] = pc[u]
        /\ UNCHANGED <<slots, lock, open, adrift, closing>>
    BY <1>3, <1>4
       DEF Ask, EvictionDone, RequestEnds, Forced, sessions, ClosedInv, ClosersClose
  <2>2. ToSet(<<>>) = {}
    BY DEF ToSet
  <2>3. QED
    BY <2>1, <2>2 DEF ClosedInv, ClosersClose, LockHeld, Accounted, Snapshot, InSlot
<1>5. ASSUME NEW t \in Callers, NEW k \in Keys, ForCaller(t, k) PROVE Rest'
  <2>1. /\ ~lock /\ ~lock'
        /\ pc'[t] \in {"using", "closing"} /\ (pc'[t] = "using" => closing'[t] = closing[t])
        /\ pc[t] = "asking"
        /\ \A u \in Threads : u # t => pc'[u] = pc[u] /\ closing'[u] = closing[u]
    BY <1>2, <1>3, <1>5 DEF ForCaller, Hit, Miss
  <2>2. \A u \in Threads : pc'[u] # "disconnecting"
    BY <1>2, <2>1 DEF ClosedInv, LockHeld
  <2>3. ClosersClose'
    BY <1>2, <2>1 DEF ClosedInv, ClosersClose
  <2>4. QED
    BY <1>5, <2>2, <2>3, RequestAccounts DEF LockHeld, Snapshot
<1>6. ASSUME NEW t \in Callers, UseSession(t) PROVE Rest'
  <2>1. /\ open' = open \cup {held[t]}
        /\ adrift' = IF lock \/ ~InSlot(held[t]) THEN adrift \cup {held[t]} ELSE adrift
        /\ UNCHANGED <<slots, lock, pc, closing>>
    BY <1>6 DEF UseSession
  <2>2. ClosersClose' /\ LockHeld'
    BY <2>1 DEF ClosedInv, ClosersClose, LockHeld
  <2>3. Accounted'
    BY <2>1 DEF ClosedInv, Accounted, InSlot
  <2>4. Snapshot'
    BY <2>1 DEF ClosedInv, LockHeld, Snapshot, InSlot
  <2>5. QED
    BY <2>2, <2>3, <2>4
<1>7. ASSUME NEW t \in Callers, Disconnect(t) PROVE Rest'
  BY <1>7 DEF Disconnect, Close, ClosedInv, ClosersClose, LockHeld, Accounted, Snapshot, InSlot
<1>8. ASSUME NEW t \in Threads, DisconnectAll(t) \/ ForceDisconnect(t) PROVE Rest'
  <2>1. /\ pc[t] = "idle" /\ ~lock /\ pc'[t] \in {"disconnecting", "forcing"}
        /\ closing'[t] = ManagersOf(slots)
        /\ pc'[t] = "disconnecting" => lock'
        /\ \A u \in Threads : u # t => pc'[u] = pc[u] /\ closing'[u] = closing[u]
        /\ UNCHANGED <<slots, open, adrift>>
    BY <1>3, <1>8 DEF DisconnectAll, ForceDisconnect, sessions
  <2>2. \A u \in Threads : pc[u] # "disconnecting"
    BY <2>1 DEF ClosedInv, LockHeld
  <2>3. \A m : InSlot(m) => m \in ToSet(ManagersOf(slots))
    BY DEF InSlot, ManagersOf, ToSet
  <2>4. ClosersClose'
    BY <2>1 DEF ClosedInv, ClosersClose
  <2>5. LockHeld'
    BY <2>1, <2>2 DEF LockHeld
  <2>6. Accounted'
    BY <2>1 DEF ClosedInv, Accounted, InSlot
  <2>7. Snapshot'
    BY <2>1, <2>2, <2>3 DEF Snapshot, InSlot
  <2>8. QED
    BY <2>4, <2>5, <2>6, <2>7
<1>9. ASSUME NEW t \in Threads, CloseRaises(t) \/ DisconnectedAll(t) PROVE Rest'
  <2>1. /\ pc[t] = "disconnecting" /\ pc'[t] = "idle" /\ closing'[t] = <<>>
        /\ \A u \in Threads : u # t => pc'[u] = pc[u] /\ closing'[u] = closing[u]
        /\ UNCHANGED <<open, adrift>>
        /\ slots' = slots \/ (closing[t] = <<>> /\ slots' = <<>>)
    BY <1>3, <1>9 DEF CloseRaises, DisconnectedAll, sessions
  <2>2. \A u \in Threads : pc'[u] # "disconnecting"
    BY <2>1 DEF ClosedInv, LockHeld
  <2>3. ClosersClose'
    BY <2>1 DEF ClosedInv, ClosersClose
  <2>4. LockHeld' /\ Snapshot'
    BY <2>2 DEF LockHeld, Snapshot
  <2>5. ToSet(<<>>) = {}
    BY DEF ToSet
  <2>6. Accounted'
    <3> SUFFICES ASSUME NEW m \in open
                 PROVE  \/ InSlot(m)' \/ m \in adrift
                        \/ \E u \in Threads : pc'[u] = "closing" /\ m \in ToSet(closing'[u])
      BY <2>1 DEF Accounted, InSlot
    <3>1. CASE InSlot(m)
      BY <2>1, <2>5, <3>1 DEF ClosedInv, Snapshot, InSlot
    <3>2. CASE \E u \in Threads : pc[u] = "closing" /\ m \in ToSet(closing[u])
      BY <2>1, <3>2
    <3>3. QED
      BY <3>1, <3>2 DEF ClosedInv, Accounted
  <2>7. QED
    BY <2>3, <2>4, <2>6
<1>10. ASSUME UNCHANGED vars PROVE Rest'
  BY <1>10
     DEF vars, sessions, ClosedInv, ClosersClose, LockHeld, Accounted, Snapshot, InSlot
<1>11. Rest'
  BY <1>2, <1>4, <1>5, <1>6, <1>7, <1>8, <1>9, <1>10, CloseAccounts DEF Next
<1>12. QED
  BY <1>1, <1>11 DEF ClosedInv

LEMMA ClosedInit == Init => ClosedInv
BY RegistryInit
   DEF Init, ClosedInv, ClosersClose, LockHeld, Accounted, Snapshot, InSlot, Threads, sessions

\* When everything has ended, whatever was evicted or reset is closed, unless its
\* close was tried and failed, or a request that outlived its slot opened it again.
THEOREM EvictedAreClosed == Spec => []EvictedSessionsClosed
<1>1. ClosedInv => EvictedSessionsClosed
  BY DEF ClosedInv, Accounted, EvictedSessionsClosed
<1>2. QED
  BY ClosedInit, ClosedStep, <1>1, PTL DEF Spec
=============================================================================
