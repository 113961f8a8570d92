--------------------------- MODULE ToolCallProofs ---------------------------
(***************************************************************************)
(* Theorems about ToolCall, for any number of callers, tokens, people and  *)
(* logins.  A session never changes hands: the login a manager was created *)
(* with is the login of the slot it is in (SlotsKeepLogin), and a caller   *)
(* keeps the manager it was handed for its own login (CallsKeepLogin),     *)
(* whatever becomes of the slot.  A call is a step of the registry or a    *)
(* stutter (CallsUseRegistry), so what ConnectionRegistryProofs proves of  *)
(* the registry holds here as well (CallsKeepPromises), its types included.*)
(***************************************************************************)
EXTENDS ToolCall, TLAPS

P == INSTANCE ConnectionRegistryProofs WITH Closers <- {}

Working == {"asking", "closing", "using"}

CallTypes ==
  /\ slots \in Seq(R!Slot)
  /\ created \subseteq Managers
  /\ pc \in [R!Threads -> {"idle", "forcing"} \cup Working]
  /\ held \in [Callers -> Managers \cup {None}]
  /\ live \subseteq Tokens
  /\ credentials \in [Managers -> Keys \cup {None}]
  /\ at \in [Callers -> {"idle", "resolving", "working", "finishing"}]
  /\ login \in [Callers -> Keys \cup {None}]
  /\ token \in [Callers -> Tokens \cup {None}]

SlotsKeepLogin ==
  \A i \in DOMAIN slots :
    slots[i].manager \in created /\ credentials[slots[i].manager] = slots[i].key

CallsKeepLogin ==
  \A t \in Callers :
    /\ pc[t] \in Working => at[t] = "working"
    /\ at[t] = "working" => login[t] \in Keys /\ login[t] = LoginOf[SubjectOf[token[t]]]
    /\ pc[t] \in {"closing", "using"} =>
         held[t] \in created /\ credentials[held[t]] = login[t]

CallInv == CallTypes /\ SlotsKeepLogin /\ CallsKeepLogin

LEMMA RegistryAssumptions == P!MaxAssumption /\ P!BoundAssumption /\ P!NoManagerAssumption
  BY BoundsAssumption, NoLoginAssumption
     DEF P!MaxAssumption, P!BoundAssumption, P!NoManagerAssumption

\* A hit puts the slots in another order.
LEMMA HitKeepsSlots ==
  ASSUME CallTypes, NEW t, NEW k, R!Hit(t, k)
  PROVE  /\ slots' \in Seq(R!Slot)
         /\ \A j \in DOMAIN slots' : \E l \in DOMAIN slots : slots'[j] = slots[l]
<1>1. PICK i \in DOMAIN slots : slots' = R!MoveToEnd(slots, i)
  BY DEF R!Hit
<1>2. slots \in Seq(R!Slot) /\ Len(slots) \in Nat /\ DOMAIN slots = 1..Len(slots)
  BY DEF CallTypes
<1>3. R!MoveToEnd(slots, i) = P!MoveToEnd(slots, i)
  BY DEF R!MoveToEnd, P!MoveToEnd, R!RemoveAt, P!RemoveAt
<1>4. /\ slots' \in Seq(R!Slot) /\ Len(slots') = Len(slots) /\ slots'[Len(slots)] = slots[i]
      /\ \A j \in 1..(Len(slots) - 1) : slots'[j] = slots[IF j < i THEN j ELSE j + 1]
  <2> DEFINE r == P!MoveToEnd(slots, i)
  <2>1. i \in DOMAIN slots
    BY <1>1
  <2>2. /\ r \in Seq(R!Slot) /\ Len(r) = Len(slots) /\ r[Len(slots)] = slots[i]
        /\ \A j \in 1..(Len(slots) - 1) : r[j] = slots[IF j < i THEN j ELSE j + 1]
    BY <1>2, <2>1, P!MoveToEndOrder, RegistryAssumptions
  <2> QED
    BY <1>1, <1>3, <2>2
<1>5. ASSUME NEW j \in DOMAIN slots' PROVE \E l \in DOMAIN slots : slots'[j] = slots[l]
  BY <1>2, <1>4
<1>6. QED
  BY <1>4, <1>5

\* A miss drops the oldest slots and adds one, for a manager that is new.
LEMMA MissKeepsSlots ==
  ASSUME CallTypes, NEW t, NEW k \in Keys, R!Miss(t, k)
  PROVE  \E m \in Managers \ created :
           /\ slots' \in Seq(R!Slot) /\ created' = created \cup {m}
           /\ held' = [held EXCEPT ![t] = m]
           /\ \A j \in DOMAIN slots' :
                \/ slots'[j].key = k /\ slots'[j].manager = m
                \/ \E l \in DOMAIN slots : slots'[j] = slots[l]
<1> USE DEF CallTypes
<1>1. PICK m \in Managers \ created :
        /\ slots' = Append(SubSeq(slots, R!Evicted + 1, Len(slots)), [key |-> k, manager |-> m])
        /\ created' = created \cup {m}
        /\ held' = [held EXCEPT ![t] = m]
  BY DEF R!Miss
<1> DEFINE kept == SubSeq(slots, R!Evicted + 1, Len(slots))
           new  == [key |-> k, manager |-> m]
<1>2. R!Evicted \in 0..Len(slots)
  BY BoundsAssumption DEF R!Evicted
<1> HIDE DEF kept
<1>3. /\ kept \in Seq(R!Slot)
      /\ \A j \in 1..Len(kept) : kept[j] = slots[R!Evicted + j] /\ R!Evicted + j \in DOMAIN slots
  <2>1. slots \in Seq(R!Slot)
    OBVIOUS
  <2> DEFINE e == R!Evicted
  <2>2. e \in 0..Len(slots)
    BY <1>2
  <2> HIDE DEF e
  <2>3. SubSeq(slots, e + 1, Len(slots)) \in Seq(R!Slot)
    BY <2>1, <2>2
  <2>4. \A j \in 1..Len(SubSeq(slots, e + 1, Len(slots))) :
          SubSeq(slots, e + 1, Len(slots))[j] = slots[e + j] /\ e + j \in DOMAIN slots
    BY <2>1, <2>2
  <2> QED
    BY <2>3, <2>4 DEF kept, e
<1>4. new \in R!Slot /\ new.key = k /\ new.manager = m
  BY DEF R!Slot
<1>5. slots' = Append(kept, new)
  BY <1>1 DEF kept
<1> HIDE DEF new
<1>6. /\ slots' \in Seq(R!Slot) /\ DOMAIN slots' = 1..(Len(kept) + 1)
      /\ slots'[Len(kept) + 1] = new /\ \A j \in 1..Len(kept) : slots'[j] = kept[j]
  BY <1>3, <1>4, <1>5
<1>7. ASSUME NEW j \in DOMAIN slots'
      PROVE  \/ slots'[j].key = k /\ slots'[j].manager = m
             \/ \E l \in DOMAIN slots : slots'[j] = slots[l]
  <2>1. Len(kept) \in Nat
    BY <1>3
  <2>2. CASE j \in 1..Len(kept)
    BY <1>3, <1>6, <2>2
  <2>3. CASE j = Len(kept) + 1
    BY <1>4, <1>6, <2>3
  <2> QED
    BY <1>6, <2>1, <2>2, <2>3
<1> QED
  BY <1>1, <1>6, <1>7

\* The manager that is handed out is one of the caller's login.
LEMMA GetManagerStep ==
  ASSUME CallInv, NEW t \in Callers, GetManager(t) PROVE CallInv'
<1> USE DEF CallInv, CallTypes
<1> DEFINE k == login[t]
<1>1. pc[t] = "asking" /\ at[t] = "working" /\ k \in Keys /\ t \in R!Threads
  BY DEF GetManager, R!ForCaller, CallsKeepLogin, Working, R!Threads
<1>2. R!Hit(t, k) \/ R!Miss(t, k)
  BY DEF GetManager, R!ForCaller
<1>3. /\ credentials' = [m \in Managers |-> IF m \in created' \ created THEN k ELSE credentials[m]]
      /\ UNCHANGED <<live, at, login, token>>
  BY DEF GetManager, call
<1> HIDE DEF k
<1>4. CASE R!Hit(t, k)
  <2>1. created' = created /\ pc' = [pc EXCEPT ![t] = "using"] /\ credentials' = credentials
    BY <1>3, <1>4 DEF R!Hit
  <2>2. PICK i \in DOMAIN slots : slots[i].key = k /\ held' = [held EXCEPT ![t] = slots[i].manager]
    BY <1>4 DEF R!Hit
  <2>3. slots[i].manager \in created /\ credentials[slots[i].manager] = k
    BY <2>2 DEF SlotsKeepLogin
  <2>4. slots' \in Seq(R!Slot) /\ \A j \in DOMAIN slots' : \E l \in DOMAIN slots : slots'[j] = slots[l]
    BY <1>4, HitKeepsSlots
  <2>5. CallTypes'
    BY <1>1, <1>3, <2>1, <2>2, <2>3, <2>4 DEF Working
  <2>6. SlotsKeepLogin'
    BY <2>1, <2>4 DEF SlotsKeepLogin
  <2>7. CallsKeepLogin'
    BY <1>1, <1>3, <2>1, <2>2, <2>3 DEF CallsKeepLogin, Working, k
  <2> QED
    BY <2>5, <2>6, <2>7
<1>5. CASE R!Miss(t, k)
  <2>1. pc' = [pc EXCEPT ![t] = "closing"]
    BY <1>5 DEF R!Miss
  <2>2. PICK m \in Managers \ created :
          /\ slots' \in Seq(R!Slot) /\ created' = created \cup {m}
          /\ held' = [held EXCEPT ![t] = m]
          /\ \A j \in DOMAIN slots' :
               \/ slots'[j].key = k /\ slots'[j].manager = m
               \/ \E l \in DOMAIN slots : slots'[j] = slots[l]
    BY <1>1, <1>5, MissKeepsSlots
  <2>3. credentials'[m] = k /\ \A n \in created : credentials'[n] = credentials[n]
    BY <1>3, <2>2
  <2>4. CallTypes'
    BY <1>1, <1>3, <2>1, <2>2 DEF Working
  <2>5. SlotsKeepLogin'
    BY <2>2, <2>3 DEF SlotsKeepLogin
  <2>6. CallsKeepLogin'
    BY <1>1, <1>3, <2>1, <2>2, <2>3 DEF CallsKeepLogin, Working, k
  <2> QED
    BY <2>4, <2>5, <2>6
<1> QED
  BY <1>2, <1>4, <1>5

\* A call is resolved to the login of the subject its token names.
LEMMA ResolveStep ==
  ASSUME CallInv, NEW t \in Callers, Resolve(t) PROVE CallInv'
<1> USE DEF CallInv, CallTypes
<1>1. t \in R!Threads /\ pc' = [pc EXCEPT ![t] = "asking"] /\ UNCHANGED <<slots, created, held>>
  BY DEF Resolve, R!Ask, R!Threads
<1>2. /\ at' = [at EXCEPT ![t] = "working"] /\ login' = [login EXCEPT ![t] = CurrentLogin(t)]
      /\ UNCHANGED <<live, credentials, token>>
  BY DEF Resolve
<1>3. CurrentLogin(t) \in Keys /\ CurrentLogin(t) = LoginOf[SubjectOf[token[t]]]
  <2>1. token[t] \in live /\ CurrentCaller(t) = SubjectOf[token[t]]
    BY DEF Resolve, CurrentLogin, CurrentCaller
  <2>2. SubjectOf[token[t]] \in Subjects
    BY <2>1, SubjectAssumption
  <2>3. CurrentLogin(t) = LoginOf[SubjectOf[token[t]]]
    BY <2>1, <2>2, NoLoginAssumption DEF CurrentLogin
  <2> QED
    BY <2>2, <2>3, LoginAssumption DEF Resolve
<1>4. CallTypes'
  BY <1>1, <1>2, <1>3 DEF Working
<1>5. SlotsKeepLogin'
  BY <1>1, <1>2 DEF SlotsKeepLogin
<1>6. CallsKeepLogin'
  BY <1>1, <1>2, <1>3 DEF CallsKeepLogin, Working
<1> QED
  BY <1>4, <1>5, <1>6

\* Steps that move a call on without touching slots, managers or logins.
LEMMA CallStep ==
  ASSUME CallInv, [Next]_vars, ~\E t \in Callers : Resolve(t) \/ GetManager(t)
  PROVE  CallInv'
<1> USE DEF CallInv, CallTypes, call, registry
<1>1. CASE \E k \in Tokens : TokenEnds(k)
  BY <1>1 DEF TokenEnds, SlotsKeepLogin, CallsKeepLogin
<1>2. ASSUME NEW t \in Callers, Arrive(t) PROVE CallInv'
  <2>1. /\ at[t] = "idle" /\ at' = [at EXCEPT ![t] = "resolving"]
        /\ \E k \in live : token' = [token EXCEPT ![t] = k]
        /\ UNCHANGED <<slots, created, pc, held, live, credentials, login>>
    BY <1>2 DEF Arrive
  <2> QED
    BY <2>1 DEF SlotsKeepLogin, CallsKeepLogin, Working
<1>3. ASSUME NEW t \in Callers, Refuse(t) PROVE CallInv'
  BY <1>3 DEF Refuse, SlotsKeepLogin, CallsKeepLogin, Working
<1>4. ASSUME NEW t \in Callers, EvictionDone(t) PROVE CallInv'
  <2>1. /\ pc[t] = "closing" /\ pc' = [pc EXCEPT ![t] = "using"] /\ t \in R!Threads
        /\ UNCHANGED <<slots, created, held, live, credentials, at, login, token>>
    BY <1>4 DEF EvictionDone, R!EvictionDone, R!Threads
  <2> QED
    BY <2>1 DEF SlotsKeepLogin, CallsKeepLogin, Working
<1>5. ASSUME NEW t \in Callers, ToolReturns(t) PROVE CallInv'
  <2>1. /\ pc[t] = "using" /\ pc' = [pc EXCEPT ![t] = "idle"] /\ t \in R!Threads
        /\ held' = [held EXCEPT ![t] = None] /\ at' = [at EXCEPT ![t] = "finishing"]
        /\ UNCHANGED <<slots, created, live, credentials, login, token>>
    BY <1>5 DEF ToolReturns, R!RequestEnds, R!Threads
  <2> QED
    BY <2>1 DEF SlotsKeepLogin, CallsKeepLogin, Working
<1>6. ASSUME NEW t \in Callers, Finish(t) PROVE CallInv'
  <2>1. /\ at[t] = "finishing" /\ at' = [at EXCEPT ![t] = "idle"]
        /\ token' = [token EXCEPT ![t] = None] /\ login' = [login EXCEPT ![t] = None]
        /\ UNCHANGED <<slots, created, pc, held, live, credentials>>
    BY <1>6 DEF Finish
  <2> QED
    BY <2>1 DEF SlotsKeepLogin, CallsKeepLogin, Working
<1>7. ASSUME NEW t \in Callers, CloseEvicted(t) \/ Work(t) PROVE CallInv'
  <2>1. UNCHANGED <<slots, created, pc, held, live, credentials, at, login, token>>
    BY <1>7 DEF CloseEvicted, Work, R!CloseEvicted, R!UseSession, R!Disconnect
  <2> QED
    BY <2>1 DEF SlotsKeepLogin, CallsKeepLogin
<1>8. ASSUME NEW t \in Forcers, TornDown(t) PROVE CallInv'
  <2>1. UNCHANGED <<live, credentials, at, login, token>>
    BY <1>8 DEF TornDown
  <2>2. t \in R!Threads /\ UNCHANGED <<slots, created, held>>
    BY <1>8 DEF TornDown, R!ForceDisconnect, R!CloseNext, R!Forced, R!Threads
  <2>3. \/ pc' = pc
        \/ pc[t] = "idle" /\ pc' = [pc EXCEPT ![t] = "forcing"]
        \/ pc[t] = "forcing" /\ pc' = [pc EXCEPT ![t] = "idle"]
    BY <1>8 DEF TornDown, R!ForceDisconnect, R!CloseNext, R!Forced
  <2>4. /\ pc' \in [R!Threads -> {"idle", "forcing"} \cup Working]
        /\ \A u \in Callers : pc'[u] \in Working => pc'[u] = pc[u]
    <3>1. Callers \subseteq R!Threads
      BY DEF R!Threads
    <3> QED
      BY <2>2, <2>3, <3>1 DEF Working
  <2>5. CallsKeepLogin'
    BY <2>1, <2>2, <2>4 DEF CallsKeepLogin, Working
  <2> QED
    BY <2>1, <2>2, <2>4, <2>5 DEF SlotsKeepLogin
<1>9. CASE UNCHANGED vars
  BY <1>9 DEF vars, SlotsKeepLogin, CallsKeepLogin
<1> QED
  BY <1>1, <1>2, <1>3, <1>4, <1>5, <1>6, <1>7, <1>8, <1>9 DEF Next, Advance

LEMMA CallInit == Init => CallInv
<1> SUFFICES ASSUME Init PROVE CallInv
  OBVIOUS
<1>1. /\ slots = <<>> /\ created = {} /\ live = Tokens
      /\ pc = [t \in R!Threads |-> "idle"] /\ held = [t \in Callers |-> None]
      /\ at = [t \in Callers |-> "idle"] /\ login = [t \in Callers |-> None]
      /\ token = [t \in Callers |-> None] /\ credentials = [m \in Managers |-> None]
  BY DEF Init, R!Init
<1>2. CallTypes
  <2>1. slots \in Seq(R!Slot)
    BY <1>1
  <2> QED
    BY <1>1, <2>1 DEF CallTypes
<1>3. SlotsKeepLogin
  BY <1>1 DEF SlotsKeepLogin
<1>4. CallsKeepLogin
  <2>1. Callers \subseteq R!Threads
    BY DEF R!Threads
  <2> QED
    BY <1>1, <2>1 DEF CallsKeepLogin, Working
<1> QED
  BY <1>2, <1>3, <1>4 DEF CallInv

LEMMA CallsKeepInv == CallInv /\ [Next]_vars => CallInv'
  BY GetManagerStep, ResolveStep, CallStep

\* Work on a session is always done under the login of the person whose token
\* the call came with.
THEOREM OwnLogin == Spec => []WorksUnderOwnLogin
<1>1. CallInv => WorksUnderOwnLogin
  BY NoLoginAssumption DEF CallInv, CallTypes, CallsKeepLogin, Working, WorksUnderOwnLogin
<1>2. QED
  BY CallInit, CallsKeepInv, <1>1, PTL DEF Spec

\* Every step of a call is a step of the registry or leaves the registry alone.
LEMMA RegistryStep == CallInv /\ [Next]_vars => [R!Next]_(R!vars)
<1> SUFFICES ASSUME CallInv, [Next]_vars PROVE R!Next \/ UNCHANGED R!vars
  OBVIOUS
<1> USE DEF R!Next
<1>1. ASSUME NEW t \in Callers, Resolve(t) PROVE R!Next
  BY <1>1 DEF Resolve
<1>2. ASSUME NEW t \in Callers, GetManager(t) PROVE R!Next
  <2>1. login[t] \in Keys
    BY <1>2 DEF GetManager, R!ForCaller, CallInv, CallsKeepLogin, Working
  <2> QED
    BY <1>2, <2>1 DEF GetManager
<1>3. ASSUME NEW t \in Callers, CloseEvicted(t) \/ EvictionDone(t) \/ Work(t) \/ ToolReturns(t)
      PROVE  R!Next
  BY <1>3 DEF CloseEvicted, EvictionDone, Work, ToolReturns
<1>4. ASSUME NEW t \in Forcers, TornDown(t) PROVE R!Next
  BY <1>4 DEF TornDown
<1>5. CASE UNCHANGED registry
  BY <1>5 DEF registry, R!vars, R!sessions
<1> QED
  BY <1>1, <1>2, <1>3, <1>4, <1>5
     DEF Next, Advance, TokenEnds, Arrive, Refuse, Finish, vars

\* Every tool call is a use of the registry, so the theorems about the registry
\* hold of the server's tool calls.
LEMMA CallsUseRegistry == Spec => R!Spec
<1>1. Init => R!Init
  BY DEF Init
<1>2. QED
  BY CallInit, CallsKeepInv, RegistryStep, <1>1, PTL DEF Spec, R!Spec

-----------------------------------------------------------------------------
(* What is known of the registry, of the calls that use it.                *)

\* The registry of the theorems is the registry of the calls.
LEMMA SameInit == R!Init => P!Init
BY DEF R!Init, P!Init, R!Threads, P!Threads

LEMMA SameNext == [R!Next]_(R!vars) => [P!Next]_(P!vars)
<1> SUFFICES ASSUME [R!Next]_(R!vars) PROVE P!Next \/ UNCHANGED P!vars
  OBVIOUS
<1> USE DEF P!Next
<1>1. CASE UNCHANGED R!vars
  BY <1>1 DEF R!vars, P!vars, R!sessions, P!sessions
<1>2. ASSUME NEW t \in Callers, R!Ask(t) PROVE P!Next
  <2>1. P!Ask(t)
    BY <1>2 DEF R!Ask, P!Ask, R!sessions, P!sessions
  <2> QED
    BY <2>1
<1>3. ASSUME NEW t \in Callers, R!CloseEvicted(t) PROVE P!Next
  <2>1. P!CloseEvicted(t)
    BY <1>3 DEF R!CloseEvicted, P!CloseEvicted, R!Close, P!Close, R!CloseFails, P!CloseFails
  <2> QED
    BY <2>1
<1>4. ASSUME NEW t \in Callers, R!EvictionDone(t) PROVE P!Next
  <2>1. P!EvictionDone(t)
    BY <1>4 DEF R!EvictionDone, P!EvictionDone, R!sessions, P!sessions
  <2> QED
    BY <2>1
<1>5. ASSUME NEW t \in Callers, R!UseSession(t) PROVE P!Next
  <2>1. P!UseSession(t)
    BY <1>5 DEF R!UseSession, P!UseSession, R!InSlot, P!InSlot
  <2> QED
    BY <2>1
<1>6. ASSUME NEW t \in Callers, R!Disconnect(t) PROVE P!Next
  <2>1. P!Disconnect(t)
    BY <1>6 DEF R!Disconnect, P!Disconnect, R!Close, P!Close
  <2> QED
    BY <2>1
<1>7. ASSUME NEW t \in Callers, R!RequestEnds(t) PROVE P!Next
  <2>1. P!RequestEnds(t)
    BY <1>7 DEF R!RequestEnds, P!RequestEnds, R!sessions, P!sessions
  <2> QED
    BY <2>1
<1>8. ASSUME NEW t \in Callers, NEW k \in Keys, R!ForCaller(t, k) PROVE P!Next
  <2>1. R!Hit(t, k) => P!Hit(t, k)
    BY DEF R!Hit, P!Hit, R!MoveToEnd, P!MoveToEnd, R!RemoveAt, P!RemoveAt
  <2>2. R!Miss(t, k) => P!Miss(t, k)
    BY DEF R!Miss, P!Miss, R!KeysOf, P!KeysOf, R!ManagersOf, P!ManagersOf, R!Evicted, P!Evicted
  <2>3. P!ForCaller(t, k)
    BY <1>8, <2>1, <2>2 DEF R!ForCaller, P!ForCaller, R!Request, P!Request, R!sessions, P!sessions
  <2> QED
    BY <2>3
<1>9. ASSUME NEW t \in Forcers, R!ForceDisconnect(t) PROVE P!Next
  <2>1. P!ForceDisconnect(t)
    BY <1>9 DEF R!ForceDisconnect, P!ForceDisconnect, R!ManagersOf, P!ManagersOf, R!sessions, P!sessions
  <2> QED
    BY <2>1
<1>10. ASSUME NEW t \in Forcers, R!CloseNext(t) PROVE P!Next
  <2>1. P!CloseNext(t)
    BY <1>10 DEF R!CloseNext, P!CloseNext, R!Close, P!Close, R!CloseFails, P!CloseFails
  <2> QED
    BY <2>1
<1>11. ASSUME NEW t \in Forcers, R!Forced(t) PROVE P!Next
  <2>1. P!Forced(t)
    BY <1>11 DEF R!Forced, P!Forced, R!sessions, P!sessions
  <2> QED
    BY <2>1
<1> QED
  BY <1>1, <1>2, <1>3, <1>4, <1>5, <1>6, <1>7, <1>8, <1>9, <1>10, <1>11 DEF R!Next

LEMMA CallsAreRegistry == Spec => P!Spec
<1>1. R!Spec => P!Spec
  BY SameInit, SameNext, PTL DEF R!Spec, P!Spec
<1>2. QED
  BY <1>1, CallsUseRegistry, PTL

\* The server's tool calls keep to what the registry promises: never more slots than
\* max_connections, no session in two hands, and what was evicted is closed, unless
\* its close failed or a call that outlived its slot opened it again.
RegistryPromises == R!SlotsBounded /\ R!SlotsDistinct /\ R!EvictedSessionsClosed

THEOREM CallsKeepPromises == Spec => []RegistryPromises
<1>1. P!Spec => []P!SlotsBounded
  BY P!RegistryBounded, RegistryAssumptions
<1>2. P!Spec => []P!SlotsDistinct
  BY P!RegistrySeparatesLogins, RegistryAssumptions
<1>3. P!Spec => []P!EvictedSessionsClosed
  BY P!EvictedAreClosed, RegistryAssumptions
<1>4. P!SlotsBounded /\ P!SlotsDistinct /\ P!EvictedSessionsClosed => RegistryPromises
  BY DEF RegistryPromises, P!SlotsBounded, R!SlotsBounded, P!SlotsDistinct, R!SlotsDistinct,
         P!EvictedSessionsClosed, R!EvictedSessionsClosed, P!Threads, R!Threads, P!InSlot, R!InSlot
<1>5. QED
  BY CallsAreRegistry, <1>1, <1>2, <1>3, <1>4, PTL

\* What a call gives is a result or an error, and it works with a login only after it
\* has one.
ReplyInv == reply \in [Callers -> {"result", "error", None}]

LEMMA ReplyStep == ReplyInv /\ [Next]_vars => ReplyInv'
<1> SUFFICES ASSUME ReplyInv, [Next]_vars PROVE ReplyInv'
  OBVIOUS
<1> USE DEF ReplyInv, call
<1>1. CASE \E k \in Tokens : TokenEnds(k)
  BY <1>1 DEF TokenEnds
<1>2. ASSUME NEW t \in Callers, Arrive(t) \/ Refuse(t) \/ ToolReturns(t) \/ Finish(t) PROVE ReplyInv'
  BY <1>2 DEF Arrive, Refuse, ToolReturns, Finish, Answer
<1>3. ASSUME NEW t \in Callers,
             Resolve(t) \/ GetManager(t) \/ EvictionDone(t) \/ CloseEvicted(t) \/ Work(t)
      PROVE  ReplyInv'
  BY <1>3 DEF Resolve, GetManager, EvictionDone, CloseEvicted, Work
<1>4. ASSUME NEW t \in Forcers, TornDown(t) PROVE ReplyInv'
  BY <1>4 DEF TornDown
<1>5. CASE UNCHANGED vars
  BY <1>5 DEF vars
<1> QED
  BY <1>1, <1>2, <1>3, <1>4, <1>5 DEF Next, Advance

\* Every reachable state of the server's tool calls has its shape.
THEOREM ToolCallTypeOK == Spec => []TypeOK
<1>1. P!Spec => []P!TypeOK
  BY P!RegistryTypeOK, RegistryAssumptions
<1>2. P!TypeOK /\ CallInv /\ ReplyInv => TypeOK
  <2>1. P!TypeOK => R!TypeOK
    BY DEF P!TypeOK, R!TypeOK, P!Slot, R!Slot, P!Threads, R!Threads
  <2>2. CallInv => \A t \in Callers : at[t] = "working" => login[t] # None
    BY NoLoginAssumption DEF CallInv, CallsKeepLogin
  <2> QED
    BY <2>1, <2>2 DEF TypeOK, CallInv, CallTypes, ReplyInv
<1>3. Init => ReplyInv
  BY DEF Init, ReplyInv
<1>4. QED
  BY CallsAreRegistry, CallInit, CallsKeepInv, ReplyStep, <1>1, <1>2, <1>3, PTL DEF Spec
=============================================================================
