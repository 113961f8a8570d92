---------------------- MODULE ConnectionManagerProofs ----------------------
(***************************************************************************)
(* Theorems about ConnectionManager, for every set of threads, whatever    *)
(* operations they call, and every set of files and sessions.              *)
(*                                                                         *)
(* The invariant is IndInv.  The four lemmas TypeStep, LabelsStep,         *)
(* LocksStep and OrphansStep show that each of its parts survives a step,  *)
(* with one case per action of the specification.                          *)
(* Of a manager with one caller, SoloInv says more.  Last, the manager is  *)
(* shown to implement QueryService, from IndInv and from what a step does  *)
(* to one query and to the sessions (QueryMoves, SessionMoves).            *)
(***************************************************************************)
EXTENDS ConnectionManager, TLAPS

\* An empty cache of file handles has the type of a cache.
LEMMA NoHandlesType == NoHandles \in [Files -> Sessions \cup {None}]
  BY DEF NoHandles

\* What forgetting the connection leaves has the type of what it was.
LEMMA ForgetType ==
  ASSUME ForgetConnection
  PROVE  /\ session' \in Sessions \cup {None}
         /\ connections' \in BOOLEAN
         /\ in_transaction' \in BOOLEAN
         /\ open_files' \in [Files -> Sessions \cup {None}]
  BY NoHandlesType DEF ForgetConnection

\* So has what is left of a session that is taken for dead.
LEMMA DiscardType ==
  ASSUME TypeOK, DiscardSession
  PROVE  /\ session' \in Sessions \cup {None}
         /\ connections' \in BOOLEAN
         /\ in_transaction' \in BOOLEAN
         /\ open_files' \in [Files -> Sessions \cup {None}]
         /\ status' \in [Sessions -> {"unused", "open", "adrift", "dropped", "closed"}]
         /\ dbTx' \subseteq Sessions
         /\ by_tool' \in BOOLEAN
<1>1. ForgetConnection /\ (UNCHANGED server \/ LoseSession(session))
  BY DEF DiscardSession
<1>2. CASE UNCHANGED server
  BY <1>1, <1>2, ForgetType DEF server, TypeOK
<1>3. CASE LoseSession(session)
  <2>1. \A s \in Sessions : status'[s] \in {"unused", "open", "adrift", "dropped", "closed"}
    BY <1>3 DEF LoseSession, TypeOK
  <2>2. QED
    BY <1>1, <1>3, <2>1, ForgetType DEF LoseSession, TypeOK
<1>4. QED
  BY <1>1, <1>2, <1>3

\* Every step keeps the shape of every variable.
LEMMA TypeStep ==
  TypeOK /\ [Next]_vars => TypeOK'
<1> SUFFICES ASSUME TypeOK, [Next]_vars PROVE TypeOK'
  OBVIOUS
<1> USE NoneAssumption, OpsOfAssumption DEF TypeOK, Labels, Ops, SessionOps, FileOps, manager, locks, server, wire, local
<1>1. ASSUME NEW t \in Threads, ExecuteCommand(t) PROVE TypeOK'
  BY <1>1, NoHandlesType DEF ExecuteCommand, Call, Goto
<1>2. ASSUME NEW t \in Threads, ForceDisconnect(t) PROVE TypeOK'
  BY <1>2, NoHandlesType DEF ForceDisconnect, Call, Goto
<1>3. ASSUME NEW t \in Threads, ReadRecord(t) PROVE TypeOK'
  BY <1>3, NoHandlesType DEF ReadRecord, UseFile, Call, Goto
<1>4. ASSUME NEW t \in Threads, WriteRecord(t) PROVE TypeOK'
  BY <1>4, NoHandlesType DEF WriteRecord, UseFile, Call, Goto
<1>5. ASSUME NEW t \in Threads, CreateSelectList(t) PROVE TypeOK'
  BY <1>5, NoHandlesType DEF CreateSelectList, Call, Goto
<1>6. ASSUME NEW t \in Threads, BeginTransaction(t) PROVE TypeOK'
  BY <1>6, NoHandlesType DEF BeginTransaction, Call, Answer, Goto
<1>7. ASSUME NEW t \in Threads, CommitTransaction(t) PROVE TypeOK'
  BY <1>7, NoHandlesType DEF CommitTransaction, EndTransaction, Call, Answer, Goto
<1>8. ASSUME NEW t \in Threads, RollbackTransaction(t) PROVE TypeOK'
  BY <1>8, NoHandlesType DEF RollbackTransaction, EndTransaction, Call, Answer, Goto
<1>9. ASSUME NEW t \in Threads, Connect(t) PROVE TypeOK'
  BY <1>9, NoHandlesType DEF Connect, Call, Answer, Goto
<1>10. ASSUME NEW t \in Threads, Disconnect(t) PROVE TypeOK'
  <2>1. CASE UNCHANGED manager /\ Answer(t, "disconnect", "error") /\ UNCHANGED server
    BY <1>10, <2>1 DEF Disconnect, Answer
  <2>2. CASE session # None /\ Call(t, "disconnect", None, "dc_reset") /\ CloseSession(session)
             /\ open_files' = NoHandles /\ UNCHANGED <<mine, session, connections, in_transaction>>
    BY <1>10, <2>2, NoHandlesType DEF Disconnect, Call, Goto, CloseSession
  <2>3. CASE Answer(t, "disconnect", "error") /\ open_files' = NoHandles
             /\ UNCHANGED <<session, connections, in_transaction, server>>
    BY <1>10, <2>3, NoHandlesType DEF Disconnect, Answer
  <2>4. QED
    BY <1>10, <2>1, <2>2, <2>3 DEF Disconnect
<1>11. ASSUME NEW t \in Threads, HealthCheck(t) PROVE TypeOK'
  BY <1>11, NoHandlesType DEF HealthCheck, Call, Answer, Goto
<1>12. ASSUME NEW t \in Threads, DialReturns(t) PROVE TypeOK'
  <2>1. CASE DialSucceeds(op[t])
    BY <1>12, <2>1 DEF DialReturns, DialSucceeds, DialFails, LeaveCommandLock, Finish, Goto
  <2>2. CASE DialFails /\ Finish(t, "error") /\ session_lock' = None /\ LeaveCommandLock(t)
    BY <1>12, <2>2 DEF DialReturns, DialSucceeds, DialFails, LeaveCommandLock, Finish, Goto
  <2>3. QED
    BY <1>12, <2>1, <2>2 DEF DialReturns
<1>13. ASSUME NEW t \in Threads, VerifySession(t) PROVE TypeOK'
  <2>1. CASE ReturnSession(t) /\ session_lock' = None /\ UNCHANGED <<manager, server>>
    BY <1>13, <2>1 DEF VerifySession, ReturnSession, Continue, Goto
  <2>2. CASE DiscardSession /\ Goto(t, "dial_lost") /\ UNCHANGED <<op, arg, mine, reply, session_lock>>
    <3>1. UNCHANGED <<command_lock, wire>>
      BY <1>13 DEF VerifySession
    <3>2. QED
      BY <2>2, <3>1, DiscardType DEF Goto
  <2>3. QED
    BY <1>13, <2>1, <2>2 DEF VerifySession
<1>14. ASSUME NEW t \in Threads, SessionEstablished(t) PROVE TypeOK'
  BY <1>14, NoHandlesType DEF SessionEstablished, ReturnSession, Continue, LeaveCommandLock, Finish, Goto
<1>15. ASSUME NEW t \in Threads, StartCommand(t) PROVE TypeOK'
  BY <1>15, NoHandlesType DEF StartCommand, Goto
<1>16. ASSUME NEW t \in Threads, CommandReturns(t) PROVE TypeOK'
  BY <1>16, NoHandlesType DEF CommandReturns, LeaveCommandLock, Finish, Goto
<1>17. ASSUME NEW t \in Threads, AbandonCommand(t) PROVE TypeOK'
  BY <1>17, NoHandlesType DEF AbandonCommand, Goto
<1>18. ASSUME NEW t \in Threads, ForceClose(t) PROVE TypeOK'
  <2>1. CASE session = None
    <3>1. \E r \in {"timeout", "ok"} : Finish(t, r)
      BY <1>18, <2>1 DEF ForceClose, ForceDone
    <3>2. command_lock' \in Threads \cup {None}
      BY <1>18, <2>1 DEF ForceClose, ForceDone, LeaveCommandLock
    <3>3. ForgetConnection /\ UNCHANGED <<server, session_lock, wire>>
      BY <1>18, <2>1 DEF ForceClose
    <3>4. QED
      BY <3>1, <3>2, <3>3, ForgetType DEF Finish, Goto
  <2>2. CASE session # None
    <3>1. CloseSession(session) \/ LoseSession(session)
      BY <1>18, <2>2 DEF ForceClose
    <3>2. /\ status' \in [Sessions -> {"unused", "open", "adrift", "dropped", "closed"}]
          /\ dbTx' \subseteq Sessions /\ by_tool' \in BOOLEAN
      BY <2>2, <3>1 DEF CloseSession, LoseSession
    <3>3. QED
      BY <1>18, <2>2, <3>2 DEF ForceClose, Goto
  <2>3. QED
    BY <1>18, <2>1, <2>2 DEF ForceClose
<1>19. ASSUME NEW t \in Threads, ForceReset(t) PROVE TypeOK'
  BY <1>19, NoHandlesType DEF ForceReset, ForgetConnection, ForceDone, LeaveCommandLock, Finish, Goto
<1>20. ASSUME NEW t \in Threads, FileOpened(t) PROVE TypeOK'
  BY <1>20, NoHandlesType DEF FileOpened, Finish, Goto
<1>21. ASSUME NEW t \in Threads, CallTakesEffect(t) PROVE TypeOK'
  BY <1>21, NoHandlesType DEF CallTakesEffect, Goto, IsActive, TxEffect
<1>22. ASSUME NEW t \in Threads, CallReturns(t) PROVE TypeOK'
  BY <1>22, NoHandlesType DEF CallReturns, Finish, Goto
<1>23. ASSUME NEW t \in Threads, ConnectReturns(t) PROVE TypeOK'
  <2>1. CASE DialSucceeds("connect") /\ Finish(t, "ok")
    BY <1>23, <2>1 DEF ConnectReturns, DialSucceeds, DialFails, Finish, Goto
  <2>2. CASE DialFails /\ Finish(t, "error")
    BY <1>23, <2>2 DEF ConnectReturns, DialSucceeds, DialFails, Finish, Goto
  <2>3. QED
    BY <1>23, <2>1, <2>2 DEF ConnectReturns
<1>24. ASSUME NEW t \in Threads, DisconnectReset(t) PROVE TypeOK'
  <2>1. CASE in_transaction' = FALSE /\ Finish(t, "ok")
    BY <1>24, <2>1 DEF DisconnectReset, Finish, Goto
  <2>2. CASE UNCHANGED in_transaction /\ Finish(t, "error")
    BY <1>24, <2>2 DEF DisconnectReset, Finish, Goto
  <2>3. QED
    BY <1>24, <2>1, <2>2 DEF DisconnectReset
<1>25. ASSUME NEW t \in Threads, TakeCommandLock(t) PROVE TypeOK'
  BY <1>25, NoHandlesType DEF TakeCommandLock, Goto
<1>26. ASSUME NEW t \in Threads, GetSession(t) PROVE TypeOK'
  <2>1. CASE ReturnSession(t) /\ UNCHANGED <<manager, server, session_lock>>
    BY <1>26, <2>1 DEF GetSession, ReturnSession, Continue, Goto
  <2>2. CASE /\ DiscardSession /\ session_lock' = t /\ UNCHANGED <<op, arg, mine, reply>>
             /\ Goto(t, IF session = None THEN "dial_absent" ELSE "dial_lost")
    <3>1. pc' = [pc EXCEPT ![t] = "dial_absent"] \/ pc' = [pc EXCEPT ![t] = "dial_lost"]
      BY <2>2 DEF Goto
    <3>2. UNCHANGED <<command_lock, wire>>
      BY <1>26 DEF GetSession
    <3>3. QED
      BY <2>2, <3>1, <3>2, DiscardType
  <2>3. QED
    BY <1>26, <2>1, <2>2 DEF GetSession
<1>27. ASSUME NEW t \in Threads, WorkerCompletes(t) PROVE TypeOK'
  BY <1>27, NoHandlesType DEF WorkerCompletes, IsActive
<1>28. ASSUME NEW t \in Threads, HealthCheckReturns(t) PROVE TypeOK'
  BY <1>28, NoHandlesType DEF HealthCheckReturns, Finish, Goto, IsActive
<1>29. ASSUME NEW s \in Sessions, OrphanEnds(s) PROVE TypeOK'
  BY <1>29 DEF OrphanEnds
<1>30. ASSUME NEW s \in Sessions, SessionDrops(s) PROVE TypeOK'
  BY <1>30 DEF SessionDrops
<1>31. CASE UNCHANGED vars
  BY <1>31 DEF vars
<1>32. QED
  BY <1>1, <1>2, <1>3, <1>4, <1>5, <1>6, <1>7, <1>8, <1>9, <1>10, <1>11, <1>12, <1>13, <1>14, <1>15, <1>16, <1>17, <1>18, <1>19, <1>20, <1>21, <1>22, <1>23, <1>24, <1>25, <1>26, <1>27, <1>28, <1>29, <1>30, <1>31 DEF Next, Calls, Steps, OwnSteps, DriverReturns
\* Every step keeps a thread's label in accord with its operation, and a command
\* in flight only while a thread waits for it.
LEMMA LabelsStep ==
  TypeOK /\ LabelsFit /\ [Next]_vars => LabelsFit'
<1> SUFFICES ASSUME TypeOK /\ LabelsFit, [Next]_vars PROVE LabelsFit'
  OBVIOUS
<1> USE NoneAssumption, OpsOfAssumption DEF TypeOK, LabelsFit, QueryLabels, manager, locks, server, wire, local
<1>0. ASSUME NEW t \in Threads, ReturnSession(t), pc[t] \in {"gs_lock", "verify", "established"}, UNCHANGED wire
      PROVE  LabelsFit'
  <2>1. /\ op' = op /\ running' = running /\ running[t] = None
        /\ pc' = [pc EXCEPT ![t] = Continue(op[t])]
        /\ \A u \in Threads \ {t} : mine'[u] = mine[u]
    BY <1>0 DEF ReturnSession, Goto
  <2>2. CASE op[t] = "command"
    <3>1. Continue(op[t]) = "start"
      BY <2>2 DEF Continue, FileOps
    <3>2. QED
      BY <2>1, <2>2, <3>1
  <2>3. CASE op[t] # "command"
    <3>1. Continue(op[t]) \in {"filing", "calling"}
      BY <2>3 DEF Continue, FileOps
    <3>2. QED
      BY <2>1, <2>3, <3>1
  <2>4. QED
    BY <2>2, <2>3
<1>1. ASSUME NEW t \in Threads, ExecuteCommand(t) PROVE LabelsFit'
  BY <1>1 DEF ExecuteCommand, Call, Goto
<1>2. ASSUME NEW t \in Threads, ForceDisconnect(t) PROVE LabelsFit'
  BY <1>2 DEF ForceDisconnect, Call, Goto
<1>3. ASSUME NEW t \in Threads, ReadRecord(t) PROVE LabelsFit'
  BY <1>3 DEF ReadRecord, UseFile, Call, Goto
<1>4. ASSUME NEW t \in Threads, WriteRecord(t) PROVE LabelsFit'
  BY <1>4 DEF WriteRecord, UseFile, Call, Goto
<1>5. ASSUME NEW t \in Threads, CreateSelectList(t) PROVE LabelsFit'
  BY <1>5 DEF CreateSelectList, Call, Goto
<1>6. ASSUME NEW t \in Threads, BeginTransaction(t) PROVE LabelsFit'
  BY <1>6 DEF BeginTransaction, Call, Answer, Goto
<1>7. ASSUME NEW t \in Threads, CommitTransaction(t) PROVE LabelsFit'
  BY <1>7 DEF CommitTransaction, EndTransaction, Call, Answer, Goto
<1>8. ASSUME NEW t \in Threads, RollbackTransaction(t) PROVE LabelsFit'
  BY <1>8 DEF RollbackTransaction, EndTransaction, Call, Answer, Goto
<1>9. ASSUME NEW t \in Threads, Connect(t) PROVE LabelsFit'
  BY <1>9 DEF Connect, Call, Answer, Goto
<1>10. ASSUME NEW t \in Threads, Disconnect(t) PROVE LabelsFit'
  BY <1>10 DEF Disconnect, Call, Answer, Goto, ForgetConnection, CloseSession, NoHandles
<1>11. ASSUME NEW t \in Threads, HealthCheck(t) PROVE LabelsFit'
  BY <1>11 DEF HealthCheck, Call, Answer, Goto
<1>12. ASSUME NEW t \in Threads, DialReturns(t) PROVE LabelsFit'
  BY <1>12 DEF DialReturns, DialSucceeds, DialFails, LeaveCommandLock, Finish, Goto
<1>13. ASSUME NEW t \in Threads, VerifySession(t) PROVE LabelsFit'
  <2>1. CASE ReturnSession(t)
    BY <1>13, <2>1, <1>0 DEF VerifySession
  <2>2. CASE Goto(t, "dial_lost") /\ UNCHANGED <<op, arg, mine, reply>>
    BY <1>13, <2>2 DEF VerifySession, Goto
  <2>3. QED
    BY <1>13, <2>1, <2>2 DEF VerifySession
<1>14. ASSUME NEW t \in Threads, SessionEstablished(t) PROVE LabelsFit'
  <2>1. CASE ReturnSession(t)
    BY <1>14, <2>1, <1>0 DEF SessionEstablished
  <2>2. CASE Finish(t, "error")
    BY <1>14, <2>2 DEF SessionEstablished, Finish, Goto
  <2>3. QED
    BY <1>14, <2>1, <2>2 DEF SessionEstablished
<1>15. ASSUME NEW t \in Threads, StartCommand(t) PROVE LabelsFit'
  BY <1>15 DEF StartCommand, Goto
<1>16. ASSUME NEW t \in Threads, CommandReturns(t) PROVE LabelsFit'
  BY <1>16 DEF CommandReturns, LeaveCommandLock, Finish, Goto
<1>17. ASSUME NEW t \in Threads, AbandonCommand(t) PROVE LabelsFit'
  BY <1>17 DEF AbandonCommand, Goto
<1>18. ASSUME NEW t \in Threads, ForceClose(t) PROVE LabelsFit'
  BY <1>18 DEF ForceClose, ForgetConnection, NoHandles, ForceDone, LeaveCommandLock, Finish, Goto, CloseSession, LoseSession
<1>19. ASSUME NEW t \in Threads, ForceReset(t) PROVE LabelsFit'
  BY <1>19 DEF ForceReset, ForgetConnection, NoHandles, ForceDone, LeaveCommandLock, Finish, Goto
<1>20. ASSUME NEW t \in Threads, FileOpened(t) PROVE LabelsFit'
  <2>1. CASE Goto(t, "calling") /\ UNCHANGED <<op, mine>>
    BY <1>20, <2>1 DEF FileOpened, Goto
  <2>2. CASE Finish(t, "error")
    BY <1>20, <2>2 DEF FileOpened, Finish, Goto
  <2>3. QED
    BY <1>20, <2>1, <2>2 DEF FileOpened
<1>21. ASSUME NEW t \in Threads, CallTakesEffect(t) PROVE LabelsFit'
  BY <1>21 DEF CallTakesEffect, Goto, IsActive, TxEffect
<1>22. ASSUME NEW t \in Threads, CallReturns(t) PROVE LabelsFit'
  BY <1>22 DEF CallReturns, Finish, Goto
<1>23. ASSUME NEW t \in Threads, ConnectReturns(t) PROVE LabelsFit'
  BY <1>23 DEF ConnectReturns, DialSucceeds, DialFails, Finish, Goto
<1>24. ASSUME NEW t \in Threads, DisconnectReset(t) PROVE LabelsFit'
  BY <1>24 DEF DisconnectReset, Finish, Goto
<1>25. ASSUME NEW t \in Threads, TakeCommandLock(t) PROVE LabelsFit'
  BY <1>25 DEF TakeCommandLock, Goto
<1>26. ASSUME NEW t \in Threads, GetSession(t) PROVE LabelsFit'
  <2>1. CASE ReturnSession(t)
    BY <1>26, <2>1, <1>0 DEF GetSession
  <2>2. CASE Goto(t, IF session = None THEN "dial_absent" ELSE "dial_lost") /\ UNCHANGED <<op, arg, mine, reply>>
    BY <1>26, <2>2 DEF GetSession, Goto
  <2>3. QED
    BY <1>26, <2>1, <2>2 DEF GetSession
<1>27. ASSUME NEW t \in Threads, WorkerCompletes(t) PROVE LabelsFit'
  BY <1>27 DEF WorkerCompletes, IsActive
<1>28. ASSUME NEW t \in Threads, HealthCheckReturns(t) PROVE LabelsFit'
  BY <1>28 DEF HealthCheckReturns, Finish, Goto, IsActive
<1>29. ASSUME NEW s \in Sessions, OrphanEnds(s) PROVE LabelsFit'
  BY <1>29 DEF OrphanEnds
<1>30. ASSUME NEW s \in Sessions, SessionDrops(s) PROVE LabelsFit'
  BY <1>30 DEF SessionDrops
<1>31. CASE UNCHANGED vars
  BY <1>31 DEF vars
<1>32. QED
  BY <1>1, <1>2, <1>3, <1>4, <1>5, <1>6, <1>7, <1>8, <1>9, <1>10, <1>11, <1>12, <1>13, <1>14, <1>15, <1>16, <1>17, <1>18, <1>19, <1>20, <1>21, <1>22, <1>23, <1>24, <1>25, <1>26, <1>27, <1>28, <1>29, <1>30, <1>31 DEF Next, Calls, Steps, OwnSteps, DriverReturns
\* Every step keeps the locks with the threads that are inside them.
LEMMA LocksStep ==
  TypeOK /\ LocksHeld /\ [Next]_vars => LocksHeld'
<1> SUFFICES ASSUME TypeOK /\ LocksHeld, [Next]_vars PROVE LocksHeld'
  OBVIOUS
<1> USE NoneAssumption, OpsOfAssumption DEF TypeOK, LocksHeld, Querying, Dialing, manager, locks, server, wire, local
<1>1. ASSUME NEW t \in Threads, ExecuteCommand(t) PROVE LocksHeld'
  BY <1>1 DEF ExecuteCommand, Call, Goto
<1>2. ASSUME NEW t \in Threads, ForceDisconnect(t) PROVE LocksHeld'
  BY <1>2 DEF ForceDisconnect, Call, Goto
<1>3. ASSUME NEW t \in Threads, ReadRecord(t) PROVE LocksHeld'
  BY <1>3 DEF ReadRecord, UseFile, Call, Goto
<1>4. ASSUME NEW t \in Threads, WriteRecord(t) PROVE LocksHeld'
  BY <1>4 DEF WriteRecord, UseFile, Call, Goto
<1>5. ASSUME NEW t \in Threads, CreateSelectList(t) PROVE LocksHeld'
  BY <1>5 DEF CreateSelectList, Call, Goto
<1>6. ASSUME NEW t \in Threads, BeginTransaction(t) PROVE LocksHeld'
  BY <1>6 DEF BeginTransaction, Call, Answer, Goto
<1>7. ASSUME NEW t \in Threads, CommitTransaction(t) PROVE LocksHeld'
  BY <1>7 DEF CommitTransaction, EndTransaction, Call, Answer, Goto
<1>8. ASSUME NEW t \in Threads, RollbackTransaction(t) PROVE LocksHeld'
  BY <1>8 DEF RollbackTransaction, EndTransaction, Call, Answer, Goto
<1>9. ASSUME NEW t \in Threads, Connect(t) PROVE LocksHeld'
  BY <1>9 DEF Connect, Call, Answer, Goto
<1>10. ASSUME NEW t \in Threads, Disconnect(t) PROVE LocksHeld'
  BY <1>10 DEF Disconnect, Call, Answer, Goto, ForgetConnection, CloseSession, NoHandles
<1>11. ASSUME NEW t \in Threads, HealthCheck(t) PROVE LocksHeld'
  BY <1>11 DEF HealthCheck, Call, Answer, Goto
<1>12. ASSUME NEW t \in Threads, DialReturns(t) PROVE LocksHeld'
  BY <1>12 DEF DialReturns, DialSucceeds, DialFails, LeaveCommandLock, Finish, Goto
<1>13. ASSUME NEW t \in Threads, VerifySession(t) PROVE LocksHeld'
  BY <1>13 DEF VerifySession, IsActive, ReturnSession, Continue, DiscardSession, LoseSession, ForgetConnection, NoHandles, Goto
<1>14. ASSUME NEW t \in Threads, SessionEstablished(t) PROVE LocksHeld'
  BY <1>14 DEF SessionEstablished, ReturnSession, Continue, LeaveCommandLock, Finish, Goto
<1>15. ASSUME NEW t \in Threads, StartCommand(t) PROVE LocksHeld'
  BY <1>15 DEF StartCommand, Goto
<1>16. ASSUME NEW t \in Threads, CommandReturns(t) PROVE LocksHeld'
  BY <1>16 DEF CommandReturns, LeaveCommandLock, Finish, Goto
<1>17. ASSUME NEW t \in Threads, AbandonCommand(t) PROVE LocksHeld'
  BY <1>17 DEF AbandonCommand, Goto
<1>18. ASSUME NEW t \in Threads, ForceClose(t) PROVE LocksHeld'
  BY <1>18 DEF ForceClose, ForgetConnection, NoHandles, ForceDone, LeaveCommandLock, Finish, Goto, CloseSession, LoseSession
<1>19. ASSUME NEW t \in Threads, ForceReset(t) PROVE LocksHeld'
  BY <1>19 DEF ForceReset, ForgetConnection, NoHandles, ForceDone, LeaveCommandLock, Finish, Goto
<1>20. ASSUME NEW t \in Threads, FileOpened(t) PROVE LocksHeld'
  BY <1>20 DEF FileOpened, Finish, Goto
<1>21. ASSUME NEW t \in Threads, CallTakesEffect(t) PROVE LocksHeld'
  BY <1>21 DEF CallTakesEffect, Goto, IsActive, TxEffect
<1>22. ASSUME NEW t \in Threads, CallReturns(t) PROVE LocksHeld'
  BY <1>22 DEF CallReturns, Finish, Goto
<1>23. ASSUME NEW t \in Threads, ConnectReturns(t) PROVE LocksHeld'
  BY <1>23 DEF ConnectReturns, DialSucceeds, DialFails, Finish, Goto
<1>24. ASSUME NEW t \in Threads, DisconnectReset(t) PROVE LocksHeld'
  BY <1>24 DEF DisconnectReset, Finish, Goto
<1>25. ASSUME NEW t \in Threads, TakeCommandLock(t) PROVE LocksHeld'
  BY <1>25 DEF TakeCommandLock, Goto
<1>26. ASSUME NEW t \in Threads, GetSession(t) PROVE LocksHeld'
  BY <1>26 DEF GetSession, IsActive, ReturnSession, Continue, DiscardSession, LoseSession, ForgetConnection, NoHandles, Goto
<1>27. ASSUME NEW t \in Threads, WorkerCompletes(t) PROVE LocksHeld'
  BY <1>27 DEF WorkerCompletes, IsActive
<1>28. ASSUME NEW t \in Threads, HealthCheckReturns(t) PROVE LocksHeld'
  BY <1>28 DEF HealthCheckReturns, Finish, Goto, IsActive
<1>29. ASSUME NEW s \in Sessions, OrphanEnds(s) PROVE LocksHeld'
  BY <1>29 DEF OrphanEnds
<1>30. ASSUME NEW s \in Sessions, SessionDrops(s) PROVE LocksHeld'
  BY <1>30 DEF SessionDrops
<1>31. CASE UNCHANGED vars
  BY <1>31 DEF vars
<1>32. QED
  BY <1>1, <1>2, <1>3, <1>4, <1>5, <1>6, <1>7, <1>8, <1>9, <1>10, <1>11, <1>12, <1>13, <1>14, <1>15, <1>16, <1>17, <1>18, <1>19, <1>20, <1>21, <1>22, <1>23, <1>24, <1>25, <1>26, <1>27, <1>28, <1>29, <1>30, <1>31 DEF Next, Calls, Steps, OwnSteps, DriverReturns
\* No step hands a session on which an abandoned query may still run to a query
\* that starts: the session is given up before the command lock is.
LEMMA OrphansStep ==
  TypeOK /\ LabelsFit /\ LocksHeld /\ OrphansRetired /\ [Next]_vars => OrphansRetired'
<1> SUFFICES ASSUME TypeOK /\ LabelsFit /\ LocksHeld /\ OrphansRetired, [Next]_vars PROVE OrphansRetired'
  OBVIOUS
<1> USE NoneAssumption, OpsOfAssumption DEF TypeOK, LabelsFit, LocksHeld, OrphansRetired, Querying, Abandoning, manager, locks, server, wire, local
<1>1. ASSUME NEW t \in Threads, ExecuteCommand(t) PROVE OrphansRetired'
  BY <1>1 DEF ExecuteCommand, Call, Goto
<1>2. ASSUME NEW t \in Threads, ForceDisconnect(t) PROVE OrphansRetired'
  BY <1>2 DEF ForceDisconnect, Call, Goto
<1>3. ASSUME NEW t \in Threads, ReadRecord(t) PROVE OrphansRetired'
  BY <1>3 DEF ReadRecord, UseFile, Call, Goto
<1>4. ASSUME NEW t \in Threads, WriteRecord(t) PROVE OrphansRetired'
  BY <1>4 DEF WriteRecord, UseFile, Call, Goto
<1>5. ASSUME NEW t \in Threads, CreateSelectList(t) PROVE OrphansRetired'
  BY <1>5 DEF CreateSelectList, Call, Goto
<1>6. ASSUME NEW t \in Threads, BeginTransaction(t) PROVE OrphansRetired'
  BY <1>6 DEF BeginTransaction, Call, Answer, Goto
<1>7. ASSUME NEW t \in Threads, CommitTransaction(t) PROVE OrphansRetired'
  BY <1>7 DEF CommitTransaction, EndTransaction, Call, Answer, Goto
<1>8. ASSUME NEW t \in Threads, RollbackTransaction(t) PROVE OrphansRetired'
  BY <1>8 DEF RollbackTransaction, EndTransaction, Call, Answer, Goto
<1>9. ASSUME NEW t \in Threads, Connect(t) PROVE OrphansRetired'
  BY <1>9 DEF Connect, Call, Answer, Goto
<1>10. ASSUME NEW t \in Threads, Disconnect(t) PROVE OrphansRetired'
  BY <1>10 DEF Disconnect, Call, Answer, Goto, ForgetConnection, CloseSession, NoHandles
<1>11. ASSUME NEW t \in Threads, HealthCheck(t) PROVE OrphansRetired'
  BY <1>11 DEF HealthCheck, Call, Answer, Goto
<1>12. ASSUME NEW t \in Threads, DialReturns(t) PROVE OrphansRetired'
  BY <1>12 DEF DialReturns, DialSucceeds, DialFails, LeaveCommandLock, Finish, Goto
<1>13. ASSUME NEW t \in Threads, VerifySession(t) PROVE OrphansRetired'
  BY <1>13 DEF VerifySession, IsActive, ReturnSession, Continue, DiscardSession, LoseSession, ForgetConnection, NoHandles, Goto
<1>14. ASSUME NEW t \in Threads, SessionEstablished(t) PROVE OrphansRetired'
  BY <1>14 DEF SessionEstablished, ReturnSession, Continue, LeaveCommandLock, Finish, Goto
<1>15. ASSUME NEW t \in Threads, StartCommand(t) PROVE OrphansRetired'
  BY <1>15 DEF StartCommand, Goto
<1>16. ASSUME NEW t \in Threads, CommandReturns(t) PROVE OrphansRetired'
  BY <1>16 DEF CommandReturns, LeaveCommandLock, Finish, Goto
<1>17. ASSUME NEW t \in Threads, AbandonCommand(t) PROVE OrphansRetired'
  BY <1>17 DEF AbandonCommand, Goto
<1>18. ASSUME NEW t \in Threads, ForceClose(t) PROVE OrphansRetired'
  BY <1>18 DEF ForceClose, ForgetConnection, NoHandles, ForceDone, LeaveCommandLock, Finish, Goto, CloseSession, LoseSession
<1>19. ASSUME NEW t \in Threads, ForceReset(t) PROVE OrphansRetired'
  BY <1>19 DEF ForceReset, ForgetConnection, NoHandles, ForceDone, LeaveCommandLock, Finish, Goto
<1>20. ASSUME NEW t \in Threads, FileOpened(t) PROVE OrphansRetired'
  BY <1>20 DEF FileOpened, Finish, Goto
<1>21. ASSUME NEW t \in Threads, CallTakesEffect(t) PROVE OrphansRetired'
  BY <1>21 DEF CallTakesEffect, Goto, IsActive, TxEffect
<1>22. ASSUME NEW t \in Threads, CallReturns(t) PROVE OrphansRetired'
  BY <1>22 DEF CallReturns, Finish, Goto
<1>23. ASSUME NEW t \in Threads, ConnectReturns(t) PROVE OrphansRetired'
  BY <1>23 DEF ConnectReturns, DialSucceeds, DialFails, Finish, Goto
<1>24. ASSUME NEW t \in Threads, DisconnectReset(t) PROVE OrphansRetired'
  BY <1>24 DEF DisconnectReset, Finish, Goto
<1>25. ASSUME NEW t \in Threads, TakeCommandLock(t) PROVE OrphansRetired'
  BY <1>25 DEF TakeCommandLock, Goto
<1>26. ASSUME NEW t \in Threads, GetSession(t) PROVE OrphansRetired'
  BY <1>26 DEF GetSession, IsActive, ReturnSession, Continue, DiscardSession, LoseSession, ForgetConnection, NoHandles, Goto
<1>27. ASSUME NEW t \in Threads, WorkerCompletes(t) PROVE OrphansRetired'
  BY <1>27 DEF WorkerCompletes, IsActive
<1>28. ASSUME NEW t \in Threads, HealthCheckReturns(t) PROVE OrphansRetired'
  BY <1>28 DEF HealthCheckReturns, Finish, Goto, IsActive
<1>29. ASSUME NEW s \in Sessions, OrphanEnds(s) PROVE OrphansRetired'
  BY <1>29 DEF OrphanEnds
<1>30. ASSUME NEW s \in Sessions, SessionDrops(s) PROVE OrphansRetired'
  BY <1>30 DEF SessionDrops
<1>31. CASE UNCHANGED vars
  BY <1>31 DEF vars
<1>32. QED
  BY <1>1, <1>2, <1>3, <1>4, <1>5, <1>6, <1>7, <1>8, <1>9, <1>10, <1>11, <1>12, <1>13, <1>14, <1>15, <1>16, <1>17, <1>18, <1>19, <1>20, <1>21, <1>22, <1>23, <1>24, <1>25, <1>26, <1>27, <1>28, <1>29, <1>30, <1>31 DEF Next, Calls, Steps, OwnSteps, DriverReturns

-----------------------------------------------------------------------------
(* Every reachable state satisfies IndInv.                                 *)

\* A new manager satisfies the invariant.
LEMMA InitIndInv == Init => IndInv
<1> SUFFICES ASSUME Init PROVE IndInv
  OBVIOUS
<1>1. TypeOK
  BY NoHandlesType DEF Init, TypeOK, Labels
<1>2. LabelsFit /\ LocksHeld /\ OrphansRetired
  BY NoneAssumption DEF Init, LabelsFit, LocksHeld, OrphansRetired, Querying, Dialing
<1>3. QED
  BY <1>1, <1>2 DEF IndInv

\* The parts of the invariant, together, survive every step.
LEMMA StepIndInv == IndInv /\ [Next]_vars => IndInv'
  BY TypeStep, LabelsStep, LocksStep, OrphansStep DEF IndInv

\* Every caller of a manager stands where its locks say, and the query it gave up
\* is on a session that is being retired (connection.py, the two RLocks).
THEOREM ManagerInvariant == Spec => []IndInv
  BY InitIndInv, StepIndInv, PTL DEF Spec

\* Every reachable state of a manager is well typed, whoever calls it and
\* however many sessions are lost.
THEOREM ManagerTypeOK == Spec => []TypeOK
<1>1. IndInv => TypeOK
  BY DEF IndInv
<1>2. QED
  BY InitIndInv, StepIndInv, <1>1, PTL DEF Spec

\* No command of execute_command ever overlaps another one on its session, nor
\* an abandoned query that is still running.
THEOREM SerializedCommands == Spec => []CommandsAreSerialized
<1>1. IndInv => CommandsAreSerialized
  <2> SUFFICES ASSUME IndInv, NEW t \in Threads, op[t] = "command", running[t] # None
               PROVE  /\ running[t] \notin orphans
                      /\ \A u \in Threads \ {t} : op[u] = "command" => running[u] # running[t]
    BY DEF CommandsAreSerialized
  <2>1. pc[t] = "waiting" /\ running[t] = mine[t] /\ command_lock = t
    BY DEF IndInv, LabelsFit, LocksHeld, Querying
  <2>2. running[t] \notin orphans
    BY <2>1 DEF IndInv, OrphansRetired
  <2>3. ASSUME NEW u \in Threads \ {t}, op[u] = "command", running[u] = running[t]
        PROVE  FALSE
    <3>1. pc[u] = "waiting"
      BY <2>3 DEF IndInv, LabelsFit
    <3>2. command_lock = u
      BY <2>3, <3>1 DEF IndInv, LocksHeld, Querying
    <3>3. QED
      BY <2>1, <2>3, <3>2
  <2>4. QED
    BY <2>2, <2>3
<1>2. QED
  BY InitIndInv, StepIndInv, <1>1, PTL DEF Spec

-----------------------------------------------------------------------------
(* The connection record never outlives its session.                       *)

\* Every step that changes the session or its record changes both: it forgets
\* the connection or it opens a new one.
LEMMA RecordStep ==
  RecordTracksSession /\ [Next]_vars => RecordTracksSession'
<1> SUFFICES ASSUME RecordTracksSession, [Next]_vars PROVE RecordTracksSession'
  OBVIOUS
<1> USE NoneAssumption DEF RecordTracksSession, ForgetConnection, manager
<1>1. ASSUME NEW o, DialSucceeds(o) \/ DialFails PROVE RecordTracksSession'
  BY <1>1 DEF DialSucceeds, DialFails
<1>2. ASSUME NEW t \in Threads, Calls(t) PROVE RecordTracksSession'
  BY <1>2 DEF Calls, ExecuteCommand, ForceDisconnect, ReadRecord, WriteRecord, UseFile,
              CreateSelectList, BeginTransaction, CommitTransaction, RollbackTransaction,
              EndTransaction, Connect, Disconnect, HealthCheck
<1>3. ASSUME NEW t \in Threads, Steps(t) PROVE RecordTracksSession'
  <2>1. CASE DialReturns(t) \/ ConnectReturns(t)
    BY <2>1, <1>1 DEF DialReturns, ConnectReturns
  <2>2. CASE VerifySession(t) \/ SessionEstablished(t) \/ StartCommand(t) \/ CommandReturns(t)
             \/ AbandonCommand(t)
    BY <2>2 DEF VerifySession, SessionEstablished, StartCommand, CommandReturns, AbandonCommand,
         DiscardSession, LoseSession, ReturnSession
  <2>3. CASE ForceClose(t) \/ ForceReset(t) \/ DisconnectReset(t)
    BY <2>3 DEF ForceClose, ForceReset, DisconnectReset
  <2>4. CASE FileOpened(t) \/ CallTakesEffect(t) \/ CallReturns(t)
    BY <2>4 DEF FileOpened, CallTakesEffect, CallReturns
  <2>5. QED
    BY <1>3, <2>1, <2>2, <2>3, <2>4 DEF Steps, OwnSteps, DriverReturns
<1>4. ASSUME NEW t \in Threads, TakeCommandLock(t) \/ GetSession(t) \/ WorkerCompletes(t)
                               \/ HealthCheckReturns(t)
      PROVE  RecordTracksSession'
  BY <1>4 DEF TakeCommandLock, GetSession, WorkerCompletes, HealthCheckReturns, ReturnSession, DiscardSession, LoseSession
<1>5. ASSUME NEW s \in Sessions, OrphanEnds(s) \/ SessionDrops(s) PROVE RecordTracksSession'
  BY <1>5 DEF OrphanEnds, SessionDrops
<1>6. CASE UNCHANGED vars
  BY <1>6 DEF vars
<1>7. QED
  BY <1>2, <1>3, <1>4, <1>5, <1>6 DEF Next

\* A manager never keeps a connection record that says "active" without a
\* session behind it, so a lost connection never stops the next connect().
THEOREM NoStaleRecord == Spec => []RecordTracksSession
<1>1. Init => RecordTracksSession
  BY DEF Init, RecordTracksSession
<1>2. QED
  BY <1>1, RecordStep, PTL DEF Spec

-----------------------------------------------------------------------------
(* A burst of callers opens one session.                                   *)

\* Whoever dials in get_session holds the session lock, so only the connect tool
\* puts a session where it found none.
LEMMA BurstStep ==
  TypeOK /\ LocksHeld /\ BurstOpensOne /\ [Next]_vars => BurstOpensOne'
<1> SUFFICES ASSUME TypeOK /\ LocksHeld /\ BurstOpensOne, [Next]_vars,
                    NEW u \in Threads, Dialing(u)'
             PROVE  session' = None \/ by_tool'
  BY DEF BurstOpensOne, Dialing
<1> USE NoneAssumption DEF TypeOK, LocksHeld, BurstOpensOne, Dialing, ForgetConnection, manager, server
<1>1. ASSUME NEW t \in Threads, Calls(t) PROVE session' = None \/ by_tool'
  <2>1. pc[t] = "idle" /\ UNCHANGED <<session, by_tool>>
    BY <1>1 DEF Calls, ExecuteCommand, ForceDisconnect, ReadRecord, WriteRecord, UseFile,
              CreateSelectList, BeginTransaction, CommitTransaction, RollbackTransaction,
              EndTransaction, Connect, Disconnect, HealthCheck, CloseSession, Call, Answer
  <2>2. Dialing(u)
    BY <1>1 DEF Calls, ExecuteCommand, ForceDisconnect, ReadRecord, WriteRecord, UseFile,
              CreateSelectList, BeginTransaction, CommitTransaction, RollbackTransaction,
              EndTransaction, Connect, Disconnect, HealthCheck, Call, Answer, Goto
  <2>3. QED
    BY <2>1, <2>2
<1>2. ASSUME NEW t \in Threads, DialReturns(t) PROVE session' = None \/ by_tool'
  <2>1. u # t /\ Dialing(u)
    BY <1>2 DEF DialReturns, Goto, Finish
  <2>2. session_lock = t /\ session_lock = u
    BY <1>2, <2>1 DEF DialReturns
  <2>3. QED
    BY <2>1, <2>2
<1>3. ASSUME NEW t \in Threads, ConnectReturns(t) PROVE session' = None \/ by_tool'
  BY <1>3 DEF ConnectReturns, DialSucceeds, DialFails, Finish, Goto
<1>4. ASSUME NEW t \in Threads, VerifySession(t) \/ GetSession(t) PROVE session' = None \/ by_tool'
  BY <1>4 DEF VerifySession, GetSession, DiscardSession, ReturnSession, Continue, Goto
<1>5. ASSUME NEW t \in Threads,
             \/ SessionEstablished(t) \/ StartCommand(t) \/ CommandReturns(t) \/ AbandonCommand(t)
             \/ FileOpened(t) \/ CallTakesEffect(t) \/ CallReturns(t)
             \/ TakeCommandLock(t) \/ WorkerCompletes(t) \/ HealthCheckReturns(t)
      PROVE  session' = None \/ by_tool'
  <2>1. UNCHANGED <<session, by_tool>>
    BY <1>5 DEF SessionEstablished, StartCommand, CommandReturns, AbandonCommand, FileOpened,
                CallTakesEffect, CallReturns, TakeCommandLock, WorkerCompletes, HealthCheckReturns
  <2>2. Dialing(u)
    BY <1>5 DEF SessionEstablished, ReturnSession, Continue, StartCommand, CommandReturns, AbandonCommand, FileOpened,
                CallTakesEffect, CallReturns, TakeCommandLock, WorkerCompletes, HealthCheckReturns,
                Finish, Goto, local
  <2>3. QED
    BY <2>1, <2>2
<1>6. ASSUME NEW t \in Threads, ForceClose(t) \/ ForceReset(t) \/ DisconnectReset(t)
      PROVE  session' = None \/ by_tool'
  BY <1>6 DEF ForceClose, ForceReset, ForceDone, DisconnectReset, CloseSession, LoseSession, Finish, Goto
<1>7. ASSUME NEW s \in Sessions, OrphanEnds(s) \/ SessionDrops(s) PROVE session' = None \/ by_tool'
  BY <1>7 DEF OrphanEnds, SessionDrops, local
<1>8. CASE UNCHANGED vars
  BY <1>8 DEF vars, local
<1>9. QED
  BY <1>1, <1>2, <1>3, <1>4, <1>5, <1>6, <1>7, <1>8 DEF Next, Steps, OwnSteps, DriverReturns

\* However many callers find no session, or one that was lost, whatever they call
\* and whatever is torn down meanwhile: no get_session opens a session beside one
\* that another get_session has opened (connection.py, _session_lock).
THEOREM BurstOpensOneSession == Spec => []BurstOpensOne
<1>1. Init => BurstOpensOne
  BY DEF Init, BurstOpensOne
<1>2. IndInv /\ BurstOpensOne /\ [Next]_vars => BurstOpensOne'
  BY BurstStep DEF IndInv
<1>3. QED
  BY InitIndInv, StepIndInv, <1>1, <1>2, PTL DEF Spec

-----------------------------------------------------------------------------
(* A manager with one caller, as over stdio.                               *)

OneThread == \A t, u \in Threads : t = u

\* What the one thread holds of the session is true, wherever it stops: nobody
\* else changes the session, and the server can only drop it.
SoloInv ==
  /\ NoLeakedSession
  /\ HandlesBelongToSession
  /\ TransactionBelongsToSession
  /\ \A t \in Threads :
       /\ Dialing(t) \/ pc[t] = "ct_dial" => session = None
       /\ pc[t] \in {"filing", "calling", "returning", "start", "waiting"} =>
            mine[t] = session /\ session # None
       /\ pc[t] = "fd_close" /\ op[t] = "command" => mine[t] = session
       /\ pc[t] \in {"fd_reset", "dc_reset"} => session # None /\ status[session] # "open"
       /\ pc[t] = "dc_reset" => \A f \in Files : open_files[f] = None
       /\ pc[t] = "returning" /\ op[t] = "begin" /\ reply[t] = "ok" =>
            (IsActive(session) => session \in dbTx)
       /\ Ending(t) /\ reply[t] # "ok" /\ in_transaction =>
            (IsActive(session) => session \in dbTx)

\* A step of the one thread, or of the server, keeps SoloInv.
LEMMA SoloStep ==
  OneThread /\ IndInv /\ RecordTracksSession /\ SoloInv /\ [Next]_vars => SoloInv'
<1> SUFFICES ASSUME OneThread /\ IndInv /\ RecordTracksSession /\ SoloInv, [Next]_vars PROVE SoloInv'
  OBVIOUS
<1> USE NoneAssumption, OpsOfAssumption DEF IndInv, TypeOK, LabelsFit, OneThread, RecordTracksSession, SoloInv, SessionOps, FileOps, NoLeakedSession, HandlesBelongToSession, TransactionBelongsToSession, Ending, Dialing, IsActive, manager, locks, server, wire, local
<1>1. ASSUME NEW t \in Threads, ExecuteCommand(t) PROVE SoloInv'
  BY <1>1 DEF ExecuteCommand, Call, Goto
<1>2. ASSUME NEW t \in Threads, ForceDisconnect(t) PROVE SoloInv'
  BY <1>2 DEF ForceDisconnect, Call, Goto
<1>3. ASSUME NEW t \in Threads, ReadRecord(t) PROVE SoloInv'
  BY <1>3 DEF ReadRecord, UseFile, Call, Goto
<1>4. ASSUME NEW t \in Threads, WriteRecord(t) PROVE SoloInv'
  BY <1>4 DEF WriteRecord, UseFile, Call, Goto
<1>5. ASSUME NEW t \in Threads, CreateSelectList(t) PROVE SoloInv'
  BY <1>5 DEF CreateSelectList, Call, Goto
<1>6. ASSUME NEW t \in Threads, BeginTransaction(t) PROVE SoloInv'
  BY <1>6 DEF BeginTransaction, Call, Answer, Goto
<1>7. ASSUME NEW t \in Threads, CommitTransaction(t) PROVE SoloInv'
  BY <1>7 DEF CommitTransaction, EndTransaction, Call, Answer, Goto
<1>8. ASSUME NEW t \in Threads, RollbackTransaction(t) PROVE SoloInv'
  BY <1>8 DEF RollbackTransaction, EndTransaction, Call, Answer, Goto
<1>9. ASSUME NEW t \in Threads, Connect(t) PROVE SoloInv'
  BY <1>9 DEF Connect, Call, Answer, Goto
<1>10. ASSUME NEW t \in Threads, Disconnect(t) PROVE SoloInv'
  BY <1>10 DEF Disconnect, Call, Answer, Goto, ForgetConnection, CloseSession, NoHandles
<1>11. ASSUME NEW t \in Threads, HealthCheck(t) PROVE SoloInv'
  BY <1>11 DEF HealthCheck, Call, Answer, Goto
<1>12. ASSUME NEW t \in Threads, DialReturns(t) PROVE SoloInv'
  BY <1>12 DEF DialReturns, DialSucceeds, DialFails, LeaveCommandLock, Finish, Goto
<1>13. ASSUME NEW t \in Threads, VerifySession(t) PROVE SoloInv'
  BY <1>13 DEF VerifySession, IsActive, ReturnSession, Continue, DiscardSession, LoseSession, ForgetConnection, NoHandles, Goto
<1>14. ASSUME NEW t \in Threads, SessionEstablished(t) PROVE SoloInv'
  BY <1>14 DEF SessionEstablished, ReturnSession, Continue, LeaveCommandLock, Finish, Goto
<1>15. ASSUME NEW t \in Threads, StartCommand(t) PROVE SoloInv'
  BY <1>15 DEF StartCommand, Goto
<1>16. ASSUME NEW t \in Threads, CommandReturns(t) PROVE SoloInv'
  BY <1>16 DEF CommandReturns, LeaveCommandLock, Finish, Goto
<1>17. ASSUME NEW t \in Threads, AbandonCommand(t) PROVE SoloInv'
  BY <1>17 DEF AbandonCommand, Goto
<1>18. ASSUME NEW t \in Threads, ForceClose(t) PROVE SoloInv'
  BY <1>18 DEF ForceClose, ForgetConnection, NoHandles, ForceDone, LeaveCommandLock, Finish, Goto, CloseSession, LoseSession
<1>19. ASSUME NEW t \in Threads, ForceReset(t) PROVE SoloInv'
  BY <1>19 DEF ForceReset, ForgetConnection, NoHandles, ForceDone, LeaveCommandLock, Finish, Goto
<1>20. ASSUME NEW t \in Threads, FileOpened(t) PROVE SoloInv'
  BY <1>20 DEF FileOpened, Finish, Goto
<1>21. ASSUME NEW t \in Threads, CallTakesEffect(t) PROVE SoloInv'
  BY <1>21 DEF CallTakesEffect, Goto, IsActive, TxEffect
<1>22. ASSUME NEW t \in Threads, CallReturns(t) PROVE SoloInv'
  BY <1>22 DEF CallReturns, Finish, Goto
<1>23. ASSUME NEW t \in Threads, ConnectReturns(t) PROVE SoloInv'
  BY <1>23 DEF ConnectReturns, DialSucceeds, DialFails, Finish, Goto
<1>24. ASSUME NEW t \in Threads, DisconnectReset(t) PROVE SoloInv'
  BY <1>24 DEF DisconnectReset, Finish, Goto
<1>25. ASSUME NEW t \in Threads, TakeCommandLock(t) PROVE SoloInv'
  BY <1>25 DEF TakeCommandLock, Goto
<1>26. ASSUME NEW t \in Threads, GetSession(t) PROVE SoloInv'
  BY <1>26 DEF GetSession, IsActive, ReturnSession, Continue, DiscardSession, LoseSession, ForgetConnection, NoHandles, Goto
<1>27. ASSUME NEW t \in Threads, WorkerCompletes(t) PROVE SoloInv'
  BY <1>27 DEF WorkerCompletes, IsActive
<1>28. ASSUME NEW t \in Threads, HealthCheckReturns(t) PROVE SoloInv'
  BY <1>28 DEF HealthCheckReturns, Finish, Goto, IsActive
<1>29. ASSUME NEW s \in Sessions, OrphanEnds(s) PROVE SoloInv'
  BY <1>29 DEF OrphanEnds
<1>30. ASSUME NEW s \in Sessions, SessionDrops(s) PROVE SoloInv'
  BY <1>30 DEF SessionDrops
<1>31. CASE UNCHANGED vars
  BY <1>31 DEF vars
<1>32. QED
  BY <1>1, <1>2, <1>3, <1>4, <1>5, <1>6, <1>7, <1>8, <1>9, <1>10, <1>11, <1>12, <1>13, <1>14, <1>15, <1>16, <1>17, <1>18, <1>19, <1>20, <1>21, <1>22, <1>23, <1>24, <1>25, <1>26, <1>27, <1>28, <1>29, <1>30, <1>31 DEF Next, Calls, Steps, OwnSteps, DriverReturns

\* A new manager satisfies it, and what follows from it.
LEMMA SoloInit == Init => SoloInv /\ RecordTracksSession
BY NoneAssumption
   DEF Init, SoloInv, RecordTracksSession, NoLeakedSession, HandlesBelongToSession,
       TransactionBelongsToSession, Dialing, Ending, NoHandles

LEMMA SoloStops ==
  ASSUME OneThread, IndInv, SoloInv PROVE AbandonedWorkIsStopped
<1> SUFFICES ASSUME NEW s \in orphans, status[s] = "open"
             PROVE  \E t \in Threads : pc[t] = "fd_close" /\ op[t] = "command" /\ mine[t] = s
  BY DEF AbandonedWorkIsStopped
<1>1. s \in Sessions /\ s = session
  BY DEF IndInv, TypeOK, SoloInv, NoLeakedSession
<1>2. PICK t \in Threads : Abandoning(t)
  BY <1>1 DEF IndInv, OrphansRetired
<1>3. QED
  BY <1>1, <1>2 DEF Abandoning, SoloInv

\* With one caller, as over stdio, whatever it calls and whenever the server drops
\* the session: cached handles and the transaction flag belong to the session the
\* manager has.
THEOREM SoloStateBelongs ==
  ASSUME OneThread PROVE Spec => []StateBelongsToSession
<1>1. IndInv /\ RecordTracksSession /\ SoloInv /\ [Next]_vars => SoloInv'
  BY SoloStep, OneThread
<1>2. SoloInv => StateBelongsToSession
  BY DEF SoloInv, StateBelongsToSession
<1>3. QED
  BY InitIndInv, StepIndInv, RecordStep, SoloInit, <1>1, <1>2, PTL DEF Spec

\* Then, too, no call forgets or replaces a session that is open on the server, but
\* one on which the driver raised.
THEOREM SoloLeaksNothing ==
  ASSUME OneThread PROVE Spec => []NoLeakedSession
<1>1. IndInv /\ RecordTracksSession /\ SoloInv /\ [Next]_vars => SoloInv'
  BY SoloStep, OneThread
<1>2. SoloInv => NoLeakedSession
  BY DEF SoloInv
<1>3. QED
  BY InitIndInv, StepIndInv, RecordStep, SoloInit, <1>1, <1>2, PTL DEF Spec

\* And a query that was given up to its timeout no longer runs on an open
\* session once the timeout has been reported.
THEOREM SoloAbandonedStops ==
  ASSUME OneThread PROVE Spec => []AbandonedWorkIsStopped
<1>1. IndInv /\ RecordTracksSession /\ SoloInv /\ [Next]_vars => SoloInv'
  BY SoloStep, OneThread
<1>2. IndInv /\ SoloInv => AbandonedWorkIsStopped
  BY SoloStops, OneThread
<1>3. QED
  BY InitIndInv, StepIndInv, RecordStep, SoloInit, <1>1, <1>2, PTL DEF Spec
-----------------------------------------------------------------------------
(* The manager serves queries: it implements QueryService.                 *)
(*                                                                         *)
(* Sessions go one way: a session that is dialled is new, so one that is   *)
(* no longer current never is again.  A query comes to hold a session only *)
(* by getting the current one, and a query that is given up keeps the      *)
(* command lock until there is no current session.  Hence a retired        *)
(* session stays retired (RetiredStay).                                    *)

SessionMoves ==
  /\ \A s \in Sessions : status[s] # "unused" => status'[s] # "unused"
  /\ \A s \in Sessions : status[s] \in {"dropped", "closed"} => status'[s] \in {"dropped", "closed"}
  /\ session' \in {session, None} \/ (session' \in Sessions /\ status[session'] = "unused")

LEMMA SessionStep ==
  ASSUME TypeOK, [Next]_vars
  PROVE  SessionMoves
<1> USE NoneAssumption DEF SessionMoves, TypeOK, ForgetConnection, manager, server
<1>1. ASSUME NEW o, DialSucceeds(o) \/ DialFails PROVE SessionMoves
  BY <1>1 DEF DialSucceeds, DialFails
<1>2. ASSUME NEW t \in Threads, Calls(t) PROVE SessionMoves
  <2>1. CASE Disconnect(t)
    BY <2>1 DEF Disconnect, CloseSession
  <2>2. CASE ~Disconnect(t)
    BY <1>2, <2>2 DEF Calls, ExecuteCommand, ForceDisconnect, ReadRecord, WriteRecord, UseFile,
                      CreateSelectList, BeginTransaction, CommitTransaction, RollbackTransaction,
                      EndTransaction, Connect, HealthCheck
  <2>3. QED
    BY <2>1, <2>2
<1>3. ASSUME NEW t \in Threads, Steps(t) PROVE SessionMoves
  <2>1. CASE DialReturns(t) \/ ConnectReturns(t)
    BY <2>1, <1>1 DEF DialReturns, ConnectReturns
  <2>2. CASE VerifySession(t) \/ SessionEstablished(t) \/ StartCommand(t) \/ CommandReturns(t)
             \/ AbandonCommand(t)
    BY <2>2 DEF VerifySession, SessionEstablished, StartCommand, CommandReturns, AbandonCommand,
         DiscardSession, LoseSession, ReturnSession
  <2>3. CASE ForceClose(t)
    BY <2>3 DEF ForceClose, CloseSession, LoseSession
  <2>4. CASE ForceReset(t) \/ DisconnectReset(t)
    BY <2>4 DEF ForceReset, DisconnectReset
  <2>5. CASE FileOpened(t) \/ CallTakesEffect(t) \/ CallReturns(t)
    BY <2>5 DEF FileOpened, CallTakesEffect, CallReturns
  <2>6. QED
    BY <1>3, <2>1, <2>2, <2>3, <2>4, <2>5 DEF Steps, OwnSteps, DriverReturns
<1>4. ASSUME NEW t \in Threads, TakeCommandLock(t) \/ GetSession(t) \/ WorkerCompletes(t)
                               \/ HealthCheckReturns(t)
      PROVE  SessionMoves
  BY <1>4 DEF TakeCommandLock, GetSession, WorkerCompletes, HealthCheckReturns, ReturnSession, DiscardSession, LoseSession
<1>5. ASSUME NEW s \in Sessions, OrphanEnds(s) \/ SessionDrops(s) PROVE SessionMoves
  BY <1>5 DEF OrphanEnds, SessionDrops
<1>6. CASE UNCHANGED vars
  BY <1>6 DEF vars
<1>7. QED
  BY <1>2, <1>3, <1>4, <1>5, <1>6 DEF Next

\* How a query comes to hold a session, and what becomes of one that is given up.
QueryMoves(t) ==
  /\ Holding(t)' => \/ Holding(t) /\ mine'[t] = mine[t]
                    \/ mine'[t] = session /\ Querying(t) /\ ~Abandoning(t)
  /\ Abandoning(t) => \/ Abandoning(t)' /\ mine'[t] = mine[t]
                      \/ session' = None

\* A session on which no query will run stays one.
LEMMA RetiredStay ==
  ASSUME IndInv, SessionMoves, \A t \in Threads : QueryMoves(t)
  PROVE  Retired \subseteq Retired'
<1> SUFFICES ASSUME NEW s \in Retired PROVE s \in Retired'
  OBVIOUS
<1>1. s \in Sessions /\ s # None /\ status[s] # "unused"
  BY NoneAssumption DEF Retired
<1>2. status'[s] # "unused"
  BY <1>1 DEF SessionMoves
<1>3. \A t, u \in Threads : Querying(t) /\ Querying(u) => t = u
  BY DEF IndInv, LocksHeld
<1>4. ASSUME NEW t \in Threads, Holding(t)', mine'[t] = s PROVE FALSE
  <2>1. ~(Holding(t) /\ mine'[t] = mine[t])
    BY <1>4 DEF Retired
  <2>2. session = s /\ Querying(t) /\ ~Abandoning(t)
    BY <1>4, <2>1 DEF QueryMoves
  <2>3. PICK u \in Threads : Abandoning(u)
    BY <2>2 DEF Retired
  <2>4. Querying(u)
    BY <2>3 DEF Abandoning, Querying
  <2>5. QED
    BY <1>3, <2>2, <2>3, <2>4
<1>5. ASSUME s = session' PROVE \E t \in Threads : Abandoning(t)' /\ mine'[t] = s
  <2>1. s = session
    BY <1>1, <1>5 DEF SessionMoves
  <2>2. PICK t \in Threads : Abandoning(t) /\ mine[t] = s
    BY <2>1 DEF Retired
  <2>3. Abandoning(t)' /\ mine'[t] = mine[t]
    BY <1>1, <1>5, <2>2 DEF QueryMoves
  <2>4. QED
    BY <2>2, <2>3
<1>6. QED
  BY <1>1, <1>2, <1>4, <1>5 DEF Retired

\* Sessions end, and retire, for good; and none retires under its query.
LEMMA SessionsGo ==
  ASSUME IndInv, IndInv', SessionMoves, \A t \in Threads : QueryMoves(t)
  PROVE  Service!SessionsGo
<1>1. Lost \subseteq Lost' /\ Lost' \subseteq Sessions /\ Retired' \subseteq Sessions
  BY DEF SessionMoves, Lost, Retired
<1>2. ASSUME NEW t \in Threads PROVE QueriesOn'[t] \notin Retired'
  <2>1. QueriesOn'[t] = QueryOn(t)'
    BY DEF QueriesOn
  <2>2. CASE op'[t] = "command" /\ running'[t] # None
    <3>1. Holding(t)' /\ running'[t] = mine'[t]
      BY <2>2 DEF IndInv, LabelsFit, Holding
    <3>2. QueryOn(t)' = mine'[t]
      BY <2>2, <3>1 DEF QueryOn
    <3>3. QED
      BY <2>1, <3>1, <3>2 DEF Retired
  <2>3. CASE ~(op'[t] = "command" /\ running'[t] # None)
    <3>1. QueryOn(t)' = None
      BY <2>3 DEF QueryOn
    <3>2. QED
      BY <2>1, <3>1, <1>1, NoneAssumption
  <2>4. QED
    BY <2>2, <2>3
<1>3. QED
  BY <1>1, <1>2, RetiredStay DEF Service!SessionsGo

\* One thread moves.
OthersStay(t) ==
  \A u \in Threads \ {t} : /\ pc'[u] = pc[u] /\ op'[u] = op[u] /\ mine'[u] = mine[u]
                           /\ running'[u] = running[u] /\ reply'[u] = reply[u]

LEMMA OneMoves ==
  ASSUME TypeOK, TypeOK', NEW t \in Threads, OthersStay(t)
  PROVE  /\ QueriesAt' = [QueriesAt EXCEPT ![t] = QueryAt(t)']
         /\ QueriesOn' = [QueriesOn EXCEPT ![t] = QueryOn(t)']
         /\ reply' = [reply EXCEPT ![t] = reply'[t]]
         /\ QueryMoves(t) => \A u \in Threads : QueryMoves(u)
<1>1. ASSUME NEW u \in Threads \ {t} PROVE QueryAt(u)' = QueryAt(u) /\ QueryOn(u)' = QueryOn(u)
  BY DEF OthersStay, QueryAt, QueryOn, Abandoning
<1>2. ASSUME NEW u \in Threads \ {t} PROVE QueryMoves(u)
  BY DEF OthersStay, QueryMoves, Holding, Abandoning
<1>3. QueriesAt' = [QueriesAt EXCEPT ![t] = QueryAt(t)']
  BY <1>1 DEF QueriesAt
<1>4. QueriesOn' = [QueriesOn EXCEPT ![t] = QueryOn(t)']
  BY <1>1 DEF QueriesOn
<1>5. reply' = [reply EXCEPT ![t] = reply'[t]]
  BY DEF OthersStay, TypeOK
<1>6. QED
  BY <1>2, <1>3, <1>4, <1>5

\* A thread that makes another call, or goes on inside its query, is no event of the
\* service.
LEMMA ThreadAside ==
  ASSUME TypeOK, TypeOK', NEW t \in Threads, OthersStay(t), op[t] # "command", op'[t] # "command"
  PROVE  Service!Otherwise /\ \A u \in Threads : QueryMoves(u)
<1>1. QueryAt(t) = "idle" /\ QueryAt(t)' = "idle" /\ QueryOn(t) = None /\ QueryOn(t)' = None
  BY DEF QueryAt, QueryOn, Abandoning
<1>2. QueryMoves(t)
  BY DEF QueryMoves, Holding, Abandoning
<1>3. QueriesAt[t] = "idle" /\ QueriesOn[t] = None
  BY <1>1 DEF QueriesAt, QueriesOn
<1>4. QueriesAt' = QueriesAt /\ QueriesOn' = QueriesOn
  BY <1>1, <1>3, OneMoves DEF QueriesAt, QueriesOn
<1>5. DOMAIN reply' = Threads /\ \A u \in Threads : QueriesAt[u] # "idle" => reply'[u] = reply[u]
  BY <1>3 DEF TypeOK, OthersStay
<1>6. QED
  BY <1>2, <1>4, <1>5, OneMoves DEF Service!Otherwise

LEMMA QueryGoesOn ==
  ASSUME TypeOK, TypeOK', NEW t \in Threads, OthersStay(t), reply'[t] = reply[t],
         QueryAt(t)' = QueryAt(t), QueryOn(t)' = QueryOn(t)
  PROVE  Service!Otherwise
<1>1. QueriesAt' = QueriesAt /\ QueriesOn' = QueriesOn
  BY OneMoves DEF QueriesAt, QueriesOn
<1>2. DOMAIN reply' = Threads /\ \A u \in Threads : reply'[u] = reply[u]
  BY DEF TypeOK, OthersStay
<1>3. QED
  BY <1>1, <1>2 DEF Service!Otherwise

-----------------------------------------------------------------------------
(* The steps of a query.                                                   *)

QueryStep(t) ==
  \/ Service!Otherwise
  \/ Service!Ask(t) \/ Service!Refuse(t) \/ Service!Begin(t) \/ Service!End(t)
  \/ Service!Deliver(t) \/ Service!GiveUp(t) \/ Service!ReportTimeout(t)

LEMMA AskStep ==
  ASSUME IndInv, IndInv', NEW t \in Threads, ExecuteCommand(t)
  PROVE  QueryStep(t) /\ \A u \in Threads : QueryMoves(u)
<1>1. /\ pc[t] = "idle" /\ pc'[t] = "cmd_lock" /\ op'[t] = "command" /\ reply'[t] = "none"
      /\ running'[t] = running[t] /\ OthersStay(t)
  BY DEF ExecuteCommand, Call, Goto, OthersStay, IndInv, TypeOK, wire
<1>2. op[t] # "command" /\ running[t] = None
  BY <1>1 DEF IndInv, LabelsFit, QueryLabels
<1>3. QueryAt(t) = "idle" /\ QueryAt(t)' = "asked"
  BY <1>1, <1>2 DEF QueryAt, Abandoning
<1>4. QueryOn(t) = None /\ QueryOn(t)' = None
  BY <1>1, <1>2 DEF QueryOn
<1>5. QueryMoves(t)
  BY <1>1, <1>2 DEF QueryMoves, Holding, Abandoning
<1>6. Service!Ask(t)
  <2>1. /\ QueriesAt' = [QueriesAt EXCEPT ![t] = "asked"]
        /\ QueriesOn' = [QueriesOn EXCEPT ![t] = None]
        /\ reply' = [reply EXCEPT ![t] = "none"]
    BY <1>1, <1>3, <1>4, OneMoves DEF IndInv
  <2>2. QueriesAt[t] = "idle" /\ QueriesOn[t] = None
    BY <1>3, <1>4 DEF QueriesAt, QueriesOn
  <2>3. QueriesOn' = QueriesOn
    BY <2>1, <2>2 DEF QueriesOn
  <2>4. QED
    BY <2>1, <2>2, <2>3 DEF Service!Ask, Service!Moves, Service!Answers
<1>7. QED
  BY <1>1, <1>5, <1>6, OneMoves DEF QueryStep, IndInv

\* The labels of a query that has not begun yet.
Asking == {"cmd_lock", "gs_lock", "dial_absent", "dial_lost", "verify", "established", "start"}

LEMMA AskedAt ==
  ASSUME IndInv, NEW t \in Threads, op[t] = "command", pc[t] \in Asking
  PROVE  QueryAt(t) = "asked" /\ QueryOn(t) = None
<1>1. pc[t] \notin {"waiting", "probing", "fd_close", "fd_reset"}
  BY DEF Asking
<1>2. running[t] = None
  BY <1>1 DEF IndInv, LabelsFit
<1>3. QED
  BY <1>1, <1>2 DEF QueryAt, QueryOn, Abandoning

LEMMA StillAsked ==
  ASSUME IndInv, IndInv', NEW t \in Threads, op[t] = "command", pc[t] \in Asking,
         NEW l \in Asking, l = "start" => mine'[t] = session /\ pc[t] # "cmd_lock", Goto(t, l), UNCHANGED <<op, reply, wire>>,
         \A u \in Threads \ {t} : mine'[u] = mine[u]
  PROVE  QueryStep(t) /\ \A u \in Threads : QueryMoves(u)
<1>1. /\ op'[t] = "command" /\ pc'[t] = l /\ running'[t] = running[t] /\ reply'[t] = reply[t]
      /\ OthersStay(t)
  BY DEF Goto, OthersStay, IndInv, TypeOK, wire
<1>2. running[t] = None /\ QueryAt(t) = "asked" /\ QueryOn(t) = None
  BY AskedAt DEF QueryOn
<1>3. QueryAt(t)' = "asked" /\ QueryOn(t)' = None
  BY <1>1, <1>2 DEF QueryAt, QueryOn, Abandoning, Asking
<1>4. QueryMoves(t)
  BY <1>1 DEF QueryMoves, Holding, Abandoning, Querying, Asking
<1>5. Service!Otherwise
  BY <1>1, <1>2, <1>3, QueryGoesOn DEF IndInv
<1>6. QED
  BY <1>1, <1>4, <1>5, OneMoves DEF QueryStep, IndInv

LEMMA RefuseStep ==
  ASSUME IndInv, IndInv', NEW t \in Threads, op[t] = "command", pc[t] \in Asking,
         Finish(t, "error"), UNCHANGED wire
  PROVE  QueryStep(t) /\ \A u \in Threads : QueryMoves(u)
<1>1. /\ op'[t] = "none" /\ reply'[t] = "error" /\ OthersStay(t)
  BY DEF Finish, Goto, OthersStay, IndInv, TypeOK, wire
<1>2. QueryAt(t) = "asked" /\ QueryOn(t) = None
  BY AskedAt
<1>3. QueryAt(t)' = "idle" /\ QueryOn(t)' = None
  BY <1>1 DEF QueryAt, QueryOn
<1>4. QueryMoves(t)
  BY <1>1 DEF QueryMoves, Holding, Abandoning, Asking
<1>5. Service!Refuse(t)
  BY <1>1, <1>2, <1>3, OneMoves
     DEF Service!Refuse, Service!Moves, Service!Answers, QueriesAt, QueriesOn, IndInv
<1>6. QED
  BY <1>1, <1>4, <1>5, OneMoves DEF QueryStep, IndInv

\* get_session returns the session, for a query to begin on.
LEMMA SessionReturned ==
  ASSUME IndInv, IndInv', NEW t \in Threads, op[t] = "command", pc[t] \in Asking \ {"cmd_lock"},
         ReturnSession(t), UNCHANGED wire
  PROVE  QueryStep(t) /\ \A u \in Threads : QueryMoves(u)
<1>1. Continue(op[t]) = "start"
  BY DEF Continue, FileOps
<1>2. /\ Goto(t, "start") /\ mine'[t] = session /\ UNCHANGED <<op, reply>>
      /\ \A u \in Threads \ {t} : mine'[u] = mine[u]
  BY <1>1 DEF ReturnSession, IndInv, TypeOK
<1>3. QED
  BY <1>2, StillAsked DEF Asking

\* The lock is with the query that begins, so no other is past it; and the session
\* it holds is not retired.
LEMMA BeginStep ==
  ASSUME IndInv, IndInv', NEW t \in Threads, StartCommand(t)
  PROVE  QueryStep(t) /\ \A u \in Threads : QueryMoves(u)
<1>1. /\ pc[t] = "start" /\ pc'[t] = "waiting" /\ op[t] = "command" /\ op'[t] = "command"
      /\ mine'[t] = mine[t] /\ running'[t] = mine[t] /\ reply' = reply /\ OthersStay(t)
  BY DEF StartCommand, Goto, OthersStay, IndInv, TypeOK, LabelsFit
<1>2. mine[t] \in Sessions /\ mine[t] \notin Retired
  <2>1. Holding(t)
    BY <1>1 DEF Holding
  <2>2. QED
    BY <1>1, <2>1 DEF Retired, IndInv, OrphansRetired, TypeOK
<1>3. QueryAt(t) = "asked"
  BY <1>1, AskedAt DEF Asking
<1>4. QueryAt(t)' = "served" /\ QueryOn(t)' = mine[t]
  BY <1>1, <1>2, NoneAssumption DEF QueryAt, QueryOn, Abandoning
<1>5. ASSUME NEW u \in Threads PROVE QueriesAt[u] \in {"idle", "asked"}
  <2>1. CASE u = t
    BY <1>3, <2>1 DEF QueriesAt
  <2>2. CASE u # t
    <3>1. command_lock = t
      BY <1>1 DEF IndInv, LocksHeld, Querying
    <3>2. op[u] # "command" \/ pc[u] = "cmd_lock"
      BY <2>2, <3>1 DEF IndInv, LocksHeld, Querying, LabelsFit, QueryLabels
    <3>3. QueryAt(u) \in {"idle", "asked"}
      BY <3>2 DEF QueryAt, Abandoning
    <3>4. QED
      BY <3>3 DEF QueriesAt
  <2>3. QED
    BY <2>1, <2>2
<1>6. QueryMoves(t)
  BY <1>1 DEF QueryMoves, Holding, Abandoning
<1>7. Service!Begin(t)
  BY <1>1, <1>2, <1>3, <1>4, <1>5, OneMoves DEF Service!Begin, Service!Moves, QueriesAt, IndInv
<1>8. QED
  BY <1>1, <1>6, <1>7, OneMoves DEF QueryStep, IndInv

LEMMA EndStep ==
  ASSUME IndInv, IndInv', NEW t \in Threads, WorkerCompletes(t)
  PROVE  QueryStep(t) /\ \A u \in Threads : QueryMoves(u)
<1>1. /\ pc[t] = "waiting" /\ pc' = pc /\ op' = op /\ mine' = mine /\ op[t] = "command"
      /\ running[t] # None /\ running'[t] = None /\ OthersStay(t)
  BY DEF WorkerCompletes, OthersStay, IndInv, TypeOK, LabelsFit
<1>2. PICK r \in {"ok", "error"} : /\ r = "ok" => IsActive(running[t])
                                   /\ reply' = [reply EXCEPT ![t] = r]
  BY DEF WorkerCompletes
<1>3. QueryAt(t) = "served" /\ QueryAt(t)' = "ended" /\ QueryOn(t) = running[t] /\ QueryOn(t)' = None
  BY <1>1 DEF QueryAt, QueryOn, Abandoning
<1>4. r = "ok" => QueriesOn[t] \notin Lost
  BY <1>2, <1>3 DEF Lost, IsActive, QueriesOn
<1>5. QueryMoves(t)
  BY <1>1 DEF QueryMoves, Holding, Abandoning
<1>6. Service!End(t)
  BY <1>2, <1>3, <1>4, <1>1, OneMoves
     DEF Service!End, Service!Moves, Service!Answers, QueriesAt, IndInv
<1>7. QED
  BY <1>1, <1>5, <1>6, OneMoves DEF QueryStep, IndInv

LEMMA DeliverStep ==
  ASSUME IndInv, IndInv', NEW t \in Threads, CommandReturns(t)
  PROVE  QueryStep(t) /\ \A u \in Threads : QueryMoves(u)
<1>1. /\ pc[t] = "waiting" /\ op[t] = "command" /\ op'[t] = "none" /\ reply' = reply
      /\ running[t] = None /\ running'[t] = None /\ OthersStay(t)
  BY DEF CommandReturns, Finish, Goto, OthersStay, IndInv, TypeOK, LabelsFit, wire
<1>2. QueryAt(t) = "ended" /\ QueryAt(t)' = "idle" /\ QueryOn(t) = None /\ QueryOn(t)' = None
  BY <1>1 DEF QueryAt, QueryOn, Abandoning
<1>3. QueryMoves(t)
  BY <1>1 DEF QueryMoves, Holding, Abandoning
<1>4. Service!Deliver(t)
  BY <1>1, <1>2, OneMoves DEF Service!Deliver, Service!Moves, QueriesAt, QueriesOn, IndInv
<1>5. QED
  BY <1>1, <1>3, <1>4, OneMoves DEF QueryStep, IndInv

\* Giving a query up retires its session at once: the caller holds the lock.
LEMMA GiveUpStep ==
  ASSUME IndInv, IndInv', NEW t \in Threads, AbandonCommand(t)
  PROVE  QueryStep(t) /\ \A u \in Threads : QueryMoves(u)
<1>1. /\ pc[t] = "waiting" /\ pc'[t] = "fd_close" /\ op[t] = "command" /\ op'[t] = "command"
      /\ mine' = mine /\ reply' = reply /\ running[t] # None /\ running'[t] = None
      /\ running[t] = mine[t] /\ status' = status /\ OthersStay(t)
  BY DEF AbandonCommand, Goto, OthersStay, IndInv, TypeOK, LabelsFit, server
<1>2. QueryAt(t) = "served" /\ QueryAt(t)' = "stopped" /\ QueryOn(t) = mine[t] /\ QueryOn(t)' = None
  BY <1>1 DEF QueryAt, QueryOn, Abandoning
<1>3. QueriesOn[t] \in Retired'
  <2>1. mine[t] \in Sessions /\ status'[mine[t]] # "unused"
    BY <1>1 DEF IndInv, TypeOK, OrphansRetired
  <2>2. Abandoning(t)' /\ mine'[t] = mine[t]
    BY <1>1 DEF Abandoning
  <2>3. ASSUME NEW u \in Threads, Holding(u)' PROVE FALSE
    <3>1. Querying(u)' /\ Querying(t)'
      BY <1>1, <2>3 DEF Querying, Holding
    <3>2. u = t
      BY <3>1 DEF IndInv, LocksHeld
    <3>3. QED
      BY <1>1, <2>3, <3>2 DEF Holding
  <2>4. QED
    BY <1>2, <2>1, <2>2, <2>3 DEF Retired, QueriesOn
<1>4. QueryMoves(t)
  BY <1>1 DEF QueryMoves, Holding, Abandoning
<1>5. Service!GiveUp(t)
  BY <1>1, <1>2, <1>3, OneMoves DEF Service!GiveUp, Service!Moves, QueriesAt, IndInv
<1>6. QED
  BY <1>1, <1>4, <1>5, OneMoves DEF QueryStep, IndInv

\* force_disconnect leaves no current session when the timeout is reported.
LEMMA TimeoutStep ==
  ASSUME IndInv, IndInv', NEW t \in Threads, Abandoning(t), ForgetConnection, ForceDone(t), UNCHANGED wire
  PROVE  QueryStep(t) /\ \A u \in Threads : QueryMoves(u)
<1>1. /\ op'[t] = "none" /\ reply'[t] = "timeout" /\ session' = None /\ OthersStay(t)
  BY DEF ForceDone, Finish, Goto, ForgetConnection, OthersStay, IndInv, TypeOK, wire, Abandoning
<1>2. op[t] = "command" /\ pc[t] \in {"fd_close", "fd_reset"} /\ running[t] = None
  BY DEF Abandoning, IndInv, LabelsFit
<1>3. QueryAt(t) = "stopped" /\ QueryAt(t)' = "idle" /\ QueryOn(t) = None /\ QueryOn(t)' = None
  BY <1>1, <1>2 DEF QueryAt, QueryOn, Abandoning
<1>4. QueryMoves(t)
  BY <1>1, <1>2 DEF QueryMoves, Holding
<1>5. Service!ReportTimeout(t)
  BY <1>1, <1>3, OneMoves
     DEF Service!ReportTimeout, Service!Moves, Service!Answers, QueriesAt, QueriesOn, IndInv
<1>6. QED
  BY <1>1, <1>4, <1>5, OneMoves DEF QueryStep, IndInv

\* The session is closed first, and forgotten next.
LEMMA StopStep ==
  ASSUME IndInv, IndInv', NEW t \in Threads, Abandoning(t), Goto(t, "fd_reset"),
         UNCHANGED <<op, mine, reply, wire>>
  PROVE  QueryStep(t) /\ \A u \in Threads : QueryMoves(u)
<1>1. op[t] = "command" /\ pc[t] \in {"fd_close", "fd_reset"} /\ pc'[t] = "fd_reset" /\ OthersStay(t)
  BY DEF Abandoning, Goto, OthersStay, IndInv, TypeOK, wire
<1>2. QueryAt(t) = "stopped" /\ QueryAt(t)' = "stopped" /\ QueryOn(t)' = QueryOn(t)
  BY <1>1 DEF QueryAt, QueryOn, Abandoning, wire
<1>3. QueryMoves(t)
  BY <1>1 DEF QueryMoves, Holding, Abandoning
<1>4. Service!Otherwise
  BY <1>1, <1>2, QueryGoesOn DEF IndInv
<1>5. QED
  BY <1>1, <1>3, <1>4, OneMoves DEF QueryStep, IndInv

-----------------------------------------------------------------------------
(* Every step of the manager.                                              *)

\* A call of another kind.
LEMMA OtherCall ==
  ASSUME IndInv, IndInv', NEW t \in Threads, Calls(t), ~ExecuteCommand(t)
  PROVE  Service!Otherwise /\ \A u \in Threads : QueryMoves(u)
<1>1. pc[t] = "idle"
  BY DEF Calls, ForceDisconnect, ReadRecord, WriteRecord, UseFile, CreateSelectList,
         BeginTransaction, CommitTransaction, RollbackTransaction, EndTransaction, Connect,
         Disconnect, HealthCheck, Call, Answer
<1>2. op[t] # "command"
  BY <1>1 DEF IndInv, LabelsFit, QueryLabels
<1>3. OthersStay(t) /\ op'[t] # "command"
  <2> USE <1>2 DEF OthersStay, IndInv, TypeOK, Call, Answer, Goto, wire
  <2>1. CASE ForceDisconnect(t) \/ CreateSelectList(t)
    BY <2>1 DEF ForceDisconnect, CreateSelectList
  <2>2. CASE ReadRecord(t) \/ WriteRecord(t)
    BY <2>2 DEF ReadRecord, WriteRecord, UseFile
  <2>3. CASE BeginTransaction(t) \/ CommitTransaction(t) \/ RollbackTransaction(t)
    BY <2>3 DEF BeginTransaction, CommitTransaction, RollbackTransaction, EndTransaction
  <2>4. CASE Connect(t) \/ Disconnect(t)
    BY <2>4 DEF Connect, Disconnect
  <2>5. CASE HealthCheck(t)
    BY <2>5 DEF HealthCheck
  <2>6. QED
    BY <2>1, <2>2, <2>3, <2>4, <2>5 DEF Calls
<1>4. QED
  BY <1>2, <1>3, ThreadAside DEF IndInv

\* The rest of a call of another kind.
LEMMA OtherStep ==
  ASSUME IndInv, IndInv', NEW t \in Threads, op[t] # "command",
         Steps(t) \/ TakeCommandLock(t) \/ GetSession(t) \/ WorkerCompletes(t) \/ HealthCheckReturns(t)
  PROVE  Service!Otherwise /\ \A u \in Threads : QueryMoves(u)
<1>1. OthersStay(t) /\ op'[t] # "command"
  <2> USE DEF OthersStay, IndInv, TypeOK, Goto, Finish, wire, ReturnSession
  <2>1. CASE DialReturns(t) \/ VerifySession(t) \/ SessionEstablished(t)
    BY <2>1 DEF DialReturns, VerifySession, SessionEstablished
  <2>2. CASE StartCommand(t) \/ CommandReturns(t) \/ AbandonCommand(t)
    BY <2>2 DEF StartCommand, CommandReturns, AbandonCommand
  <2>3. CASE ForceClose(t) \/ ForceReset(t)
    BY <2>3 DEF ForceClose, ForceReset, ForceDone
  <2>4. CASE FileOpened(t) \/ CallTakesEffect(t) \/ CallReturns(t)
    <3>1. CASE FileOpened(t)
      BY <3>1 DEF FileOpened
    <3>2. CASE CallTakesEffect(t)
      BY <3>2 DEF CallTakesEffect
    <3>3. CASE CallReturns(t)
      BY <3>3 DEF CallReturns
    <3>4. QED
      BY <2>4, <3>1, <3>2, <3>3
  <2>5. CASE ConnectReturns(t) \/ DisconnectReset(t)
    BY <2>5 DEF ConnectReturns, DisconnectReset
  <2>6. CASE TakeCommandLock(t) \/ GetSession(t)
    BY <2>6 DEF TakeCommandLock, GetSession
  <2>7. CASE WorkerCompletes(t) \/ HealthCheckReturns(t)
    BY <2>7 DEF WorkerCompletes, HealthCheckReturns
  <2>8. QED
    BY <2>1, <2>2, <2>3, <2>4, <2>5, <2>6, <2>7 DEF Steps, OwnSteps, DriverReturns
<1>2. QED
  BY <1>1, ThreadAside DEF IndInv

\* The rest of a query.
LEMMA CommandStep ==
  ASSUME IndInv, IndInv', NEW t \in Threads, op[t] = "command",
         Steps(t) \/ TakeCommandLock(t) \/ GetSession(t) \/ WorkerCompletes(t) \/ HealthCheckReturns(t)
  PROVE  QueryStep(t) /\ \A u \in Threads : QueryMoves(u)
<1>1. pc[t] \in QueryLabels
  BY DEF IndInv, LabelsFit
<1>2. CASE DialReturns(t)
  <2>1. CASE Finish(t, "error")
    BY <1>2, <2>1, RefuseStep DEF DialReturns, Asking
  <2>2. CASE ~Finish(t, "error")
    <3>1. PICK l \in {"verify", "established"} : Goto(t, l)
      BY <1>2, <2>2 DEF DialReturns
    <3>2. QED
      BY <1>2, <2>2, <3>1, StillAsked DEF DialReturns, Asking
  <2>3. QED
    BY <2>1, <2>2
<1>3. CASE VerifySession(t)
  <2>1. CASE ReturnSession(t)
    BY <1>3, <2>1, SessionReturned DEF VerifySession, Asking
  <2>2. CASE ~ReturnSession(t)
    BY <1>3, <2>2, StillAsked DEF VerifySession, Asking
  <2>3. QED
    BY <2>1, <2>2
<1>4. CASE SessionEstablished(t)
  <2>1. CASE ReturnSession(t)
    BY <1>4, <2>1, SessionReturned DEF SessionEstablished, Asking
  <2>2. CASE ~ReturnSession(t)
    BY <1>4, <2>2, RefuseStep DEF SessionEstablished, Asking
  <2>3. QED
    BY <2>1, <2>2
<1>5. CASE GetSession(t)
  <2>1. CASE ReturnSession(t)
    BY <1>5, <2>1, SessionReturned DEF GetSession, Asking
  <2>2. CASE ~ReturnSession(t)
    <3>1. PICK l \in {"dial_absent", "dial_lost"} : Goto(t, l)
      BY <1>5, <2>2 DEF GetSession
    <3>2. QED
      BY <1>5, <2>2, <3>1, StillAsked DEF GetSession, Asking
  <2>3. QED
    BY <2>1, <2>2
<1>6. CASE TakeCommandLock(t)
  BY <1>6, StillAsked DEF TakeCommandLock, Asking
<1>7. CASE StartCommand(t)
  BY <1>7, BeginStep
<1>8. CASE CommandReturns(t)
  BY <1>8, DeliverStep
<1>9. CASE AbandonCommand(t)
  BY <1>9, GiveUpStep
<1>10. CASE WorkerCompletes(t)
  BY <1>10, EndStep
<1>11. CASE ForceClose(t)
  <2>1. Abandoning(t)
    BY <1>11 DEF ForceClose, Abandoning
  <2>2. CASE session = None
    BY <1>11, <2>1, <2>2, TimeoutStep DEF ForceClose
  <2>3. CASE session # None
    BY <1>11, <2>1, <2>3, StopStep DEF ForceClose
  <2>4. QED
    BY <2>2, <2>3
<1>12. CASE ForceReset(t)
  BY <1>12, TimeoutStep DEF ForceReset, Abandoning
<1>13. CASE FileOpened(t) \/ CallTakesEffect(t) \/ CallReturns(t) \/ ConnectReturns(t)
            \/ DisconnectReset(t) \/ HealthCheckReturns(t)
  BY <1>1, <1>13 DEF FileOpened, CallTakesEffect, CallReturns, ConnectReturns, DisconnectReset,
                     HealthCheckReturns, QueryLabels
<1>14. QED
  BY <1>2, <1>3, <1>4, <1>5, <1>6, <1>7, <1>8, <1>9, <1>10, <1>11, <1>12, <1>13 DEF Steps, OwnSteps, DriverReturns

\* A worker nobody waits for ends, or the server ends a session: no query moves.
LEMMA ServerStep ==
  ASSUME IndInv, IndInv', NEW s \in Sessions, OrphanEnds(s) \/ SessionDrops(s)
  PROVE  Service!Otherwise /\ \A u \in Threads : QueryMoves(u)
<1>1. UNCHANGED <<pc, op, mine, running>>
  BY DEF OrphanEnds, SessionDrops, local, wire
<1>2. QueriesAt' = QueriesAt /\ QueriesOn' = QueriesOn
  BY <1>1 DEF QueriesAt, QueriesOn, QueryAt, QueryOn, Abandoning
<1>3. \A u \in Threads : QueryMoves(u)
  BY <1>1 DEF QueryMoves, Holding, Abandoning
<1>4. ASSUME NEW u \in Threads, QueriesAt[u] # "idle" PROVE reply'[u] = reply[u]
  <2>1. op[u] = "command"
    BY <1>4 DEF QueriesAt, QueryAt
  <2>2. pc[u] # "returning"
    BY <2>1 DEF IndInv, LabelsFit, QueryLabels
  <2>3. QED
    BY <2>2 DEF OrphanEnds, SessionDrops, local
<1>5. DOMAIN reply' = Threads
  BY DEF IndInv, TypeOK
<1>6. QED
  BY <1>2, <1>3, <1>4, <1>5 DEF Service!Otherwise

LEMMA ServiceStep ==
  ASSUME IndInv, IndInv', [Next]_vars
  PROVE  [Service!Next]_Service!vars
<1>1. ASSUME \A u \in Threads : QueryMoves(u), Service!Otherwise \/ \E t \in Threads : QueryStep(t)
      PROVE  Service!Next
  <2>1. Service!SessionsGo
    BY <1>1, SessionStep, SessionsGo DEF IndInv
  <2>2. QED
    BY <1>1, <2>1 DEF Service!Next, QueryStep
<1>2. ASSUME NEW t \in Threads, Calls(t) PROVE Service!Next
  BY <1>1, <1>2, AskStep, OtherCall
<1>3. ASSUME NEW t \in Threads,
             Steps(t) \/ TakeCommandLock(t) \/ GetSession(t) \/ WorkerCompletes(t) \/ HealthCheckReturns(t)
      PROVE  Service!Next
  BY <1>1, <1>3, OtherStep, CommandStep
<1>4. ASSUME NEW s \in Sessions, OrphanEnds(s) \/ SessionDrops(s) PROVE Service!Next
  BY <1>1, <1>4, ServerStep
<1>5. CASE UNCHANGED vars
  <2>1. UNCHANGED <<QueriesAt, QueriesOn, reply, Retired, Lost>>
    BY <1>5 DEF vars, manager, locks, server, wire, local, QueriesAt, QueriesOn, QueryAt, QueryOn,
                Abandoning, Holding, Retired, Lost
  <2>2. QED
    BY <2>1 DEF Service!vars
<1>6. QED
  BY <1>2, <1>3, <1>4, <1>5 DEF Next

LEMMA ServiceInit == Init => Service!Init
<1> SUFFICES ASSUME Init PROVE Service!Init
  OBVIOUS
<1>1. QueriesAt = [t \in Threads |-> "idle"] /\ QueriesOn = [t \in Threads |-> None]
  BY DEF Init, QueriesAt, QueriesOn, QueryAt, QueryOn
<1>2. Retired = {} /\ Lost = {} /\ reply = [t \in Threads |-> "none"]
  BY DEF Init, Retired, Lost
<1>3. QED
  BY <1>1, <1>2 DEF Service!Init

\* Whoever calls it, and whatever hangs or is torn down, a manager serves queries
\* one at a time, answers each once, and runs none on a session on which one was
\* given up (connection.py, execute_command and _abandon_command).
THEOREM ManagerServesQueries == Spec => ServesQueries
<1>1. Spec => []IndInv
  BY ManagerInvariant
<1>2. IndInv /\ IndInv' /\ [Next]_vars => [Service!Next]_Service!vars
  BY ServiceStep
<1>3. QED
  BY <1>1, <1>2, ServiceInit, PTL DEF Spec, ServesQueries, Service!Spec
=============================================================================
