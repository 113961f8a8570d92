------------------------- MODULE ConnectionManager -------------------------
(***************************************************************************)
(* One ConnectionManager: the object that owns the single database session *)
(* of a database login, and the threads that call into it.                 *)
(*                                                                         *)
(* Callers are the threads that run tools, the watchdog's thread and the   *)
(* threads of its health checks; every command also has a worker thread.   *)
(* A step is the code between two points where a thread can block: a lock, *)
(* a driver call, the wait for a worker.  A driver call that changes the   *)
(* server takes effect in one step and returns in another, so anything may *)
(* happen between the two.                                                 *)
(***************************************************************************)
EXTENDS Naturals, FiniteSets

CONSTANTS
  Threads,    \* the threads that call into the manager
  OpsOf,      \* OpsOf[t]: the operations thread t calls
  Files,      \* names of database files
  Sessions,   \* database sessions the server can grant; bounds the reconnects
  None        \* no session, no thread, no file

FileOps    == {"read", "write"}
SessionOps == FileOps \cup {"list", "begin", "commit", "rollback"}
Ops        == SessionOps \cup {"command", "connect", "disconnect", "health", "force"}

ASSUME NoneAssumption  == None \notin Threads \cup Sessions \cup Files
ASSUME OpsOfAssumption == OpsOf \in [Threads -> SUBSET Ops]

VARIABLES
  session,            \* _session
  connections,        \* whether the "default" record is held and active
  in_transaction,     \* _transaction.in_transaction
  open_files,         \* _open_files: the session each cached handle was opened on
  command_lock,       \* holder of _command_lock
  session_lock,       \* holder of _session_lock
  abandoned_queries,  \* _abandoned_queries
  status,             \* what the driver and the server know of each session
  dbTx,               \* sessions on which the server has a transaction open
  by_tool,            \* history: the connect tool opened the current session
  running,            \* the session on which a thread's command is in flight
  orphans,            \* sessions with an abandoned command still in flight
  pc, op, arg,        \* where a thread is, the operation, its file argument
  mine,               \* the session (or the handle's session) a thread holds
  reply               \* the answer a thread waits for; once idle, its result

manager == <<session, connections, in_transaction, open_files>>
locks   == <<command_lock, session_lock>>
server  == <<status, dbTx, by_tool>>
wire    == <<running, orphans, abandoned_queries>>
local   == <<pc, op, arg, mine, reply>>
vars    == <<manager, locks, server, wire, local>>

NoHandles == [f \in Files |-> None]

Init ==
  /\ session = None
  /\ connections = FALSE
  /\ in_transaction = FALSE
  /\ open_files = NoHandles
  /\ command_lock = None
  /\ session_lock = None
  /\ abandoned_queries = 0
  /\ status = [s \in Sessions |-> "unused"]
  /\ dbTx = {}
  /\ by_tool = FALSE
  /\ running = [t \in Threads |-> None]
  /\ orphans = {}
  /\ pc = [t \in Threads |-> "idle"]
  /\ op = [t \in Threads |-> "none"]
  /\ arg = [t \in Threads |-> None]
  /\ mine = [t \in Threads |-> None]
  /\ reply = [t \in Threads |-> "none"]

-----------------------------------------------------------------------------
(* Building blocks.                                                        *)

Goto(t, label) == pc' = [pc EXCEPT ![t] = label]

\* A new call by an idle thread; its first step decides where it goes.
Call(t, o, f, label) ==
  /\ pc[t] = "idle"
  /\ o \in OpsOf[t]
  /\ Goto(t, label)
  /\ op' = [op EXCEPT ![t] = o]
  /\ arg' = [arg EXCEPT ![t] = f]
  /\ reply' = [reply EXCEPT ![t] = "none"]

\* A call that its first step already answers.
Answer(t, o, result) ==
  /\ pc[t] = "idle"
  /\ o \in OpsOf[t]
  /\ reply' = [reply EXCEPT ![t] = result]
  /\ UNCHANGED <<pc, op, arg, mine>>

Finish(t, result) ==
  /\ Goto(t, "idle")
  /\ reply' = [reply EXCEPT ![t] = result]
  /\ op' = [op EXCEPT ![t] = "none"]
  /\ arg' = [arg EXCEPT ![t] = None]
  /\ mine' = [mine EXCEPT ![t] = None]

\* Mutant of LeaveCommandLock: the lock is not released.
KeepCommandLock(t) == UNCHANGED command_lock

\* The end of a `with self._command_lock` block, on every way out of it.
LeaveCommandLock(t) ==
  command_lock' = IF command_lock = t THEN None ELSE command_lock

\* Mutants of ForgetConnection: the record or the flag outlives the
\* connection.
ForgetAllButRecord ==
  /\ session' = None /\ open_files' = NoHandles /\ in_transaction' = FALSE
  /\ UNCHANGED connections

ForgetAllButFlag ==
  /\ session' = None /\ connections' = FALSE /\ open_files' = NoHandles
  /\ UNCHANGED in_transaction

\* force_disconnect and _discard_connection forget the same four things.
ForgetConnection ==
  /\ session' = None
  /\ open_files' = NoHandles
  /\ connections' = FALSE
  /\ in_transaction' = FALSE

IsActive(s) == s # None /\ status[s] \in {"open", "adrift"}

\* The session is closed; the server rolls back what was open on it.
CloseSession(s) ==
  /\ status' = [status EXCEPT ![s] = "closed"]
  /\ dbTx' = dbTx \ {s}
  /\ UNCHANGED by_tool

\* The driver raises on a session that lives, and the code, which takes it for
\* dead or closed, is about to forget it: it stays open on the server.
LoseSession(s) ==
  /\ status' = [status EXCEPT ![s] = IF @ = "open" THEN "adrift" ELSE @]
  /\ UNCHANGED <<dbTx, by_tool>>

-----------------------------------------------------------------------------
(* connect(): the driver call, made by get_session under _session_lock and *)
(* by the connect tool under no lock.                                      *)

DialSucceeds(o) ==
  \E s \in Sessions :
    /\ status[s] = "unused"
    /\ status' = [status EXCEPT ![s] = "open"]
    /\ session' = s
    /\ connections' = TRUE
    /\ by_tool' = (o = "connect")
    /\ UNCHANGED <<in_transaction, open_files, dbTx>>

DialFails == UNCHANGED <<manager, server>>

-----------------------------------------------------------------------------
(* get_session(): every operation below that needs a session goes through  *)
(* "gs_lock", and continues at Continue(op) with the session in mine[t].   *)

Continue(o) ==
  CASE o = "command"  -> "start"
    [] o \in FileOps  -> "filing"
    [] OTHER          -> "calling"

ReturnSession(t) ==
  /\ mine' = [mine EXCEPT ![t] = session]
  /\ Goto(t, Continue(op[t]))
  /\ UNCHANGED <<op, arg, reply>>

\* There is no session, or it is taken for dead, which it need not be: is_active
\* may raise.  _discard_connection does not close what it forgets.
DiscardSession ==
  /\ ForgetConnection
  /\ IF session = None THEN UNCHANGED server ELSE LoseSession(session)

\* Mutant of GetSession: the lock is not waited for.
GetSessionAtOnce(t) ==
  /\ pc[t] = "gs_lock"
  /\ \/ /\ IsActive(session)
        /\ ReturnSession(t)
        /\ UNCHANGED <<manager, server, session_lock>>
     \/ /\ DiscardSession
        /\ session_lock' = t
        /\ Goto(t, IF session = None THEN "dial_absent" ELSE "dial_lost")
        /\ UNCHANGED <<op, arg, mine, reply>>
  /\ UNCHANGED <<command_lock, wire>>

GetSession(t) ==
  /\ pc[t] = "gs_lock"
  /\ session_lock = None
  /\ \/ /\ IsActive(session)
        /\ ReturnSession(t)
        /\ UNCHANGED <<manager, server, session_lock>>
     \/ /\ DiscardSession
        /\ session_lock' = t
        /\ Goto(t, IF session = None THEN "dial_absent" ELSE "dial_lost")
        /\ UNCHANGED <<op, arg, mine, reply>>
  /\ UNCHANGED <<command_lock, wire>>

\* connect() returned to _establish_session, which goes on to verify.
DialReturns(t) ==
  /\ pc[t] \in {"dial_absent", "dial_lost"}
  /\ \/ /\ DialSucceeds(op[t])
        /\ Goto(t, IF pc[t] = "dial_absent" THEN "verify" ELSE "established")
        /\ UNCHANGED <<op, arg, mine, reply, locks>>
     \/ /\ DialFails
        /\ session_lock' = None
        /\ LeaveCommandLock(t)
        /\ Finish(t, "error")
  /\ UNCHANGED wire

\* Mutant of VerifySession: the lock is released before the second dial.
VerifyUnlocked(t) ==
  /\ pc[t] = "verify"
  /\ session_lock' = None
  /\ \/ /\ IsActive(session)
        /\ ReturnSession(t)
        /\ UNCHANGED <<manager, server>>
     \/ /\ DiscardSession
        /\ Goto(t, "dial_lost")
        /\ UNCHANGED <<op, arg, mine, reply>>
  /\ UNCHANGED <<command_lock, wire>>

VerifySession(t) ==
  /\ pc[t] = "verify"
  /\ \/ /\ IsActive(session)
        /\ ReturnSession(t)
        /\ session_lock' = None
        /\ UNCHANGED <<manager, server>>
     \/ /\ DiscardSession
        /\ Goto(t, "dial_lost")
        /\ UNCHANGED <<op, arg, mine, reply, session_lock>>
  /\ UNCHANGED <<command_lock, wire>>

\* The last check of _establish_session: another thread may have dropped
\* the session that was just opened.
SessionEstablished(t) ==
  /\ pc[t] = "established"
  /\ session_lock' = None
  /\ \/ /\ session # None
        /\ ReturnSession(t)
        /\ UNCHANGED command_lock
     \/ /\ session = None
        /\ LeaveCommandLock(t)
        /\ Finish(t, "error")
  /\ UNCHANGED <<manager, server, wire>>

-----------------------------------------------------------------------------
(* execute_command(), its worker thread and its timeout.                   *)

ExecuteCommand(t) ==
  /\ Call(t, "command", None, "cmd_lock")
  /\ UNCHANGED <<mine, manager, locks, server, wire>>

\* Mutant of TakeCommandLock: a held lock is no obstacle.
StealCommandLock(t) ==
  /\ pc[t] = "cmd_lock"
  /\ command_lock' = t
  /\ Goto(t, "gs_lock")
  /\ UNCHANGED <<op, arg, mine, reply, session_lock, manager, server, wire>>

TakeCommandLock(t) ==
  /\ pc[t] = "cmd_lock"
  /\ command_lock = None
  /\ command_lock' = t
  /\ Goto(t, "gs_lock")
  /\ UNCHANGED <<op, arg, mine, reply, session_lock, manager, server, wire>>

StartCommand(t) ==
  /\ pc[t] = "start"
  /\ running' = [running EXCEPT ![t] = mine[t]]
  /\ Goto(t, "waiting")
  /\ UNCHANGED <<op, arg, mine, reply, orphans, abandoned_queries,
                 manager, locks, server>>

WorkerCompletes(t) ==
  /\ pc[t] = "waiting"
  /\ running[t] # None
  /\ running' = [running EXCEPT ![t] = None]
  /\ \E r \in {"ok", "error"} :
       /\ r = "ok" => IsActive(running[t])
       /\ reply' = [reply EXCEPT ![t] = r]
  /\ UNCHANGED <<pc, op, arg, mine, orphans, abandoned_queries,
                 manager, locks, server>>

CommandReturns(t) ==
  /\ pc[t] = "waiting"
  /\ running[t] = None
  /\ LeaveCommandLock(t)
  /\ Finish(t, reply[t])
  /\ UNCHANGED <<session_lock, manager, server, wire>>

\* Mutant of AbandonCommand: the session is not closed, and serves the next query.
AbandonAndGoOn(t) ==
  /\ pc[t] = "waiting"
  /\ running[t] # None
  /\ orphans' = orphans \cup {running[t]}
  /\ running' = [running EXCEPT ![t] = None]
  /\ abandoned_queries' = abandoned_queries + 1
  /\ LeaveCommandLock(t)
  /\ Finish(t, "timeout")
  /\ UNCHANGED <<session_lock, manager, server>>

\* The wait ends first: _abandon_command counts the query and closes the
\* session through force_disconnect.
AbandonCommand(t) ==
  /\ pc[t] = "waiting"
  /\ running[t] # None
  /\ orphans' = orphans \cup {running[t]}
  /\ running' = [running EXCEPT ![t] = None]
  /\ abandoned_queries' = abandoned_queries + 1
  /\ Goto(t, "fd_close")
  /\ UNCHANGED <<op, arg, mine, reply, manager, locks, server>>

\* The worker nobody waits for any more comes to its end.
OrphanEnds(s) ==
  /\ s \in orphans
  /\ orphans' = orphans \ {s}
  /\ UNCHANGED <<running, abandoned_queries, manager, locks, server, local>>

-----------------------------------------------------------------------------
(* force_disconnect(), called by the watchdog and by AbandonCommand.  It   *)
(* takes neither lock.                                                     *)

ForceDisconnect(t) ==
  /\ Call(t, "force", None, "fd_close")
  /\ UNCHANGED <<mine, manager, locks, server, wire>>

ForceDone(t) ==
  /\ LeaveCommandLock(t)
  /\ Finish(t, IF op[t] = "command" THEN "timeout" ELSE "ok")

\* Mutant of ForceClose: the session is forgotten without being closed.
ForgetUnclosed(t) ==
  /\ pc[t] = "fd_close"
  /\ Goto(t, "fd_reset")
  /\ UNCHANGED <<op, arg, mine, reply, command_lock, manager, server,
                 session_lock, wire>>

\* An error of close() is suppressed: the session is forgotten all the same.
ForceClose(t) ==
  /\ pc[t] = "fd_close"
  /\ \/ /\ session = None
        /\ ForgetConnection
        /\ ForceDone(t)
        /\ UNCHANGED server
     \/ /\ session # None
        /\ CloseSession(session) \/ LoseSession(session)
        /\ Goto(t, "fd_reset")
        /\ UNCHANGED <<op, arg, mine, reply, command_lock, manager>>
  /\ UNCHANGED <<session_lock, wire>>

ForceReset(t) ==
  /\ pc[t] = "fd_reset"
  /\ ForgetConnection
  /\ ForceDone(t)
  /\ UNCHANGED <<session_lock, server, wire>>

-----------------------------------------------------------------------------
(* open_file() and the record tools that use the handle it returns.        *)

\* A cached handle is used as it is; otherwise a session is needed first.
UseFile(t, o, f) ==
  /\ \/ /\ open_files[f] # None
        /\ Call(t, o, f, "calling")
        /\ mine' = [mine EXCEPT ![t] = open_files[f]]
     \/ /\ open_files[f] = None
        /\ Call(t, o, f, "gs_lock")
        /\ UNCHANGED mine
  /\ UNCHANGED <<manager, locks, server, wire>>

ReadRecord(t)  == \E f \in Files : UseFile(t, "read", f)
WriteRecord(t) == \E f \in Files : UseFile(t, "write", f)

\* File(name, session) opened while the session lived, or fails.
FileOpened(t) ==
  /\ pc[t] = "filing"
  /\ \/ /\ open_files' = [open_files EXCEPT ![arg[t]] = mine[t]]
        /\ Goto(t, "calling")
        /\ UNCHANGED <<op, arg, mine, reply>>
     \/ /\ Finish(t, "error")
        /\ UNCHANGED open_files
  /\ UNCHANGED <<session, connections, in_transaction, locks, server, wire>>

-----------------------------------------------------------------------------
(* The transaction tools and create_select_list().                         *)

CreateSelectList(t) ==
  /\ Call(t, "list", None, "gs_lock")
  /\ UNCHANGED <<mine, manager, locks, server, wire>>

BeginTransaction(t) ==
  /\ \/ ~in_transaction /\ Call(t, "begin", None, "gs_lock") /\ UNCHANGED mine
     \/ in_transaction /\ Answer(t, "begin", "error")
  /\ UNCHANGED <<manager, locks, server, wire>>

EndTransaction(t, o) ==
  /\ \/ in_transaction /\ Call(t, o, None, "gs_lock") /\ UNCHANGED mine
     \/ ~in_transaction /\ Answer(t, o, "error")
  /\ UNCHANGED <<manager, locks, server, wire>>

CommitTransaction(t)   == EndTransaction(t, "commit")
RollbackTransaction(t) == EndTransaction(t, "rollback")

\* What the server does with a call it accepts.
TxEffect(o, s) ==
  dbTx' = CASE o = "begin"                  -> dbTx \cup {s}
            [] o \in {"commit", "rollback"} -> dbTx \ {s}
            [] OTHER                        -> dbTx

\* The driver call reaches the server: accepted, or refused; on a session
\* that is gone it fails.
CallTakesEffect(t) ==
  /\ pc[t] = "calling"
  /\ Goto(t, "returning")
  /\ \/ /\ IsActive(mine[t])
        /\ TxEffect(op[t], mine[t])
        /\ reply' = [reply EXCEPT ![t] = "ok"]
     \/ /\ reply' = [reply EXCEPT ![t] = "error"]
        /\ UNCHANGED dbTx
  /\ UNCHANGED <<op, arg, mine, status, by_tool, manager, locks, wire>>

\* The driver call returns, or raises, to the operation that made it.
CallReturns(t) ==
  /\ pc[t] = "returning"
  /\ Finish(t, reply[t])
  /\ in_transaction' = CASE reply[t] = "ok" /\ op[t] = "begin" -> TRUE
                         [] reply[t] = "ok" /\ op[t] \in {"commit", "rollback"} -> FALSE
                         [] OTHER -> in_transaction
  /\ UNCHANGED <<session, connections, open_files, locks, server, wire>>

-----------------------------------------------------------------------------
(* The connect and disconnect tools, which take no lock.                   *)

\* Mutant of Connect: no early return when there is a connection.
ConnectAgain(t) ==
  /\ Call(t, "connect", None, "ct_dial")
  /\ UNCHANGED <<mine, manager, locks, server, wire>>

Connect(t) ==
  /\ \/ connections /\ Answer(t, "connect", "ok")
     \/ ~connections /\ Call(t, "connect", None, "ct_dial") /\ UNCHANGED mine
  /\ UNCHANGED <<manager, locks, server, wire>>

ConnectReturns(t) ==
  /\ pc[t] = "ct_dial"
  /\ \/ DialSucceeds("connect") /\ Finish(t, "ok")
     \/ DialFails /\ Finish(t, "error")
  /\ UNCHANGED <<locks, wire>>

\* The handles are dropped first; a close() that raises leaves the rest, and the
\* session as it was.  A record without a session never occurs:
\* RecordTracksSession.
Disconnect(t) ==
  /\ \/ /\ ~connections
        /\ Answer(t, "disconnect", "error")
        /\ UNCHANGED <<manager, server>>
     \/ /\ connections /\ session # None
        /\ Call(t, "disconnect", None, "dc_reset")
        /\ CloseSession(session)
        /\ open_files' = NoHandles
        /\ UNCHANGED <<mine, session, connections, in_transaction>>
     \/ /\ connections /\ session # None
        /\ Answer(t, "disconnect", "error")
        /\ open_files' = NoHandles
        /\ UNCHANGED <<session, connections, in_transaction, server>>
  /\ UNCHANGED <<locks, wire>>

\* A record another thread removed meanwhile makes the lookup raise.
DisconnectReset(t) ==
  /\ pc[t] = "dc_reset"
  /\ session' = None
  /\ connections' = FALSE
  /\ \/ connections /\ in_transaction' = FALSE /\ Finish(t, "ok")
     \/ ~connections /\ UNCHANGED in_transaction /\ Finish(t, "error")
  /\ UNCHANGED <<open_files, locks, server, wire>>

-----------------------------------------------------------------------------
(* health_check(): WHO on the session, under no lock.                      *)

HealthCheck(t) ==
  /\ \/ /\ session = None
        /\ Answer(t, "health", "ok")
        /\ UNCHANGED running
     \/ /\ session # None
        /\ Call(t, "health", None, "probing")
        /\ running' = [running EXCEPT ![t] = session]
        /\ UNCHANGED mine
  /\ UNCHANGED <<orphans, abandoned_queries, manager, locks, server>>

HealthCheckReturns(t) ==
  /\ pc[t] = "probing"
  /\ running' = [running EXCEPT ![t] = None]
  /\ \E r \in {"ok", "error"} :
       /\ r = "ok" => IsActive(running[t])
       /\ Finish(t, r)
  /\ UNCHANGED <<orphans, abandoned_queries, manager, locks, server>>

-----------------------------------------------------------------------------
(* The server ends a session; a call that waits for its answer may lose it. *)

SessionDrops(s) ==
  /\ IsActive(s)
  /\ status' = [status EXCEPT ![s] = "dropped"]
  /\ dbTx' = dbTx \ {s}
  /\ \/ UNCHANGED reply
     \/ reply' = [t \in Threads |-> IF pc[t] = "returning" /\ mine[t] = s
                                    THEN "error" ELSE reply[t]]
  /\ UNCHANGED <<pc, op, arg, mine, by_tool, manager, locks, wire>>

-----------------------------------------------------------------------------
\* A new call by a thread.
Calls(t) ==
  \/ ExecuteCommand(t) \/ ForceDisconnect(t)
  \/ ReadRecord(t) \/ WriteRecord(t) \/ CreateSelectList(t)
  \/ BeginTransaction(t) \/ CommitTransaction(t) \/ RollbackTransaction(t)
  \/ Connect(t) \/ Disconnect(t) \/ HealthCheck(t)

\* A step of a call in progress that waits for nobody, or for a timeout.
OwnSteps(t) ==
  \/ VerifySession(t) \/ SessionEstablished(t)
  \/ StartCommand(t) \/ CommandReturns(t) \/ AbandonCommand(t)
  \/ ForceClose(t) \/ CallTakesEffect(t)

\* A driver call returns; nothing in the code bounds the time it takes.
DriverReturns(t) ==
  \/ DialReturns(t) \/ ConnectReturns(t) \/ FileOpened(t) \/ CallReturns(t)
  \/ ForceReset(t) \/ DisconnectReset(t)

Steps(t) == OwnSteps(t) \/ DriverReturns(t)

Next ==
  \/ \E t \in Threads :
       \/ Calls(t) \/ Steps(t)
       \/ TakeCommandLock(t) \/ GetSession(t)
       \/ WorkerCompletes(t) \/ HealthCheckReturns(t)
  \/ \E s \in Sessions : OrphanEnds(s) \/ SessionDrops(s)

Spec == Init /\ [][Next]_vars

\* Threads run and timeouts fire.  Nothing is assumed of new calls, of the server,
\* or of the calls of the driver, which may hang for ever: a dial, a close, the
\* opening of a file, a command.  A contended lock goes round (strong fairness).
FairSpec ==
  /\ Spec
  /\ \A t \in Threads : /\ WF_vars(OwnSteps(t))
                         /\ SF_vars(TakeCommandLock(t))
                         /\ SF_vars(GetSession(t))

-----------------------------------------------------------------------------
(* Types.                                                                  *)

Labels == {"idle", "cmd_lock", "gs_lock", "dial_absent", "dial_lost", "verify",
           "established", "start", "waiting", "fd_close", "fd_reset", "filing",
           "calling", "returning", "ct_dial", "dc_reset", "probing"}

\* Every variable has the shape the code gives it.
TypeOK ==
  /\ session \in Sessions \cup {None}
  /\ connections \in BOOLEAN
  /\ in_transaction \in BOOLEAN
  /\ open_files \in [Files -> Sessions \cup {None}]
  /\ command_lock \in Threads \cup {None}
  /\ session_lock \in Threads \cup {None}
  /\ abandoned_queries \in Nat
  /\ status \in [Sessions -> {"unused", "open", "adrift", "dropped", "closed"}]
  /\ dbTx \subseteq Sessions
  /\ by_tool \in BOOLEAN
  /\ running \in [Threads -> Sessions \cup {None}]
  /\ orphans \subseteq Sessions
  /\ pc \in [Threads -> Labels]
  /\ op \in [Threads -> Ops \cup {"none"}]
  /\ arg \in [Threads -> Files \cup {None}]
  /\ mine \in [Threads -> Sessions \cup {None}]
  /\ reply \in [Threads -> {"none", "ok", "error", "timeout"}]

-----------------------------------------------------------------------------
(* What must hold whoever calls.                                           *)

\* Commands run by execute_command never overlap on a session, not even with
\* a query that was abandoned to a timeout and whose worker is still alive:
\* _command_lock, and the session every abandoned query takes with it.
CommandsAreSerialized ==
  \A t \in Threads :
    op[t] = "command" /\ running[t] # None =>
      /\ running[t] \notin orphans
      /\ \A u \in Threads \ {t} : op[u] = "command" => running[u] # running[t]

\* The connection record and the session come and go together.  A record that
\* outlives its session makes every later connect() return early, and leaves
\* the server broken until a restart (hardening.md, Finding 2).
RecordTracksSession == connections <=> session # None

\* A driver call that this thread has made has not returned.
InDriver(t) ==
  pc[t] \in {"dial_absent", "dial_lost", "ct_dial", "filing", "returning",
             "fd_reset", "dc_reset"}

\* What a thread waits for: its driver call, or a lock whose holder waits.
BehindSession == \E u \in Threads : session_lock = u /\ InDriver(u)

Stuck(t) ==
  \/ InDriver(t)
  \/ pc[t] = "gs_lock" /\ BehindSession
  \/ /\ pc[t] = "cmd_lock"
     /\ \E u \in Threads : command_lock = u /\ (InDriver(u) \/ (pc[u] = "gs_lock" /\ BehindSession))

\* Every call that starts comes to an end, but one that is in a driver call that
\* never returns, or behind it at a lock: no way out of a call keeps a lock, no
\* two calls wait for each other, and a query that hangs holds up nobody longer
\* than its timeout.
CallsEnd ==
  \A t \in Threads :
    (pc[t] \notin {"idle", "probing"} ~> pc[t] = "idle") \/ <>[]Stuck(t)

\* A burst of callers that finds no session opens one, not one each: while
\* get_session dials, there is no session that the new one would push aside,
\* whatever drops or tears down in between.  The connect tool dials under no
\* lock, and only a session of its own can be in the way (get_session's docstring).
BurstOpensOne ==
  \A t \in Threads : pc[t] \in {"dial_absent", "dial_lost"} => session = None \/ by_tool

\* The inductive invariant behind CommandsAreSerialized.  A query past the lock
\* holds it; what is in flight for it is what it holds; and while an abandoned
\* query's session is still current, the caller that gave up holds the lock.
Querying(t)  == op[t] = "command" /\ pc[t] \notin {"idle", "cmd_lock"}
Abandoning(t) == op[t] = "command" /\ pc[t] \in {"fd_close", "fd_reset"}
Dialing(t)   == pc[t] \in {"dial_absent", "dial_lost"}

QueryLabels ==
  {"cmd_lock", "gs_lock", "dial_absent", "dial_lost", "verify", "established",
   "start", "waiting", "fd_close", "fd_reset"}

LabelsFit ==
  \A t \in Threads :
    /\ pc[t] \in {"start", "waiting"} => op[t] = "command"
    /\ op[t] = "command" => pc[t] \in QueryLabels
    /\ pc[t] = "probing" => op[t] # "command"
    /\ running[t] # None => pc[t] \in {"waiting", "probing"}
    /\ running[t] # None /\ pc[t] = "waiting" => running[t] = mine[t]

LocksHeld ==
  \A t \in Threads :
    /\ Querying(t) => command_lock = t
    /\ Dialing(t) \/ pc[t] \in {"verify", "established"} => session_lock = t

OrphansRetired ==
  /\ session # None => status[session] # "unused"
  /\ \A s \in orphans : status[s] # "unused"
  /\ session \in orphans => \E t \in Threads : Abandoning(t)
  /\ \A t \in Threads : op[t] = "command" /\ pc[t] \in {"start", "waiting"} =>
       /\ mine[t] # None
       /\ mine[t] \notin orphans
       /\ status[mine[t]] # "unused"

IndInv == TypeOK /\ LabelsFit /\ LocksHeld /\ OrphansRetired

-----------------------------------------------------------------------------
(* The manager as a service of queries.                                    *)

QueryAt(t) ==
  IF op[t] # "command" THEN "idle"
  ELSE CASE Abandoning(t)                          -> "stopped"
         [] pc[t] = "waiting" /\ running[t] # None -> "served"
         [] pc[t] = "waiting" /\ running[t] = None -> "ended"
         [] OTHER                                  -> "asked"

QueryOn(t) == IF op[t] = "command" THEN running[t] ELSE None

QueriesAt == [t \in Threads |-> QueryAt(t)]
QueriesOn == [t \in Threads |-> QueryOn(t)]

Holding(t) == op[t] = "command" /\ pc[t] \in {"start", "waiting"}

\* No query will run on it: it is not the current session any more, or a query on
\* it is being given up, and none holds it.
Retired ==
  {s \in Sessions :
     /\ status[s] # "unused"
     /\ s = session => \E t \in Threads : Abandoning(t) /\ mine[t] = s
     /\ \A t \in Threads : Holding(t) => mine[t] # s}

Lost == {s \in Sessions : status[s] \in {"dropped", "closed"}}

Service == INSTANCE QueryService WITH
  Callers <- Threads, at <- QueriesAt, on <- QueriesOn, answer <- reply,
  retired <- Retired, lost <- Lost

\* execute_command, with its locks, its worker and its timeout, serves queries
\* one at a time, answers each once, and never uses a session again on which one
\* was given up, whoever connects, disconnects, probes and tears down meanwhile.
ServesQueries == Service!Spec

-----------------------------------------------------------------------------
(* What holds when nothing tears the connection down behind the callers.   *)

\* The server holds no session open that the manager has lost track of, but those
\* on which the driver raised: no call replaces or forgets a session it has not
\* closed.
NoLeakedSession == \A s \in Sessions : status[s] = "open" => s = session

\* Cached file handles belong to the current session: every way a session is
\* replaced empties the cache.
HandlesBelongToSession ==
  \A f \in Files : open_files[f] # None => open_files[f] = session

Ending(t) == pc[t] = "returning" /\ op[t] \in {"commit", "rollback"}

\* in_transaction describes the current session: it is set only while there is
\* one, and if that session lives the server has its transaction open.
TransactionBelongsToSession ==
  in_transaction =>
    /\ session # None
    /\ IsActive(session) => session \in dbTx \/ \E t \in Threads : Ending(t)

\* What the manager keeps beside the session never outlives it.
StateBelongsToSession == HandlesBelongToSession /\ TransactionBelongsToSession

\* Closing the session is what stops an abandoned query: once the timeout has
\* been reported, no query nobody waits for runs on an open session, unless it
\* was the close() that raised.
AbandonedWorkIsStopped ==
  \A s \in orphans : status[s] = "open" =>
    \E t \in Threads : pc[t] = "fd_close" /\ op[t] = "command" /\ mine[t] = s

-----------------------------------------------------------------------------
(* What the documentation says and the code does not do.                   *)

\* test_connection_chaos.py:38: a caller must never believe uncommitted work
\* was committed.
CommitMeansCommitted ==
  [][\A t \in Threads :
       op[t] = "commit" /\ pc[t] = "calling" /\ reply'[t] = "ok"
         => mine[t] \in dbTx]_vars
=============================================================================
