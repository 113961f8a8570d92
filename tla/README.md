# u2-mcp in TLA+

u2-mcp is an MCP server: AI clients call its tools to query and change a
Rocket Universe/UniData database. This directory models the parts of it that
carry state, checks them with TLC and proves some of their properties with
TLAPS. All paths below are relative to the repository; the Python sources are
under `src/u2_mcp/`.

## 1. The system

| Component | State | Operations | Talks to |
| --- | --- | --- | --- |
| Connection manager (`connection.py`, `tools/transaction.py`) | session, connection record, transaction flag, cached file handles, two locks, count of abandoned queries | connect, disconnect, get_session, open_file, execute_command (worker thread and timeout), begin/commit/rollback, health_check, force_disconnect | the driver, by blocking calls |
| Connection registry (`registry.py`) | managers in order of use, one lock | for_caller (evicts), disconnect_all, force_disconnect | managers |
| Watchdog (`utils/watchdog.py`) | running flag, stop event, task, failure counter | start, stop, the loop, a check on a thread of its own | registry, by two callbacks |
| OAuth provider (`auth/provider.py`, `auth/storage.py`, `auth/sqlite_storage.py`) | clients, pending authorizations, codes, access and refresh tokens | register, authorize, callback, exchange, refresh, revoke, expiry | identity provider (HTTP), the store |
| Records (`utils/dynarray.py`, `tools/files.py`, `tools/update.py`) | the stored record | parse, build, accessors, read, write, delete, update_value | file handles |
| Knowledge store (`utils/knowledge.py`) | one markdown file | save, append, delete, get | the file system |
| Server (`server.py`) | one registry, one watchdog | wiring, tool wrappers, threads | all of the above |
| Audit log (`utils/audit.py`) | one file | log a tool call | the file system |
| Identity and credentials (`identity.py`, `credentials.py`) | resolver, current caller | who is calling, with which login | provider's store |
| Query, dictionary and catalog tools, batch reads (`tools/query.py`, `tools/dictionary.py`, `tools/subroutine.py`, `tools/files.py`) | none of their own | several calls on the shared session each: a command, a select list, a file handle, a loop of reads | manager |
| Exports (`utils/export.py`) | none | tables of several records | - |
| Safety and exposure (`utils/safety.py`, `exposure.py`) | none | classify commands, hide tools | - |

**What is hard here.** A database session is one conversation, shared by the
threads that run tools, a watchdog that tears it down from another thread, and
worker threads that outlive the call that started them. Locks cover some of the
operations and not others. Sessions drop, and are replaced where a caller
happens to ask for one, also in the middle of a transaction, and between a
select and the reading of its list. A tool that reads many records must say
something of each, also when the session goes halfway. Managers are
evicted while a request still holds them. The OAuth store may be shared by
several processes, so a load and the revocation that follows it are two steps.
The knowledge file is shared by several servers with no lock at all
(`docs/configuration.md`, "Team Shared Knowledge"). `PROJECT.json` lists these
hazards at their lines.

**Who runs what.** In stdio mode one thread runs the tools and there is no
watchdog. With streamable HTTP the tools run on the server's thread (they are
plain functions), the watchdog has a thread and an event loop of its own
(`server.py`, `run_watchdog_sync`), and every check a further thread. The locks
of the manager and the registry, and the tests in `tests/edge/`, are written
for several threads that run tools, so both the deployments as they are and
several tool threads are instances here. The memory store belongs to one
process; the SQLite store may be shared.

## 2. Modules

| Module | Models | Proofs |
| --- | --- | --- |
| `ConnectionManager` | `connection.py`, `tools/transaction.py` | `ConnectionManagerProofs` |
| `QueryService` | what `ConnectionManager` promises the callers of `execute_command` | `ConnectionManagerProofs` |
| `ConnectionRegistry` | `registry.py` | `ConnectionRegistryProofs` |
| `Watchdog` | `utils/watchdog.py`, with arbitrary callbacks | `RecoveryProofs` |
| `Recovery` | `Watchdog` with its callbacks (`server.py`), the registry's managers and the requests | `RecoveryProofs` |
| `OAuthProvider` | `auth/provider.py`, `auth/storage.py`, `auth/sqlite_storage.py` | `OAuthProviderProofs` |
| `Records` | `utils/dynarray.py`, `tools/files.py`, `tools/update.py` | `RecordsProofs` |
| `Exports` | `utils/export.py`; extends `Records` | `RecordsProofs` |
| `ReadTools` | `tools/query.py`, `tools/dictionary.py`, the reading half of `tools/files.py`, `list_catalog` of `tools/subroutine.py` | `ReadToolsProofs` |
| `KnowledgeStore` | `utils/knowledge.py`, `tools/knowledge.py` | `KnowledgeStoreProofs` |
| `ToolCall` | `identity.py`, `credentials.py`, the tool path of `server.py`, the call of `utils/audit.py`; composes `ConnectionRegistry` | `ToolCallProofs` |

`MC<Module>` gives the constants that a `.cfg` file cannot write down, and
`MC*.cfg` are the runs. `PROJECT.json` maps every definition to its lines. Next
to some definitions stands a *mutant*: the same definition with a plausible bug.
Put in its place, it makes TLC report the property the mutant is listed with, so
each property is known to be able to fail.

### What a step is

A step is the code between two points where a thread can block, be scheduled
away with something at stake, or see another process: a lock, a driver call, a
storage call, a wait. Assignments between two such points are one step, although
the interpreter could switch threads there; the windows that remain are the ones
in which a thread waits for the network, which are longer by orders of
magnitude. A driver call that changes the server *takes effect* in one step and
*returns* in another, so that a lost session, a teardown or another caller may
come between.

### ConnectionManager

The variables are the manager's fields, the two locks by holder, what the driver
and the server know of each session (`status`, `dbTx`), the commands in flight
(`running`, `orphans`) and, per thread, a program counter `pc`, the operation
`op`, the session or handle it holds (`mine`) and its answer (`reply`).
`OpsOf[t]` says which operations thread `t` calls, and so is the deployment.

* `get_session` is `GetSession`, `DialReturns`, `VerifySession` and
  `SessionEstablished`; every operation that needs a session goes through them
  and goes on at `Continue(op)`.
* `execute_command` is `ExecuteCommand`, `TakeCommandLock`, get_session,
  `StartCommand`, then either `WorkerCompletes` and `CommandReturns`, or
  `AbandonCommand`, which leaves its worker behind as an orphan (`OrphanEnds`)
  and goes on as a forced disconnect.
* `open_file` is `UseFile` and `FileOpened`; begin, commit, rollback, read,
  write and the select list end in `CallTakesEffect` and `CallReturns`.
* connect, disconnect, health_check and force_disconnect take no lock, and
  neither do their actions.

The driver may raise where the code swallows it. A `close()` that raises inside
`force_disconnect` leaves a session that the manager forgets and the server keeps
(`LoseSession`: its status becomes `adrift`), and so does an `is_active` that
raises in `get_session` (`DiscardSession`, which closes nothing). The history
`by_tool` says whether the connect tool, which dials under no lock, opened the
session.

An operation that its first test refuses (`begin` inside a transaction) is one
step that only answers. Refusals that change nothing (read-only mode, a missing
confirmation) are left out.

`QueryService` is the abstract specification: no lock, dial, worker or label. A
query is asked, served on a session, ended or stopped, and answered; sessions end
and retire at any time. `ServesQueries` is its specification with the variables
that the manager implements (`QueriesAt`, `QueriesOn`, `Retired`, `Lost`). What it
adds to `CommandsAreSerialized`: one query at a time on all sessions together,
none on a session on which one was *ever* given up, whether or not that one still
runs, and one answer to each, `ok` only from a session that lived to the end. It
has no code of its own, so `PROJECT.json` maps none of it.

### ConnectionRegistry

Each block under the registry's lock is one step; closing an evicted manager is
a step of its own outside the lock, and `disconnect_all`, which closes sessions
while it holds the lock, keeps `lock` across steps. A manager is reduced to
whether it has a session open: a request that uses it opens one (`UseSession`),
whether or not the registry still knows it, and the disconnect tool closes one
(`Disconnect`). A close may fail (`CloseFails`): `disconnect()` then answers
`False` with its session still open, and both an eviction and `disconnect_all` drop
the manager all the same. The history `adrift` holds the managers whose session
nobody will close. `disconnect_all` is called only by `reset_connection_manager`.

### ToolCall

A call arrives with a bearer token the SDK has just checked (`Arrive`),
`current_caller()` looks the token up again (`CurrentCaller`), the credential map
gives the login (`CurrentLogin`), and `Resolve` or `Refuse` follows. From there
the steps are those of `ConnectionRegistry`, instantiated as `R` with the same
variables; `GetManager` adds the login the new manager is created with. `Finish`
is the wrapper around the tool: with `AuditEnabled`, what the client gets is
what the code of the audit wrapper makes of it (`Answer`). Tokens end at any time
(`TokenEnds`), and the watchdog's callback tears sessions down (`TornDown`).
Shared mode is the instance in which `LoginOf` is constant; in stdio mode there
is one caller, who is always known. That a token names the subject it was stored
with is taken from `OAuthProvider`.

### Watchdog and Recovery

In `Watchdog` the loop's task is waiting, checking or forcing, and a check passes
(`CheckPasses`) or fails (`CheckFails`) as it likes. `stop()` has no caller in
the repository; it is part of the class and modelled as one.

`Recovery` extends it with what the two callbacks are wired to. A check lists the
managers (`CheckBegins`) and asks them one by one (`ProbeAnswers`): it passes only
at the end of the list, and a login that hangs stops it. A teardown lists them
too and closes them one by one (`DisconnectNext`). Meanwhile requests open
sessions, reorder the registry and evict (`Request`), sessions are closed, hang
and recover. The histories `silent` and `older` are the logins that hung since
the check began and the sessions that were open when the teardown did. Every step
of `Recovery` is a step of `Watchdog` or leaves its variables alone.

### OAuthProvider

The store is one set of rows with a kind, a secret (a number), a client, a
subject and whether their time is past. A step is one storage call of one
worker. A row carries, as history, the sign-in it descends from. `Durable`
chooses what a restart loses. The identity provider is external: it answers with
any user, or fails.

### Records

Splitting text at its marks loses nothing, so a record is a sequence of fields,
each a sequence of values, each a sequence of texts. JSON values are modelled
with the difference between a scalar and a list of one, because the code treats
them differently on the way in and cannot tell them apart on the way out. The
number 0 stands for the values that are false in Python. The driver's in-place
update is external, modelled after its use in `tools/update.py`.

### Exports

The tables of `records_to_csv` and `records_to_json`: the columns are the fields
some record has, a record gives one row, or as many rows as its longest field has
values. Delimiters are not escaped by the code (a text with `|` or `;` in it
reads as two), so the model has none in its texts.

### ReadTools

A call (`call[c]`) records what it is about (`asked`), what it has still to read
(`todo`), what it has (`got`, `errors`), and the sessions its select list and its
file handle belong to (`cursor`, `handle`). The manager is reduced to what these
tools see of it: the session's number, whether it is alive, its active select
list, and the session each cached handle was opened on. A command is one step.

| Tool | Steps after `Begin` |
| --- | --- |
| `execute_query` | `Query` |
| `get_select_list` | `Select`, `Cursor`, `Fetch`..., `EndOfList` |
| `analyze_file_structure` | `Open`, `Select`, `Cursor`, (`Fetch`, `Read`)..., `EndOfList` |
| `list_catalog` | `List`, and if that shows nothing `Select`, `Cursor`, `Fetch`..., `EndOfList` |
| `list_files`, `get_account_info` | `List` |
| `read_records`, `export_to_json`, `export_to_csv`, `get_field_definition` | `Open`, `Read`..., `ReadsEnd` |
| `list_dictionary` | `List`, `Open`, `Read`..., `ReadsEnd` |
| `describe_file` | `Stat`, `Open`, `List`, `Read`..., `ReadsEnd` |

`Fails` is the exception any of the calls may raise. A listing is a sequence of
names between the lines that stand around them (`Printed`), and each tool has its
own test for which lines are names (`DictionaryIds`, `DescribedIds`, ...). Names
are told apart by what these tests tell apart: `Listish`, `System`, `Numeric`,
`Headerish`, `Verbs` (an item named `COUNT`) and `Headings` (a file named
`FILE.NAME`). The history `seen` is the list a call's cursor found, until another
call takes from it or replaces it (`Touches`); `crossed` holds the calls that read
a list another call selected, had theirs read by another, or read from a dead file
handle.

### KnowledgeStore

The file is a sequence of sections. A save reads the file (`Begin`), reads it
again to resolve the name and looks the result up in the first reading
(`MatchTopic`), empties the file (`OpenFile`) and writes it (`WriteFile`); other
servers act in between. Names are names up to case; `Starts` says which names
begin with the first word of which. Content is a note that may be followed by a
header line, after a newline or after a bare carriage return: the second is not
escaped on the way in, and is a line of its own when the file is read in text mode.
`Neutralized` is therefore what the regular expression does, not what it is for,
and `Appended` escapes nothing. `OpsOf` says what each server is asked for.

The histories: `named`, what somebody asked to save; `forgeable`, the header lines
that nothing escaped; `known` and `told`, what callers were told is saved, under
which topic, and which topic their name stands for. Once two operations overlap, or
a server is killed in one (`raced`), nothing is known any more. The search and the
listings are left out.

## 3. Runs

| Run | Instance | Shows | States |
| --- | --- | --- | --- |
| `MCStdio` | 1 thread, every tool, 2 files, 3 sessions | handles and transaction follow the session; but for a driver that raises, no leaked session, and timed-out work is stopped | 109 k |
| `MCHttp` | 2 threads: every tool; queries, checks and teardowns; 2 sessions | commands are serialized; the manager implements `QueryService`; the inductive invariant `IndInv`; the record tracks the session; a burst opens one session; every call ends that is not in, or behind, a driver call that never returns | 171 k |
| `MCRegistry` | 2 callers, reset, teardown; 2 slots, 3 logins, 4 managers, 5 requests | bounded, separate, evicts the right slot and closes it, or has tried to | 667 k |
| `MCToolCall` | 2 callers, 3 tokens, 2 logins, 1 slot, 3 requests, teardown | work is done under one's own login; nobody waits for another's close | 579 k |
| `MCWatchdog` | `Recovery` with a limit of 3 failures, 3 logins, 2 slots | teardowns are earned and complete, one loop, no check passes over a hung login, a hung session is let go of in the end | 70 k |
| `MCAuthOneWorker` | 1 process, 2 applications, 6 secrets | one refresh token, final revocation, one client id | 750 k |
| `MCAuthWorkers` | 2 processes, 2 clients, 5 secrets | single use, kept client, kept subject, expiry | 300 k |
| `MCRecordTools` | 1 client, 2 positions, 7 kinds of values | round trip, accessors, export tables, local edits | 9 k |
| `MCReadTools` | 1 client with every reading tool, 1 that selects; 5 names, limit 2, 2 sessions | a complete answer is the whole list the call found, nothing disappears unreported but what the tests take for the frame of a listing, only the unreadable is passed over | 7.1 M |
| `MCKnowledge` | 2 servers, one saves and deletes and may be killed, one appends and reads; 2 names alike; header lines in content, escaped and not | no topic but those named or not escaped, none of them twice; while they take turns, knowledge is kept and found | 1.56 M |
| `MCCommit` | 1 thread, every tool | *violated*: nobody believes uncommitted work was committed | |
| `MCAudit` | as `MCToolCall`, with auditing on | *violated*: auditing does not change the answer | |

**Bounds.** Sessions bound the number of reconnects: every property relates a
session to at most one that replaces it, so two show each, and three let a
second replacement happen; with two, a session that is lost to a raising driver
still leaves one to go on with. Two threads are enough for a race over a lock or a
row, and one of the two in `MCHttp` makes the calls of the watchdog and its
check, which take no lock. Two slots for
three logins make both hits and evictions happen, and a fourth manager an
eviction of a slot that was created by one. One slot for the two logins of
`MCToolCall` makes every change of login an eviction, and the third person has
no login at all. Secrets bound sign-ins and
rotations: five are a sign-in (state, code's secret, tokens' secret) and two
more, enough for two rotations or a second sign-in begun. A record of two
fields with two values has a first and a last at each level, and every JSON form
is among the inputs; the two records of an export are the stored one and the one a
client holds, so their fields and lengths differ in every way two fields allow. A
limit of three failures tells "met", "passed" and "not met" apart, and three
logins over two slots make a request evict one the check or the teardown has
still to visit. In `MCReadTools` the samples are empty, exactly as long as the
limit, and longer; each name occurs readable and unreadable, and each kind of
name is printed; two sessions make one loss and one reconnect, wherever they
hit; and `MaxIds` ends the loops that other calls can keep going (below), one id
after the limit. The two names of `MCKnowledge` are alike in one direction
("CUSTOMS file" starts with the word that begins "CUST file"), so a name changes
its topic as the other comes and goes; one of them also stands in content as a
header line. Three sections bound the file: a topic, its neighbour, and one that
is forged.

**Fairness.** `ConnectionManager!FairSpec`: a thread takes its own next step
(`OwnSteps`, weak), which includes the timeout of a query, and a lock that is freed
again and again is got in the end (strong: Python's locks are not fair, but do not
starve a waiter forever). Nothing is assumed of new calls, of the server, or of the
driver: it gives no dial, close, open or transaction call a timeout, so none of
`DriverReturns` is fair. `CallsEnd` therefore says that every call ends, or that
some thread is stuck for ever in such a call or at a lock behind one (`Stuck`). A
query that hangs is no such call: it is given up.

`Recovery!FairRecovery`: the interval passes, a check tried again and again has an
outcome (its timeout), and a teardown goes on from manager to manager, for which
`close()` has to return or raise: it runs on the loop's own thread. Nothing is
assumed of requests or of the server. `ToolCall!FairSpec` lets a thread that can go
on do so, and assumes nothing of the closes: they may hang for ever.

**Where the code differs from what it says.** Two runs check a statement of a
test and of a comment that TLC finds violated:

* `MCCommit` (`tests/edge/test_connection_chaos.py:38`): the session drops inside
  a transaction, `commit_transaction` tests the flag, `get_session` replaces the
  session, and the commit succeeds on the new one with nothing in it.
* `MCAudit` (`server.py:120`, "auditing must not break the call it records"): the
  wrapper passes `credentials=` to `audit_tool_call`, which has no such parameter
  (`utils/audit.py:322`). With auditing on, every tool call ends in a `TypeError`
  after the tool has taken effect, and nothing is logged.

The same models show the following, which is why the runs above are restricted
as they are or do not claim the statement:

* `force_disconnect` takes no lock: it closes one session while another thread
  dials or closes, and then forgets the one that was opened meanwhile
  (`connection.py:516`), which the comment at line 239 says must not happen.
  `NoLeakedSession` is claimed for one thread; `BurstOpensOne`, for any, is about
  the dials of `get_session` only.
* A `close()` that raises is suppressed, and its session forgotten as if it were
  closed (`connection.py:503-506`): it stays open on the server, and a query given
  up at its timeout runs on there, while its caller is told that "The database
  session was closed to stop the work" (line 367). An
  `is_active` that raises (line 274) has a living session replaced without closing
  it. `NoLeakedSession` and `AbandonedWorkIsStopped` are about the other sessions.
* Nothing bounds a driver call but a query (`connection.py:146`, `190`, `305`,
  `505`): one that hangs under `_session_lock` or `_command_lock` holds up every
  other caller, and a `close()` that hangs after a timeout holds up the caller that
  timed out. `CallsEnd` names these.
* A manager whose `disconnect()` fails keeps its session (`connection.py:200-202`),
  and the registry drops it all the same, logged at most (`registry.py:110-113`,
  `131-132`); `EvictedSessionsClosed` names this case.
* `health_check` runs its command on the session beside a query
  (`connection.py:486`); `CommandsAreSerialized` is about queries.
* A teardown may close another session than the one an abandoned query runs on
  (`connection.py:417`), and a handle opened on a session that is torn down
  meanwhile is kept for the next; `AbandonedWorkIsStopped` and
  `StateBelongsToSession` are claimed for one thread.
* A write after a silent reconnect is not part of the transaction that was begun
  (`connection.py:279`).
* A cached file handle is never checked (`connection.py:302`), and two threads
  may open the same file twice.
* A request that outlives its slot opens its manager's session again, beyond
  `max_connections` (`registry.py:69`); `EvictedSessionsClosed` names this case.
* `disconnect_all` closes sessions while it holds the registry's lock, so callers
  wait for a close that hangs (`registry.py:126`).
* Two processes that refresh with one token both rotate it (`provider.py:382`);
  `OneRefreshToken` is claimed for one process. So are `RevocationEndsLogin` (a
  revocation beside a rotation misses the token that is about to be stored) and
  `OneClientPerApp` (two that look an application up before either stores it).
* The tokens for a code name the client as their subject (`provider.py:300`), so
  the "Alice" of `server.py:87` is the application she signed in with.
* `update_value` reports another client's change between its two calls as its own
  (`tools/update.py:95`). With a single client there is nothing to get wrong, so no
  property is about the report.
* A list of one value is read back as a scalar (`dynarray.py:95`), and a scalar 0
  is written as nothing (line 97), where `tests/edge/test_multivalue_edges.py:146`
  says "A number in a field is stored as its text form"; `RoundTrip` is about what
  has been stored.
* Two servers that save at once lose one of the saves (`knowledge.py:255`), and can
  leave two topics where a name matches both; `KnowledgeKept` and `GetReturnsKnown`
  are claimed until the first race.
* A name is taken for a topic that starts with the name's first word
  (`knowledge.py:90`), whatever either is about: a save under "CUST file" may replace
  "CUSTOMS file". The answer says which topic it was, and that is what
  `KnowledgeKept` and `GetReturnsKnown` hold the store to.
* A header line in saved content is escaped after `\n` only (`knowledge.py:24`). One
  after a bare `\r` is written as it is, and read back in text mode as a line of its
  own: a topic that nobody named, against line 61 ("Content that cannot alter the
  file's structure"), `docs/hardening.md`, Finding 12, and
  `tests/edge/test_adversarial_input.py:174`. In appended content no header line is
  escaped at all (line 242). `NothingForged` and `TopicsUnique` except these lines,
  and `GetReturnsKnown` excepts names they may be taken for.
* A session that a request opens on an evicted manager is not in the registry, so
  the watchdog neither probes nor closes it (`registry.py:69`); `Recovery` is about
  sessions of managers in the registry.
* One hung login fails the check of all, and the teardown closes every login's
  session (`registry.py:143`, `149`), transactions included.
* A session lost between the select of `get_select_list` and the reading of its
  list is replaced, and the new one has no list: the answer is empty, and says
  it is complete (`tools/query.py:163-174`, against the comment at line 73 and
  `docs/hardening.md`, Finding 3). With another request's select in between, the
  ids are that request's. `CompleteMeansAll` holds a call to the list its cursor
  found, through every loss of session from there on, and to the one it selected
  only if nothing came between the two. A list from which another request takes ids
  meanwhile is excepted too.
* A selection of exactly `max_ids` ids is reported as truncated, with a warning
  that "more records matched" (`tools/query.py:178-194`).
* `analyze_file_structure` and `list_catalog` read a list to its end with no limit
  of their own, so selects of other requests can keep them going
  (`tools/dictionary.py:386`, `tools/subroutine.py:144`).
* `describe_file` still has the loose tests that were removed from
  `list_dictionary`: `LIST.PRICE` and `LISTED.DATE` are dropped
  (`tools/dictionary.py:287`, against the comment at lines 152-166 and
  `tests/test_tools/test_dictionary_names.py`). `get_account_info` takes a column
  header's first word for a file (line 479), `list_dictionary` drops an item named
  `COUNT`, `LIST`, `SORT`, `SELECT`, `SSELECT` or `LIST.ITEM` (lines 36-37) and
  `list_files` a file named `FILENAME` or `FILE.NAME` (`tools/files.py:53`), with no
  gap reported in either, `list_catalog` drops a program whose
  line has a word of the header in it (`tools/subroutine.py:184`), and all three
  listings of files and programs drop names made of digits. `NothingDisappears` is claimed for
  `list_dictionary` and `list_files`, and names the exceptions, as
  `OnlyUnreadableSkipped` does for the others.
* `list_dictionary` asks for at most 1000 items (`SAMPLE 1000`,
  `tools/dictionary.py:144`) and does not say so; the listing of the model is what
  is printed.
* An export whose session is lost halfway answers "success" with the records read
  so far (`tools/files.py:423`): the reads that fail are passed over like records
  that do not exist.

## 4. Proofs

All theorems hold for every value of the constants that satisfies the named
assumptions, and `tlapm` checks them without leaving anything out.

* **ConnectionManagerProofs.** `SerializedCommands` needs the inductive invariant
  `IndInv`: that commands do not overlap follows from the lock, but that a
  command never meets an *abandoned* one needs that an abandoned query's session
  is never current again once its caller has left the lock (`OrphansRetired`),
  which in turn needs that a dialled session is a new one and that the caller
  that gave up holds the lock until the session is forgotten (`LocksHeld`).
  `ManagerServesQueries` is the refinement of `QueryService`. Sessions go one way
  (`SessionMoves`): one that is dialled is new, so one that is not current any more
  never is again. A query gets its session from `get_session`, and one that is
  given up keeps the command lock until there is no current session
  (`QueryMoves`). So a retired session stays retired, and each step of a query
  is one of the service's, or none: the ten points at which a query can stand
  are four to its caller. `NoStaleRecord` is inductive as it stands. `BurstOpensOneSession` is
  inductive with `LocksHeld`, for any callers: whoever dials in `get_session` holds
  the session lock, so between its look and its dial only the connect tool can put
  a session there. `SoloStateBelongs`, `SoloLeaksNothing` and `SoloAbandonedStops`
  assume `OneThread`, the stdio server's single caller: `SoloInv` says what that
  caller knows of the session at each point where it stops, and that only the
  session it gave a query up on, and is about to close, can be both abandoned
  and open; if that close raises, the session is adrift. With two
  callers all three properties are false (section 3).
* **ConnectionRegistryProofs.** `RegistryBounded` from `MaxConnections > 0`, and
  `RegistrySeparatesLogins`, whose invariant adds that every manager in a slot
  has been created, so that a new one is none of them. `EvictsOldest` rests on
  `OrderInv`: the slots stand in the order in which their logins were last asked
  for, which a hit, a miss and an eviction each keep. `EvictedAreClosed` rests on
  `ClosedInv`, which says of every open session where it is: in a slot, opened
  again by a request that outlived its slot, left by a close that failed, or on the
  list of the caller that evicted it; and that `disconnect_all` still has every open session on its list
  for as long as it holds the lock.
* **ToolCallProofs.** `OwnLogin`: the login a manager was created with is the login
  of its slot, and a caller holds a manager of its own login even after the slot
  is gone, because managers are never reused. That every step of a call is a step of the registry, or a
  stutter, holds by the way `ToolCall` is built, and is a lemma (`CallsUseRegistry`).
  `CallsKeepPromises` is what it is for: the theorems of
  `ConnectionRegistryProofs`, instantiated, hold of tool calls. `ToolCallTypeOK`
  takes the registry's half of the types from there too, and adds where a call
  is while it has a manager, a token or neither.
* **RecoveryProofs.** Of the loop alone, `TeardownEarned`: the counter is at most
  the length of the run of failures at the end of the recorded outcomes; and
  `OneLoop`, for which the invariant adds what the caller of `stop()` waits for.
  `RecoveryIsWatchdog` is the refinement that carries both over to the loop with
  its registry. `RecoveryInv` says that a login without a slot has no session,
  that what hung since the check began is still on its list, and that what is
  older than the teardown is still on its: hence `HungLoginFailsCheck` and
  `TeardownIsComplete`. The second needs `OneLoop` as well, or `start()` could
  find a loop in the middle of a teardown.
* **OAuthProviderProofs.** `IssuedToItsClient` and `SubjectKept` follow from
  `KeptInv`: a row, and what a worker holds of one, belongs to the client of its
  sign-in, and a token names that client. `LoginsUsedOnce` needs `PlacesInv`:
  a sign-in is in at most one place (a row, or a worker that has claimed
  it), and one that has not begun is in none, so that a new secret is new. These
  hold for any number of workers, clients and secrets, with restarts, and so does
  `ExpiredGoesNowhere`, which looks at each step from a state of `PlacesInv`.
  The others assume `OneWorker`. `RefreshInv`: no refresh token is stored
  while the worker is about to store one, what it rotates or revokes is the one
  there is, and of a revoked sign-in there is nothing left but access tokens and
  their revocation; hence `RefreshedOnce` and `RevokedEnds`. `ClientsInv`: the
  application the worker is registering is not registered; hence `RegistersOnce`.
  With two workers all three are false (section 3).
* **ReadToolsProofs.** `CompleteAnswers`: for a call whose list nobody else has used
  since its cursor found it, what it has taken followed by what is left is that list
  (`Holding`); for one whose list has been its own since the selection, it is what it
  selected; and it has taken less than the limit (`Selecting`, a part of the invariant
  `ReadInv`). No other call can change that without entering `crossed` or emptying
  `seen` (`Leaves`), and a session that is lost never comes back, so a list that is
  gone is never read as empty. `BatchesAccount`: what is returned,
  reported and still to be read adds up to what was asked for. `AllAccounted` and
  `SkipsOnlyUnreadable` need the order as well. `TrackInv` says of each tool what
  it is to take (all it was asked for; all but system items; what can be read),
  and that what it has taken followed by what it will take of its `todo` is just
  that; for an analysis, `todo` is followed by what is left of its list. A loss of
  the session does not break this for a batch, which reports what it cannot read
  any more, and makes the other calls `crossed`.
* **RecordsProofs.** `RecordRoundTrip`: joining undoes splitting, level by level,
  and padding puts every field back in its position. `EditIsLocal` follows for
  every edit, and `RecordAccessors` is the same argument for the functions that
  split a record without keeping the parts. All rest on `RecordTypeOK`.
  `TablesAreRight`: the
  columns are the positions some record has, each once; the rows of a record
  stand together, as many as its longest field has values; hence the cell a
  reader looks up is there once, and holds that value.
* **KnowledgeStoreProofs.** None of its theorems assumes anything of names or of
  content. Every operation writes the file it read with one section replaced by none,
  one or two, or with sections added: the lemmas `SpliceMoves`, `SpliceSound`,
  `SpliceHas` and `SpliceSettles` say what such a splice does to the order of the
  sections, to topics, to notes and to the topic a name resolves to. For
  `NoForgedTopic` and `NoDuplicateTopic`, `SoundInv` says that every reading of the
  file that a caller holds is as sound as the file, so it does not matter how old it
  is or who writes last. For `KnowledgeIsKept` and `SavedIsFound`, `KeptInv` says
  that until the first race only one caller is busy, that its copy is the file as it
  will be read (`TurnsInv`), and that the file bears out all that callers were told
  (`Good`), which its own write keeps. A kill between emptying and writing the file
  is a race.

The provers cannot instantiate the library's induction theorems, whose hypothesis
is an operator, so what would be induction over the numbers or the sequences is
done with sets: `NatInduct` and `SeqInduct` say that a set with zero (the empty
sequence) that is closed under successor (under appending) has them all, and both
follow from `WFMin`. With them, `FlattenSeq` is reasoned about: the tables of an
export and what a tool keeps of a listing (`Kept`) are written with it.

Only model-checked: everything under fairness (`CallsEnd`, `HungIsReset` and
`NobodyWaitsForAClose`), which is out of the prover's reach. Every invariant and
every action property that a passing run checks is also proved.

## 5. Not modelled

* Safety and exposure: pure classification of command text by regular expressions
  and lists of names. A command here is one that was let through.
* Of `server.py`, start-up and the transports; of the audit log, everything the
  wrapper's failing call does not reach.
* The identity-provider adapters (HTTP), the driver loader, configuration and
  resources: input and output, or values read once.
* `execute_tcl` and `get_file_info` are one command each; `validate_query` makes
  none; `call_subroutine` does what the subroutine does. `list_files` with a
  pattern parses the output of a `SELECT`, whose form the code does not tell.
* `close_file`, `list_connections` and `delete_client` have no caller that changes
  anything.
* Sorting, percentages, column layout and the text of CSV and JSON.

## 6. Plan

1. `MCReadTools` with the locks and timeouts of `ConnectionManager`, in place of
   a command that is one step.
2. Safety and exposure over a small command language.
