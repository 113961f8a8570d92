------------------------------ MODULE ReadTools ------------------------------
(***************************************************************************)
(* The tools that only read: lists of record ids, batch reads and exports, *)
(* the dictionary, the listings of files and programs.                     *)
(*                                                                         *)
(* None keeps state of its own, but all share one session of the manager,  *)
(* and most make several calls on it: a select leaves its list with the    *)
(* session, where a later call finds it; a file handle dies with its       *)
(* session; and a dropped session is replaced, without a word, by the next *)
(* call that asks for one.  A command is one step here (its lock, its      *)
(* worker and its timeout are in module ConnectionManager).                *)
(*                                                                         *)
(* A line of a listing is a name, or one of the lines around the names.    *)
(* Sorting, percentages and layout of the answers are left out.            *)
(***************************************************************************)
EXTENDS Naturals, FiniteSets, Sequences, SequencesExt

CONSTANTS
  Clients,      \* threads that run tools
  ToolsOf,      \* the tools each of them calls
  Names,        \* record ids, dictionary items, file and program names
  Listish,      \* those that begin with LIST or contain LISTED: LIST.PRICE
  System,       \* those that begin with @
  Numeric,      \* those made of digits
  Headerish,    \* those that contain a word of the catalog's header: PRINT.NAMES
  Verbs,        \* those that are a listing verb as they stand: COUNT, SORT
  Headings,     \* those that are a heading of LISTFILES as they stand: FILE.NAME
  Samples,      \* what is requested, selected or printed: sequences of names
  Stores,       \* what is stored: functions from names to Kinds
  MaxRecords,   \* config.max_records, which a caller's own limit only lowers
  MaxSessions,  \* bounds the reconnects
  MaxIds        \* bounds the ids a call takes: others that select can keep it going

Noise == {"header", "echo", "rule", "summary"}
Kinds == {"data",     \* a record; in a dictionary, an item of type D, I or A
          "other",    \* a record; in a dictionary, an item of another type
          "empty",    \* the read returns nothing
          "raises"}   \* the read raises: no such record, or not readable
Tools == {"query", "select", "analyze", "catalog", "files", "account",
          "read", "export", "dictionary", "describe", "field"}
Files == {"file", "DICT"}   \* a file, and its dictionary

Nobody == "nobody"

ASSUME ClientsAssumption == Nobody \notin Clients
ASSUME ToolsAssumption  == ToolsOf \in [Clients -> SUBSET Tools]
ASSUME NamesAssumption  == /\ Names \cap Noise = {}
                           /\ Listish \cup System \cup Numeric \cup Headerish \subseteq Names
                           /\ Verbs \cup Headings \subseteq Names
ASSUME StoresAssumption == Stores \subseteq [Names -> Kinds] /\ Samples \subseteq Seq(Names)
ASSUME LimitAssumption  == MaxRecords \in Nat \ {0} /\ MaxSessions \in Nat \ {0} /\ MaxIds \in Nat

VARIABLES
  stored,    \* what a read of each name finds, in the file or the dictionary
  session,   \* the manager's session, numbered; 0 before the first
  up,        \* whether the session is alive (is_active)
  selected,  \* the active select list of the session: ids nobody has read yet
  cached,    \* the session each cached file handle was opened on; 0 without one
  call,      \* per client: the tool it runs, how far it is, and its answer
  owner,     \* history: the client whose selection the active list is, if any
  crossed,   \* history: the clients whose call read a list that was not theirs, had
             \* theirs read by another, or read from a file handle that was dead
  seen       \* history: per client, the list its cursor found (the set of it), until
             \* another call reads from that list or replaces it

conn == <<session, up, selected, cached>>
vars == <<stored, conn, call, owner, crossed, seen>>

\* A call that has not begun.  "asked" is what it is about: the ids requested,
\* selected, or printed.  "cursor" and "handle" are the sessions they belong to.
NoCall == [pc |-> "idle", tool |-> "none", asked |-> <<>>, todo |-> <<>>, got |-> <<>>,
           errors |-> <<>>, cursor |-> 0, handle |-> 0, answer |-> "none"]

Init ==
  /\ stored \in Stores
  /\ session = 0 /\ up = FALSE /\ selected = <<>>
  /\ cached = [f \in Files |-> 0]
  /\ call = [c \in Clients |-> NoCall]
  /\ owner = Nobody /\ crossed = {}
  /\ seen = [c \in Clients |-> {}]

At(c, pc) == call[c].pc = pc
Step(c, k) == call' = [call EXCEPT ![c] = k]

\* What a call returns: its findings, or an error and nothing else.
Answered(k, answer) ==
  [k EXCEPT !.pc = "done", !.answer = answer, !.todo = <<>>, !.cursor = 0, !.handle = 0]
Failed(k) == [NoCall EXCEPT !.pc = "done", !.tool = k.tool, !.answer = "error"]

-----------------------------------------------------------------------------
(* The manager, as far as these tools see it.                              *)

Alive(s) == up /\ s = session

\* get_session(): the session, or a new one.
GetSession ==
  /\ up \/ session < MaxSessions
  /\ session' = IF up THEN session ELSE session + 1
  /\ up' = TRUE

\* A new session has no list, and the manager forgets the handles of the old one.
KeepsList ==
  /\ selected' = IF up THEN selected ELSE <<>>
  /\ owner' = IF up THEN owner ELSE Nobody

KeepsHandles == cached' = IF up THEN cached ELSE [f \in Files |-> 0]

\* The server ends the session; or a command of somebody times out, and a forced
\* disconnect closes it and forgets the handles at once.
SessionDrops ==
  /\ up
  /\ up' = FALSE
  /\ cached' \in {cached, [f \in Files |-> 0]}
  /\ UNCHANGED <<stored, session, selected, call, owner, crossed, seen>>

-----------------------------------------------------------------------------
(* What a listing says: the names, without the lines around them.  Names   *)
(* that begin like a rule are dropped by all, and are not among Names.     *)

Printed(names) == <<"header", "echo", "rule">> \o names \o <<"summary">>

\* The lines that are in S, in their order.
Kept(lines, S) == FlattenSeq([i \in DOMAIN lines |-> IF lines[i] \in S THEN <<lines[i]>> ELSE <<>>])

\* Mutant of DictionaryIds: any line that begins like the echoed command is it.
DictionaryIdsLoose(lines) == Kept(lines, Names \ (System \cup Verbs \cup Listish))

\* list_dictionary: a line that is a verb, or begins with one and a space, is the
\* echo, so that an item named COUNT is taken for one; the header is @ID, dropped
\* as a system item.
DictionaryIds(lines) == Kept(lines, Names \ (System \cup Verbs))

\* describe_file takes LIST.PRICE for the echo and LISTED.DATE for the summary.
DescribedIds(lines) == Kept(lines, Names \ (System \cup Listish))

\* _parse_file_list: the heading as a whole line, whether the listing's or a file of
\* that name; the summary by its shape, counts by their digits.
FileNames(lines) == Kept(lines, Names \ (Numeric \cup Headings))

\* get_account_info does not know the header, and takes its first word for a file.
AccountFiles(lines) == Kept(lines, (Names \ Numeric) \cup {"header"})

\* _parse_catalog_output: the header's words anywhere in a line make it a header.
CatalogNames(lines) == Kept(lines, Names \ (Numeric \cup Headerish))

-----------------------------------------------------------------------------
(* A call begins.                                                          *)

FirstStep(tool) ==
  CASE tool = "query"    -> "querying"
    [] tool = "select"   -> "selecting"
    [] tool = "describe" -> "stat"
    [] tool \in {"analyze", "read", "export", "field"}        -> "opening"
    [] tool \in {"catalog", "files", "account", "dictionary"} -> "listing"

FileOf(tool) == IF tool \in {"dictionary", "describe", "field"} THEN "DICT" ELSE "file"

Requests(tool) == CASE tool \in {"read", "export"} -> Samples
                    [] tool = "field"              -> {<<n>> : n \in Names}
                    [] OTHER                       -> {<<>>}

Begin(c, tool) ==
  /\ At(c, "idle")
  /\ \E ids \in Requests(tool) :
       LET k == [NoCall EXCEPT !.pc = FirstStep(tool), !.tool = tool, !.asked = ids, !.todo = ids]
       IN  Step(c, IF Len(ids) > MaxRecords THEN Failed(k) ELSE k)
  /\ UNCHANGED <<stored, conn, owner, crossed, seen>>

\* The client takes the answer.  What is left of its list is nobody's.
Done(c) ==
  /\ At(c, "done")
  /\ Step(c, NoCall)
  /\ owner' = IF owner = c THEN Nobody ELSE owner
  /\ crossed' = crossed \ {c}
  /\ seen' = [seen EXCEPT ![c] = {}]
  /\ UNCHANGED <<stored, conn>>

\* A command, a connection, an open or a next() that raises ends the call; but for
\* the second half of list_catalog, which drops the error.
Fails(c) ==
  /\ call[c].pc \in {"querying", "stat", "opening", "listing", "selecting", "cursor", "fetching"}
  /\ \/ Step(c, Failed(call[c]))
     \/ /\ call[c].tool = "catalog" /\ ~At(c, "listing")
        /\ Step(c, Answered(call[c], "success"))
  /\ UNCHANGED <<stored, conn, owner, crossed, seen>>

\* The active list changes under those who are reading one.
Touches(c) ==
  seen' = [d \in Clients |-> IF d # c /\ At(d, "fetching") THEN {} ELSE seen[d]]

-----------------------------------------------------------------------------
(* Commands.                                                               *)

\* execute_query: a LIST without a SAMPLE clause gets one, and says so; a SELECT
\* leaves its ids as the active list.
Query(c) ==
  /\ At(c, "querying")
  /\ GetSession /\ KeepsHandles
  /\ \E rows \in Samples, verb \in {"LIST", "SELECT", "other"} :
       LET k == [call[c] EXCEPT !.asked = rows]
       IN  /\ Step(c, IF verb = "LIST"
                        THEN [Answered(k, "truncated") EXCEPT !.got =
                                SubSeq(rows, 1, IF Len(rows) > MaxRecords THEN MaxRecords ELSE Len(rows))]
                        ELSE [Answered(k, "complete") EXCEPT !.got = rows])
           /\ IF verb = "SELECT" THEN selected' = rows /\ owner' = Nobody /\ Touches(c)
              ELSE KeepsList /\ UNCHANGED seen
  /\ UNCHANGED <<stored, crossed>>

\* describe_file: FILE.STAT.
Stat(c) ==
  /\ At(c, "stat")
  /\ GetSession /\ KeepsList /\ KeepsHandles
  /\ Step(c, [call[c] EXCEPT !.pc = "opening"])
  /\ UNCHANGED <<stored, crossed, seen>>

\* LIST DICT, LISTFILES, CATALOG: what is printed is parsed; a catalog that shows
\* nothing is searched.
Listed(k, names) ==
  LET lines == Printed(names)
      told  == [k EXCEPT !.asked = names]
  IN  CASE k.tool = "dictionary" -> [told EXCEPT !.todo = DictionaryIds(lines), !.pc = "opening"]
        [] k.tool = "describe"   -> [told EXCEPT !.todo = DescribedIds(lines), !.pc = "reading"]
        [] k.tool = "files"      -> [Answered(told, "success") EXCEPT !.got = FileNames(lines)]
        [] k.tool = "account"    -> [Answered(told, "success") EXCEPT !.got = AccountFiles(lines)]
        [] OTHER (* "catalog" *) -> IF CatalogNames(lines) = <<>> THEN [told EXCEPT !.pc = "selecting"]
                                    ELSE [Answered(told, "success") EXCEPT !.got = CatalogNames(lines)]

List(c) ==
  /\ At(c, "listing")
  /\ GetSession /\ KeepsList /\ KeepsHandles
  /\ \E names \in Samples : Step(c, Listed(call[c], names))
  /\ UNCHANGED <<stored, crossed, seen>>

\* SELECT: the ids become the active list of the session, in place of any other;
\* analyze_file_structure asks for a sample, and list_catalog first makes another
\* selection (of the VOC), which nobody reads.
Select(c) ==
  /\ At(c, "selecting")
  /\ GetSession /\ KeepsHandles
  /\ \E ids \in Samples :
       /\ call[c].tool = "analyze" => Len(ids) <= MaxRecords
       /\ selected' = ids
       /\ Step(c, [call[c] EXCEPT !.pc = "cursor", !.asked = ids])
  /\ owner' = c /\ Touches(c)
  /\ UNCHANGED <<stored, crossed>>

\* create_select_list() asks for the session once more.
Cursor(c) ==
  /\ At(c, "cursor")
  /\ GetSession /\ KeepsList /\ KeepsHandles
  /\ Step(c, [call[c] EXCEPT !.pc = "fetching", !.cursor = session'])
  /\ seen' = [seen EXCEPT ![c] = {selected'}]
  /\ UNCHANGED <<stored, crossed>>

-----------------------------------------------------------------------------
(* The loops.                                                              *)

\* Reading a list that is somebody else's, or nobody's.
ReadsList(c) ==
  crossed' = crossed \cup (IF owner = c THEN {} ELSE {c, owner} \ {Nobody})

\* The end of a select list.
EndOfList(c) ==
  /\ At(c, "fetching") /\ Alive(call[c].cursor)
  /\ selected = <<>>
  /\ Step(c, Answered(call[c], IF call[c].tool = "select" THEN "complete" ELSE "success"))
  /\ ReadsList(c)
  /\ UNCHANGED <<stored, conn, owner, seen>>

\* Mutant of Fetched: the limit is noticed one id late.
FetchedPast(k, id) ==
  LET taken == [k EXCEPT !.got = Append(@, id)]
  IN  CASE k.tool = "analyze" -> [k EXCEPT !.todo = <<id>>, !.pc = "reading"]
        [] k.tool = "select" /\ Len(taken.got) > MaxRecords -> Answered(taken, "truncated")
        [] OTHER -> taken

\* get_select_list stops at its limit, analyze_file_structure reads the record, and
\* list_catalog takes the name (of the pattern "*").
Fetched(k, id) ==
  LET taken == [k EXCEPT !.got = Append(@, id)]
  IN  CASE k.tool = "analyze" -> [k EXCEPT !.todo = <<id>>, !.pc = "reading"]
        [] k.tool = "select" /\ Len(taken.got) >= MaxRecords -> Answered(taken, "truncated")
        [] OTHER -> taken

\* next() takes an id from the list, whoever selected it.
Fetch(c) ==
  /\ At(c, "fetching") /\ Alive(call[c].cursor)
  /\ selected # <<>>
  /\ Len(call[c].got) < MaxIds
  /\ selected' = Tail(selected)
  /\ Step(c, Fetched(call[c], Head(selected)))
  /\ ReadsList(c) /\ Touches(c)
  /\ UNCHANGED <<stored, session, up, cached, owner>>

\* open_file(): a cached handle is returned as it is, dead or alive.
Open(c) ==
  LET f == FileOf(call[c].tool)
  IN  /\ At(c, "opening")
      /\ IF cached[f] # 0 THEN UNCHANGED <<conn, owner>>
         ELSE /\ GetSession /\ KeepsList
              /\ cached' = [g \in Files |-> IF g = f THEN session' ELSE IF up THEN cached[g] ELSE 0]
      /\ Step(c, [call[c] EXCEPT !.handle = cached'[f],
                    !.pc = CASE call[c].tool = "analyze"  -> "selecting"
                             [] call[c].tool = "describe" -> "listing"
                             [] OTHER                     -> "reading"])
      /\ UNCHANGED <<stored, crossed, seen>>

\* Mutants of Unread: what cannot be read is dropped; or, if it is not reported,
\* it ends the batch.
UnreadDropped(k, id, found) == k

UnreadEnds(k, id, found) ==
  IF k.tool \in {"read", "field", "dictionary"} THEN [k EXCEPT !.errors = Append(@, id)]
  ELSE [k EXCEPT !.todo = <<>>]

\* A record that is not there, or cannot be read: the batch goes on, and the tool
\* reports it, or passes over it.
Unread(k, id, found) ==
  IF k.tool \in {"read", "field"} \/ (k.tool = "dictionary" /\ found = "raises")
  THEN [k EXCEPT !.errors = Append(@, id)] ELSE k

\* describe_file shows only the types D, I and A.
Shown(tool, found) == found = "data" \/ (found = "other" /\ tool # "describe")

Read(c) ==
  /\ At(c, "reading")
  /\ call[c].todo # <<>>
  /\ LET id    == Head(call[c].todo)
         k     == [call[c] EXCEPT !.todo = Tail(@)]
         found == IF Alive(k.handle) THEN stored[id] ELSE "raises"
         after == IF Shown(k.tool, found) THEN [k EXCEPT !.got = Append(@, id)]
                  ELSE Unread(k, id, found)
     IN  Step(c, IF k.tool = "analyze" THEN [after EXCEPT !.pc = "fetching"] ELSE after)
  /\ crossed' = IF Alive(call[c].handle) THEN crossed ELSE crossed \cup {c}
  /\ UNCHANGED <<stored, conn, owner, seen>>

\* The batch is done.  One field that was not read is the whole answer.
ReadsEnd(c) ==
  /\ At(c, "reading")
  /\ call[c].todo = <<>>
  /\ Step(c, IF call[c].tool = "field" /\ call[c].errors # <<>> THEN Failed(call[c])
             ELSE Answered(call[c], "success"))
  /\ UNCHANGED <<stored, conn, owner, crossed, seen>>

-----------------------------------------------------------------------------
Next ==
  \/ SessionDrops
  \/ \E c \in Clients :
       \/ \E tool \in ToolsOf[c] : Begin(c, tool)
       \/ Done(c) \/ Fails(c)
       \/ Query(c) \/ Stat(c) \/ List(c) \/ Select(c) \/ Cursor(c)
       \/ EndOfList(c) \/ Fetch(c)
       \/ Open(c) \/ Read(c) \/ ReadsEnd(c)

Spec == Init /\ [][Next]_vars

-----------------------------------------------------------------------------
Gives(c, tool, answer) == At(c, "done") /\ call[c].tool = tool /\ call[c].answer = answer

Readable == {id \in Names : stored[id] \in {"data", "other"}}

\* What a selection's answer says, if "whole" is all there was.
Delivers(c, whole) ==
  /\ Gives(c, "select", "complete") => call[c].got = whole
  /\ Gives(c, "select", "truncated") =>
       IsPrefix(call[c].got, whole) /\ Len(call[c].got) = MaxRecords

\* Whether an answer is complete (query.py: "a partial answer that looks complete
\* is worse than an error").  "complete" is all of the list the call found, and
\* "truncated" its first ids, up to the limit, unless another call read from that
\* list or replaced it meanwhile; and if nothing came between the selection and
\* the call's cursor either, what it found is what it selected.  (A list lost or
\* replaced before the cursor is answered for as if it were the one selected.)
CompleteMeansAll ==
  \A c \in Clients :
    /\ \A list \in seen[c] : Delivers(c, list)
    /\ c \notin crossed => Delivers(c, call[c].asked)

BatchAccounted(c) ==
  LET k == call[c] IN
  Gives(c, "read", "success") =>
    /\ ToSet(k.got) \cup ToSet(k.errors) = ToSet(k.asked)
    /\ Len(k.got) + Len(k.errors) = Len(k.asked)

ListingAccounted(c) ==
  LET k == call[c] IN
  /\ Gives(c, "dictionary", "success") =>
       {x \in ToSet(k.asked) \ (System \cup Verbs) : stored[x] # "empty"} \subseteq ToSet(k.got) \cup ToSet(k.errors)
  /\ Gives(c, "files", "success") => ToSet(k.got) = ToSet(k.asked) \ (Numeric \cup Headings)

\* What was asked for or printed never just disappears, even when the session is
\* lost halfway: read_records returns or reports every id; list_dictionary every
\* item, but one that is empty or named like a listing verb; list_files every name,
\* but a number or one that is a heading of the listing itself.
NothingDisappears == \A c \in Clients : BatchAccounted(c) /\ ListingAccounted(c)

\* The tools that pass over what they cannot read pass over nothing else, as long
\* as their handle and their list last: an export has every record that can be
\* read, an analysis every one of its sample, a description every item it shows.
OnlyUnreadableSkipped ==
  \A c \in Clients \ crossed :
    LET k == call[c] IN
    /\ Gives(c, "export", "success")   => k.got = Kept(k.asked, Readable)
    /\ Gives(c, "analyze", "success")  => k.got = Kept(k.asked, Readable)
    /\ Gives(c, "describe", "success") =>
         k.got = Kept(k.asked, {x \in Names \ (System \cup Listish) : stored[x] = "data"})
=============================================================================
