--------------------------- MODULE KnowledgeStore ---------------------------
(***************************************************************************)
(* The knowledge file: a markdown file with one section to a topic, shared *)
(* by every server that is given its path, and guarded by no lock.  A save *)
(* reads the file, reads it again to find the topic, empties it and writes *)
(* it; any other server may act between two of these.                      *)
(*                                                                         *)
(* Names are names up to case.  Content is a note, followed or not by a    *)
(* line that would be read as another topic's header, which comes after a  *)
(* newline or after a bare carriage return.  The file is as it is read:    *)
(* reading makes a newline of either.                                      *)
(***************************************************************************)
EXTENDS Naturals, Sequences, FiniteSetsExt

CONSTANTS
  Callers,          \* the processes that use the file
  Crashable,        \* those of them that may be killed
  OpsOf,            \* the operations each of them is asked for
  Names,            \* names of topics
  Starts,           \* <<e, n>>: name e starts with the first word of name n
  Notes,            \* pieces of knowledge
  SavedContent,     \* what callers are given to replace a topic
  AppendedContent,  \* what they are given to append to one
  MaxSections,      \* bounds the file
  None

\* A note, and maybe a header line, after a newline or a bare carriage return.
Contents == {x \in [note : Notes, header : Names \cup {None}, bare : BOOLEAN] :
               x.bare => x.header # None}

ASSUME NamesAssumption   == None \notin Names
ASSUME ContentAssumption == SavedContent \cup AppendedContent \subseteq Contents
ASSUME OpsAssumption    == OpsOf \in [Callers -> SUBSET {"save", "append", "delete", "get"}]
ASSUME StartsAssumption == Starts \subseteq Names \X Names

VARIABLES
  file,       \* the sections of the file, each a topic and its notes
  pc, op,     \* where a caller is, in which operation
  name,       \* the name it was given
  content,    \* the content it was given
  existing,   \* the file as it first read it
  target,     \* the topic it resolved the name to
  result,     \* history: the notes get_topic returned, until callers race
  named,      \* history: the names callers have asked to save
  forgeable,  \* history: header lines that nothing was to escape
  known,      \* history: <<t, x>>: callers were told that topic t has note x,
             \* until they race
  told,       \* history: <<n, t>>: told that what they call n is topic t, likewise
  raced       \* history: two operations have overlapped, or one was killed

call == <<op, name, content, existing>>
asked == <<named, forgeable>>
answers == <<known, told>>
vars == <<file, pc, call, target, result, asked, answers, raced>>

Init ==
  /\ file = <<>>
  /\ pc = [c \in Callers |-> "idle"]
  /\ op = [c \in Callers |-> "none"]
  /\ name = [c \in Callers |-> None]
  /\ content = [c \in Callers |-> None]
  /\ existing = [c \in Callers |-> <<>>]
  /\ target = [c \in Callers |-> None]
  /\ result = [c \in Callers |-> {}]
  /\ known = {} /\ told = {}
  /\ named = {} /\ forgeable = {}
  /\ raced = FALSE

-----------------------------------------------------------------------------
(* The text of the file.                                                   *)

TopicsOf(f) == {f[i].topic : i \in DOMAIN f}

\* The first section with this topic, or 0.
IndexOf(f, t) ==
  IF t \in TopicsOf(f) THEN Min({i \in DOMAIN f : f[i].topic = t}) ELSE 0

\* _find_similar_topic(): the same name, or else the first topic that starts
\* with the name's first word; otherwise the name stands for itself.
Resolve(f, n) ==
  LET similar == {i \in DOMAIN f : <<f[i].topic, n>> \in Starts}
  IN  IF n \in TopicsOf(f) \/ similar = {} THEN n ELSE f[Min(similar)].topic

\* Mutant of Neutralized: header lines are left as they are.
NotNeutralized(x) == x

\* _neutralize_headers(): a line starts after a newline and nothing else, so a
\* header after a bare carriage return stays.
Neutralized(x) == IF x.bare THEN x ELSE [x EXCEPT !.header = None]

\* A header line left in the content begins a section of its own.
Sections(t, notes, x) ==
  IF x.header = None THEN <<[topic |-> t, notes |-> notes \cup {x.note}]>>
  ELSE <<[topic |-> t, notes |-> notes \cup {x.note}],
         [topic |-> x.header, notes |-> {x.note}]>>

\* Mutant of Replaced: the section that follows goes too.
ReplacedTwo(f, i, ss) == SubSeq(f, 1, i - 1) \o ss \o SubSeq(f, i + 2, Len(f))

\* The file with sections ss in the place of section i.
Replaced(f, i, ss) == SubSeq(f, 1, i - 1) \o ss \o SubSeq(f, i + 1, Len(f))

\* Mutant of Saved: a topic is always added.
SavedAgain(f, t, x) == f \o Sections(t, {}, Neutralized(x))

Saved(f, t, x) ==
  LET i == IndexOf(f, t) IN
  IF i = 0 THEN f \o Sections(t, {}, Neutralized(x))
  ELSE Replaced(f, i, Sections(t, {}, Neutralized(x)))

\* Nothing in what is appended to a topic is escaped.
Appended(f, t, x) ==
  LET i == IndexOf(f, t) IN
  IF i = 0 THEN f \o Sections(t, {}, Neutralized(x))
  ELSE Replaced(f, i, Sections(t, f[i].notes, x))

Deleted(f, t) == Replaced(f, IndexOf(f, t), <<>>)

NewFile(c) ==
  CASE op[c] = "save"   -> Saved(existing[c], target[c], content[c])
    [] op[c] = "append" -> Appended(existing[c], target[c], content[c])
    [] OTHER            -> Deleted(existing[c], target[c])

-----------------------------------------------------------------------------
(* save_topic(), delete_topic() and get_topic().                           *)

\* The operation reads the file for the first time.
Begin(c, o, n, x) ==
  /\ o \in OpsOf[c]
  /\ pc[c] = "idle"
  /\ pc' = [pc EXCEPT ![c] = "matching"]
  /\ op' = [op EXCEPT ![c] = o]
  /\ name' = [name EXCEPT ![c] = n]
  /\ content' = [content EXCEPT ![c] = x]
  /\ existing' = [existing EXCEPT ![c] = file]
  /\ result' = [result EXCEPT ![c] = {}]
  /\ raced' = (raced \/ \E d \in Callers \ {c} : pc[d] # "idle")
  /\ known' = IF raced' THEN {} ELSE known
  /\ told' = IF raced' THEN {} ELSE told
  /\ UNCHANGED <<file, target>>

SaveTopic(c, n, x) ==
  /\ Begin(c, "save", n, x)
  /\ named' = named \cup {n}
  /\ forgeable' = IF x.bare THEN forgeable \cup {x.header} ELSE forgeable

AppendTopic(c, n, x) ==
  /\ Begin(c, "append", n, x)
  /\ named' = named \cup {n}
  /\ forgeable' = forgeable \cup ({x.header} \ {None})

\* An empty file is an answer already.
DeleteTopic(c, n) == file # <<>> /\ Begin(c, "delete", n, None) /\ UNCHANGED asked
GetTopic(c, n)    == file # <<>> /\ Begin(c, "get", n, None) /\ UNCHANGED asked

Return(c) ==
  /\ pc' = [pc EXCEPT ![c] = "idle"]
  /\ op' = [op EXCEPT ![c] = "none"]
  /\ name' = [name EXCEPT ![c] = None]
  /\ content' = [content EXCEPT ![c] = None]
  /\ existing' = [existing EXCEPT ![c] = <<>>]
  /\ target' = [target EXCEPT ![c] = None]

\* What get_topic returns of section i.
Found(c, i) == IF raced \/ i = 0 THEN {} ELSE existing[c][i].notes

\* Mutant of MatchTopic: get_topic looks for the name as it was given.
MatchTopicGiven(c) ==
  /\ pc[c] = "matching"
  /\ LET t == Resolve(file, name[c])
         i == IndexOf(existing[c], t)
     IN  \/ /\ op[c] = "get"
            /\ result' = [result EXCEPT ![c] = Found(c, IndexOf(existing[c], name[c]))]
            /\ Return(c)
         \/ /\ op[c] = "delete" /\ i = 0
            /\ Return(c)
            /\ UNCHANGED result
         \/ /\ op[c] \in {"save", "append", "delete"}
            /\ op[c] = "delete" => i # 0
            /\ target' = [target EXCEPT ![c] = t]
            /\ pc' = [pc EXCEPT ![c] = "opening"]
            /\ UNCHANGED <<call, result>>
  /\ UNCHANGED <<file, answers, asked, raced>>

\* list_topics reads the file again; the topic it finds is then looked for in
\* what was read first.
MatchTopic(c) ==
  /\ pc[c] = "matching"
  /\ LET t == Resolve(file, name[c])
         i == IndexOf(existing[c], t)
     IN  \/ /\ op[c] = "get"
            /\ result' = [result EXCEPT ![c] = Found(c, i)]
            /\ Return(c)
         \/ /\ op[c] = "delete" /\ i = 0
            /\ Return(c)
            /\ UNCHANGED result
         \/ /\ op[c] \in {"save", "append", "delete"}
            /\ op[c] = "delete" => i # 0
            /\ target' = [target EXCEPT ![c] = t]
            /\ pc' = [pc EXCEPT ![c] = "opening"]
            /\ UNCHANGED <<call, result>>
  /\ UNCHANGED <<file, answers, asked, raced>>

\* write_text() opens the file, which empties it, and then writes it.
OpenFile(c) ==
  /\ pc[c] = "opening"
  /\ Len(NewFile(c)) <= MaxSections
  /\ file' = <<>>
  /\ pc' = [pc EXCEPT ![c] = "writing"]
  /\ UNCHANGED <<call, target, result, answers, asked, raced>>

\* What the caller is told: the topic is forgotten, replaced or added to.
KnownAfter(c) ==
  LET others == {k \in known : k[1] # target[c]}
  IN  CASE raced            -> {}
        [] op[c] = "save"   -> others \cup {<<target[c], content[c].note>>}
        [] op[c] = "append" -> known \cup {<<target[c], content[c].note>>}
        [] OTHER            -> others

\* The answer names the topic.
ToldAfter(c) ==
  CASE raced            -> {}
    [] op[c] = "delete" -> {p \in told : p[2] # target[c]}
    [] OTHER            -> told \cup {<<name[c], target[c]>>}

WriteFile(c) ==
  /\ pc[c] = "writing"
  /\ file' = NewFile(c)
  /\ known' = KnownAfter(c)
  /\ told' = ToldAfter(c)
  /\ Return(c)
  /\ UNCHANGED <<result, asked, raced>>

Crash(c) ==
  /\ c \in Crashable
  /\ pc[c] # "idle"
  /\ raced' = TRUE /\ known' = {} /\ told' = {}
  /\ Return(c)
  /\ UNCHANGED <<file, result, asked>>

Next ==
  \E c \in Callers :
    \/ \E n \in Names :
         \/ \E x \in SavedContent : SaveTopic(c, n, x)
         \/ \E x \in AppendedContent : AppendTopic(c, n, x)
         \/ DeleteTopic(c, n) \/ GetTopic(c, n)
    \/ MatchTopic(c) \/ OpenFile(c) \/ WriteFile(c) \/ Crash(c)

Spec == Init /\ [][Next]_vars

-----------------------------------------------------------------------------
SectionSet == [topic : Names, notes : SUBSET Notes]

TypeOK ==
  /\ file \in Seq(SectionSet)
  /\ pc \in [Callers -> {"idle", "matching", "opening", "writing"}]
  /\ op \in [Callers -> {"none", "save", "append", "delete", "get"}]
  /\ name \in [Callers -> Names \cup {None}]
  /\ content \in [Callers -> Contents \cup {None}]
  /\ existing \in [Callers -> Seq(SectionSet)]
  /\ target \in [Callers -> Names \cup {None}]
  /\ result \in [Callers -> SUBSET Notes]
  /\ known \subseteq Names \X Notes
  /\ told \subseteq Names \X Names
  /\ named \subseteq Names
  /\ forgeable \subseteq Names
  /\ raced \in BOOLEAN

\* Content forges no topic by a header line that save_topic escapes: a topic of the
\* file is one that somebody asked to save, or a header in what somebody appended,
\* or one after a bare carriage return in what somebody saved, however the servers
\* race and whoever is killed (test_adversarial_input.py:174; hardening.md,
\* Finding 12).
NothingForged == TopicsOf(file) \subseteq named \cup forgeable

\* Saving a topic again never gives the file a second section of the name,
\* whichever of two racing saves writes last and whoever is killed, unless the name
\* is a header line in content that nothing escaped.
TopicsUnique ==
  \A i, j \in DOMAIN file :
    file[i].topic = file[j].topic /\ file[i].topic \notin forgeable => i = j

Quiet == \A c \in Callers : pc[c] = "idle"

\* Writing one topic does not damage another (test_adversarial_input.py:190):
\* as long as the servers take turns and none is killed, the file has, under the
\* topic callers were told, every note they were told is saved and nobody has
\* replaced or deleted since, whatever the header lines in content.
KnowledgeKept ==
  Quiet /\ ~raced => \A k \in known : \E i \in DOMAIN file :
             file[i].topic = k[1] /\ k[2] \in file[i].notes

\* No header line that may have become a section is taken for what is called n.
Unforged(n) == \A h \in forgeable : h # n /\ <<h, n>> \notin Starts

\* Then, too, a name keeps its topic: what callers were told to be the topic of a
\* name is what get_topic finds by that name, on every server and whatever topics
\* with similar names come and go, with all its notes.
GetReturnsKnown ==
  [][\A c \in Callers :
       op[c] = "get" /\ pc'[c] = "idle" /\ ~raced' /\ Unforged(name[c]) =>
         \A k \in known : <<name[c], k[1]>> \in told => k[2] \in result'[c]]_vars
=============================================================================
