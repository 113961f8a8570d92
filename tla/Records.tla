------------------------------ MODULE Records ------------------------------
(***************************************************************************)
(* A MultiValue record and the tools that read, write and update it.       *)
(*                                                                         *)
(* A stored record is a string of texts between three levels of marks.     *)
(* Splitting it at the marks loses nothing, so a record is a sequence of   *)
(* fields, a field a sequence of values, a value a sequence of texts; the  *)
(* empty string is the one record whose only field is Blank.  What a       *)
(* client sees is the JSON form: at each position a scalar or a list, in   *)
(* which each item is a scalar or a list again.                            *)
(***************************************************************************)
EXTENDS Naturals, Sequences, FiniteSetsExt

CONSTANTS
  Callers,    \* clients of the record, in one server or in several
  Texts,      \* non-empty texts without marks
  EmptyText,  \* the empty text
  Zero,       \* the JSON number 0
  ZeroText,   \* str(0)
  Inputs,     \* the JSON values a client may write at a position
  MaxFields,  \* bounds the positions written
  MaxValues   \* bounds the length to which updates may grow a field

Scalars == Texts \cup {EmptyText, Zero}
Items   == [list : BOOLEAN, parts : Seq(Scalars)]
Json    == [list : BOOLEAN, items : Seq(Items)]

\* A scalar is stored as a list of one.
WellFormed(v) ==
  /\ ~v.list => Len(v.items) = 1 /\ ~v.items[1].list
  /\ \A i \in DOMAIN v.items : ~v.items[i].list => Len(v.items[i].parts) = 1

ASSUME TextsAssumption  == /\ ZeroText \in Texts
                           /\ EmptyText \notin Texts
                           /\ Zero \notin Texts \cup {EmptyText}
ASSUME BoundsAssumption == MaxFields \in Nat \ {0} /\ MaxValues \in Nat \ {0}
ASSUME InputsAssumption == Inputs \subseteq Json /\ \A v \in Inputs : WellFormed(v)

VARIABLES
  record,     \* the record as the server stores it
  fields,     \* what each caller last read, position by position
  pc,         \* whether a caller is inside update_value
  before,     \* the record an update_value in progress read first
  report      \* update_value's last answer: alignment_preserved, or an error

vars == <<record, fields, pc, before, report>>

Positions == 1..MaxFields
Stored    == Texts \cup {EmptyText}
Blank     == <<<<EmptyText>>>>
NoRecord  == <<Blank>>

-----------------------------------------------------------------------------
(* parse_record() and build_record().                                      *)

\* Mutant of ParsedValue: only the first subvalue is read.
FirstSubvalue(v) == [list |-> FALSE, parts |-> <<v[1]>>]

ParsedValue(v) == [list |-> Len(v) > 1, parts |-> v]

ParsedField(f) == [list  |-> Len(f) > 1 \/ Len(f[1]) > 1,
                   items |-> [i \in DOMAIN f |-> ParsedValue(f[i])]]

\* Empty fields are left out; the others keep their numbers.
Parse(r) == [p \in {i \in DOMAIN r : r[i] # Blank} |-> ParsedField(r[p])]

Str(s) == IF s = Zero THEN ZeroText ELSE s

\* Joining no texts at all gives the empty one.
JoinedValue(item) ==
  IF item.parts = <<>> THEN <<EmptyText>>
  ELSE [j \in DOMAIN item.parts |-> Str(item.parts[j])]

\* A scalar that is false in Python is written as the empty text.
JoinedField(v) ==
  CASE ~v.list /\ v.items[1].parts[1] = Zero -> Blank
    [] v.list /\ v.items = <<>>              -> Blank
    [] OTHER -> [i \in DOMAIN v.items |-> JoinedValue(v.items[i])]

FieldOf(d, p) == IF p \in DOMAIN d THEN JoinedField(d[p]) ELSE Blank

\* Mutant of Build: as many fields as there are, in place of up to the last one.
BuildShort(d) ==
  IF DOMAIN d = {} THEN NoRecord
  ELSE [p \in 1..Cardinality(DOMAIN d) |-> FieldOf(d, p)]

Build(d) ==
  IF DOMAIN d = {} THEN NoRecord
  ELSE [p \in 1..Max(DOMAIN d) |-> FieldOf(d, p)]

-----------------------------------------------------------------------------
(* The accessors of dynarray.py, and update.py's own count.                *)

ExtractField(r, p) == IF p \in DOMAIN r THEN r[p] ELSE Blank

\* Mutant of ExtractValue: values are counted from zero.
ExtractZeroBased(r, p, i) ==
  LET f == ExtractField(r, p)
  IN  IF f # Blank /\ i + 1 \in DOMAIN f THEN f[i + 1] ELSE <<EmptyText>>

ExtractValue(r, p, i) ==
  LET f == ExtractField(r, p)
  IN  IF f # Blank /\ i \in DOMAIN f THEN f[i] ELSE <<EmptyText>>

ExtractSubvalue(r, p, i, j) ==
  LET v == ExtractValue(r, p, i)
  IN  IF v # <<EmptyText>> /\ j \in DOMAIN v THEN v[j] ELSE EmptyText

CountValues(r, p) ==
  LET f == ExtractField(r, p) IN IF f = Blank THEN 0 ELSE Len(f)

CountSubvalues(r, p, i) ==
  LET v == ExtractValue(r, p, i) IN IF v = <<EmptyText>> THEN 0 ELSE Len(v)

FieldLengths(r) ==
  IF r = NoRecord THEN <<>> ELSE [p \in DOMAIN r |-> Len(r[p])]

-----------------------------------------------------------------------------
Init ==
  /\ record = NoRecord
  /\ fields = [c \in Callers |-> <<>>]
  /\ pc = [c \in Callers |-> "idle"]
  /\ before = [c \in Callers |-> NoRecord]
  /\ report = [c \in Callers |-> "none"]

ReadRecord(c) ==
  /\ pc[c] = "idle"
  /\ record # NoRecord
  /\ fields' = [fields EXCEPT ![c] = Parse(record)]
  /\ UNCHANGED <<record, pc, before, report>>

\* The client writes back what it read with one position set to v; a client
\* that has read nothing writes a new record.
Edited(d, p, v) ==
  [q \in DOMAIN d \cup {p} |-> IF q = p THEN v ELSE d[q]]

WriteRecord(c, p, v) ==
  /\ pc[c] = "idle"
  /\ record' = Build(Edited(fields[c], p, v))
  /\ UNCHANGED <<fields, pc, before, report>>

DeleteRecord(c) ==
  /\ pc[c] = "idle"
  /\ record # NoRecord
  /\ record' = NoRecord
  /\ UNCHANGED <<fields, pc, before, report>>

\* update_value() reads the record, and then has the driver change it.
UpdateValue(c) ==
  /\ pc[c] = "idle"
  /\ record # NoRecord
  /\ pc' = [pc EXCEPT ![c] = "updating"]
  /\ before' = [before EXCEPT ![c] = record]
  /\ UNCHANGED <<record, fields, report>>

HasValue(r, p, i) == r # NoRecord /\ p \in DOMAIN r /\ i \in DOMAIN r[p]

\* The driver puts a text in place of value i of field p.  A text with value
\* marks in it is several values.
InPlace(r, p, i, values) ==
  [r EXCEPT ![p] = SubSeq(@, 1, i - 1) \o values \o SubSeq(@, i + 1, Len(@))]

NewValues == {<<<<t>>>> : t \in Texts} \cup {<<<<t>>, <<t>>>> : t \in Texts}

\* The report compares the record before and after; in between another client may
\* have changed it too.
ValueUpdated(c, p, i, values) ==
  /\ pc[c] = "updating"
  /\ pc' = [pc EXCEPT ![c] = "idle"]
  /\ before' = [before EXCEPT ![c] = NoRecord]
  /\ \/ /\ HasValue(record, p, i)
        /\ Len(record[p]) + Len(values) - 1 <= MaxValues
        /\ record' = InPlace(record, p, i, values)
        /\ report' = [report EXCEPT ![c] =
             IF FieldLengths(before[c]) = FieldLengths(record') THEN "kept" ELSE "moved"]
     \/ /\ ~HasValue(record, p, i)
        /\ report' = [report EXCEPT ![c] = "error"]
        /\ UNCHANGED record
  /\ UNCHANGED fields

Next ==
  \E c \in Callers :
    \/ ReadRecord(c) \/ DeleteRecord(c) \/ UpdateValue(c)
    \/ \E p \in Positions :
         \/ \E v \in Inputs : WriteRecord(c, p, v)
         \/ \E i \in 1..MaxValues, values \in NewValues : ValueUpdated(c, p, i, values)

Spec == Init /\ [][Next]_vars

-----------------------------------------------------------------------------
Records == Seq(Seq(Seq(Stored) \ {<<>>}) \ {<<>>}) \ {<<>>}

TypeOK ==
  /\ record \in Records /\ Len(record) <= MaxFields
  /\ DOMAIN fields = Callers
  /\ \A c \in Callers :
       /\ DOMAIN fields[c] \subseteq Positions
       /\ \A p \in DOMAIN fields[c] : fields[c][p] \in Json /\ WellFormed(fields[c][p])
  /\ pc \in [Callers -> {"idle", "updating"}]
  /\ before \in [Callers -> Records]
  /\ report \in [Callers -> {"none", "kept", "moved", "error"}]

\* What is read and written back unchanged is stored again at the same
\* positions: no field moves, splits, merges or changes, however sparse the
\* record and however deep its nesting (hardening.md:249).
RoundTrip ==
  \A p \in DOMAIN record :
    ExtractField(Build(Parse(record)), p) = record[p]

\* Writing back a record that was read, with one position changed, leaves every
\* other field as it was, provided that nobody wrote in between.
EditKeepsOtherFields ==
  [][\A c \in Callers, p \in Positions, v \in Inputs :
       WriteRecord(c, p, v) /\ fields[c] = Parse(record) =>
         \A q \in Positions \ {p} :
           ExtractField(record', q) = ExtractField(record, q)]_vars

\* The two readings of a record agree: what parse_record puts in a list is what
\* the extract functions return for its indices, and the counts are the lengths.
AccessorsAgree ==
  LET d == Parse(record) IN
  \A p \in Positions :
    /\ CountValues(record, p) = IF p \in DOMAIN d THEN Len(d[p].items) ELSE 0
    /\ p \in DOMAIN d =>
         \A i \in DOMAIN d[p].items :
           LET parts == d[p].items[i].parts IN
           /\ CountSubvalues(record, p, i) =
                IF parts = <<EmptyText>> THEN 0 ELSE Len(parts)
           /\ \A j \in DOMAIN parts : ExtractSubvalue(record, p, i, j) = parts[j]
=============================================================================
