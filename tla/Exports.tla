------------------------------ MODULE Exports ------------------------------
(***************************************************************************)
(* The tables that exports make of several records at once: one row to a   *)
(* record, or with multivalues expanded one row to a value.                *)
(*                                                                         *)
(* Which records are read, and which are passed over, is in module         *)
(* ReadTools.  A cell is what stands between two delimiters, as a list of  *)
(* texts for the subvalues and a list of those for the values: no text is  *)
(* taken to contain a delimiter, which nothing in the code escapes.        *)
(***************************************************************************)
EXTENDS Records, SequencesExt

NoValue == <<EmptyText>>

-----------------------------------------------------------------------------
(* export_to_csv, and export_to_json, with multivalues expanded.           *)

\* Mutant of RowCount: the last field decides.
RowCountLast(d) ==
  IF DOMAIN d = {} THEN 1 ELSE Max({1, Len(d[Max(DOMAIN d)].items)})

\* The longest list of values; a record without any has a row as well.
RowCount(d) == Max({1} \cup {Len(d[p].items) : p \in {q \in DOMAIN d : d[q].list}})

\* A scalar stands in the first row; a list that is shorter is filled up.
Cell(v, i) == IF i \in DOMAIN v.items THEN v.items[i].parts ELSE NoValue

ExpandMultivalues(id, d) ==
  [i \in 1..RowCount(d) |->
     [id |-> id, index |-> i, cells |-> [p \in DOMAIN d |-> Cell(d[p], i)]]]

Rows(ds) == FlattenSeq([r \in DOMAIN ds |-> ExpandMultivalues(r, ds[r])])

\* The columns are the fields that some record has, in the order of their numbers.
Columns(ds) ==
  FlattenSeq([p \in Positions |-> IF \E r \in DOMAIN ds : p \in DOMAIN ds[r] THEN <<p>> ELSE <<>>])

Aligned(columns, cells, missing) ==
  [k \in DOMAIN columns |-> IF columns[k] \in DOMAIN cells THEN cells[columns[k]] ELSE missing]

ExpandedTable(ds) ==
  [n \in DOMAIN Rows(ds) |->
     [Rows(ds)[n] EXCEPT !.cells = Aligned(Columns(ds), @, NoValue)]]

-----------------------------------------------------------------------------
(* export_to_csv with one row to a record.                                 *)

FlattenMultivalue(v) == [i \in DOMAIN v.items |-> v.items[i].parts]

FlatTable(ds) ==
  [r \in DOMAIN ds |->
     Aligned(Columns(ds), [p \in DOMAIN ds[r] |-> FlattenMultivalue(ds[r][p])], Blank)]

-----------------------------------------------------------------------------
\* The records of an export: what is stored, and what a caller would write back.
Found(r) == IF r = NoRecord THEN <<>> ELSE <<r>>

Exported(c) == Found(record) \o Found(Build(fields[c]))

\* Exporting records side by side misplaces nothing, however different their fields
\* and the number of their values: a cell is the field, or the value at the row's
\* index, that the accessors of dynarray.py find in that record, and whatever has
\* no column, or no row, is empty there.
TablesMatchRecords ==
  \A c \in Callers :
    LET rs   == Exported(c)
        ds   == [r \in DOMAIN rs |-> Parse(rs[r])]
        cols == Columns(ds)
        rows == ExpandedTable(ds)
    IN  \A r \in DOMAIN rs :
          /\ \A p \in Positions :
               IF p \in ToSet(cols)
                 THEN FlatTable(ds)[r][CHOOSE k \in DOMAIN cols : cols[k] = p] = ExtractField(rs[r], p)
                 ELSE ExtractField(rs[r], p) = Blank
          /\ \A p \in ToSet(cols), i \in 1..(MaxValues + 1) :
               LET at   == {n \in DOMAIN rows : rows[n].id = r /\ rows[n].index = i}
                   cell == {rows[n].cells[CHOOSE k \in DOMAIN cols : cols[k] = p] : n \in at}
               IN  cell \cup {NoValue} = {ExtractValue(rs[r], p, i), NoValue}
=============================================================================
