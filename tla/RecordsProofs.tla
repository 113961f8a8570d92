--------------------------- MODULE RecordsProofs ---------------------------
(***************************************************************************)
(* Reading a record and writing it back loses nothing, for any record and  *)
(* any number of callers.  The argument: a record that parse_record has    *)
(* split is rebuilt field by field; a field it left out is Blank, and      *)
(* build_record puts Blank wherever the dictionary has no entry, up to the *)
(* largest field number.  That there is a largest number is WFMin, applied *)
(* to the distances from an upper bound.  The tables of an export follow   *)
(* from what FlattenSeq puts where: it is taken apart one sequence at a    *)
(* time, by induction over the set of those for which a fact holds, which  *)
(* is WFMin again.                                                         *)
(***************************************************************************)
EXTENDS Exports, SequenceTheorems, WellFoundedInduction, TLAPS

-----------------------------------------------------------------------------
(* Induction, as a fact about sets, and FlattenSeq.                        *)

LEMMA NatInduct ==
  ASSUME NEW S, 0 \in S, \A n \in Nat : n \in S => n + 1 \in S
  PROVE  Nat \subseteq S
<1> DEFINE T == Nat \ S
<1>1. SUFFICES ASSUME T # {} PROVE FALSE
  OBVIOUS
<1>2. PICK x \in T : \A y \in T : <<y, x>> \notin OpToRel(<, Nat)
  BY <1>1, NatLessThanWellFounded, WFMin
<1>3. x \in Nat /\ x # 0 /\ x - 1 \in Nat /\ x - 1 < x
  OBVIOUS
<1>4. x - 1 \notin T
  BY <1>2, <1>3 DEF OpToRel
<1>5. x - 1 \in S /\ (x - 1) + 1 = x
  BY <1>3, <1>4
<1> QED
  BY <1>3, <1>5

\* A set with the empty sequence, and with every sequence one longer than one it
\* has, has all sequences.
LEMMA SeqInduct ==
  ASSUME NEW T, NEW S, <<>> \in S, \A s \in Seq(T), x \in T : s \in S => Append(s, x) \in S
  PROVE  Seq(T) \subseteq S
<1> DEFINE N == {n \in Nat : \A s \in Seq(T) : Len(s) = n => s \in S}
<1>1. 0 \in N
  <2>1. \A s \in Seq(T) : Len(s) = 0 => s = <<>>
    OBVIOUS
  <2> QED
    BY <2>1
<1>2. ASSUME NEW n \in Nat, n \in N PROVE n + 1 \in N
  <2> SUFFICES ASSUME NEW s \in Seq(T), Len(s) = n + 1 PROVE s \in S
    OBVIOUS
  <2>1. s # <<>>
    OBVIOUS
  <2>2. PICK r \in Seq(T), x \in T : s = Append(r, x)
    BY <2>1, SequenceEmptyOrAppend
  <2>3. Len(r) = n
    BY <2>2
  <2> QED
    BY <1>2, <2>2, <2>3
<1> HIDE DEF N
<1>3. Nat \subseteq N
  BY <1>1, <1>2, NatInduct
<1> QED
  BY <1>3 DEF N

IsFlat(f, ss, n) == f = [i \in 1..n |-> IF i = 1 THEN ss[i] ELSE f[i - 1] \o ss[i]]

LEMMA FlatExists ==
  ASSUME NEW ss, NEW n \in Nat
  PROVE  \E f : IsFlat(f, ss, n)
<1> DEFINE S == {m \in Nat : \E f : IsFlat(f, ss, m)}
<1>1. 0 \in S
  <2> DEFINE f == [i \in 1..0 |-> <<>>]
  <2>1. IsFlat(f, ss, 0)
    BY DEF IsFlat
  <2> QED
    BY <2>1
<1>2. ASSUME NEW m \in Nat, m \in S PROVE m + 1 \in S
  <2>1. PICK f : IsFlat(f, ss, m)
    BY <1>2
  <2> DEFINE v(i) == IF i = 1 THEN ss[i] ELSE f[i - 1] \o ss[i]
             g == [i \in 1..(m + 1) |-> v(i)]
  <2>2. \A i \in 1..m : f[i] = v(i)
    BY <2>1 DEF IsFlat
  <2>3. \A i \in 1..(m + 1) : i # 1 => i - 1 \in 1..m /\ g[i - 1] = f[i - 1]
    BY <2>2
  <2>4. \A i \in 1..(m + 1) : v(i) = IF i = 1 THEN ss[i] ELSE g[i - 1] \o ss[i]
    BY <2>3
  <2> HIDE DEF v
  <2>5. g = [i \in 1..(m + 1) |-> IF i = 1 THEN ss[i] ELSE g[i - 1] \o ss[i]]
    BY <2>4, Zenon
  <2>6. IsFlat(g, ss, m + 1)
    BY <2>5 DEF IsFlat
  <2> QED
    BY <2>6
<1> HIDE DEF S
<1>3. n \in S
  BY <1>1, <1>2, NatInduct
<1> QED
  BY <1>3 DEF S

Agree(ss, tt, n) == \A i \in 1..n : ss[i] = tt[i]

LEMMA FlatUnique ==
  ASSUME NEW ss, NEW tt, NEW n \in Nat, NEW m \in Nat, n <= m, Agree(ss, tt, n),
         NEW f, IsFlat(f, ss, n), NEW g, IsFlat(g, tt, m)
  PROVE  Agree(f, g, n)
<1> DEFINE S == {k \in Nat : k \in 1..n => f[k] = g[k]}
<1>1. 0 \in S
  OBVIOUS
<1>2. ASSUME NEW k \in Nat, k \in S PROVE k + 1 \in S
  <2> SUFFICES ASSUME k + 1 \in 1..n PROVE f[k + 1] = g[k + 1]
    OBVIOUS
  <2>1. k + 1 \in 1..m /\ ss[k + 1] = tt[k + 1] /\ (k + 1) - 1 = k
    BY DEF Agree
  <2>2. /\ f[k + 1] = IF k + 1 = 1 THEN ss[k + 1] ELSE f[(k + 1) - 1] \o ss[k + 1]
        /\ g[k + 1] = IF k + 1 = 1 THEN tt[k + 1] ELSE g[(k + 1) - 1] \o tt[k + 1]
    BY <2>1 DEF IsFlat
  <2>3. k + 1 # 1 => f[k] = g[k]
    BY <1>2
  <2> QED
    BY <2>1, <2>2, <2>3
<1> HIDE DEF S
<1>3. Nat \subseteq S
  BY <1>1, <1>2, NatInduct
<1> QED
  BY <1>3 DEF S, Agree

\* FlattenSeq is what it says, one sequence at a time.
LEMMA FlattenEmpty == FlattenSeq(<<>>) = <<>>
BY DEF FlattenSeq

LEMMA FlattenIs ==
  ASSUME NEW ss, NEW n \in Nat \ {0}, n = Len(ss), NEW f, IsFlat(f, ss, n)
  PROVE  FlattenSeq(ss) = f[n]
<1> DEFINE h == CHOOSE h : IsFlat(h, ss, n)
<1>1. IsFlat(h, ss, n)
  BY FlatExists
<1>2. FlattenSeq(ss) = h[n]
  BY DEF FlattenSeq, IsFlat
<1> HIDE DEF h
<1>3. n \in Nat /\ n <= n /\ Agree(ss, ss, n)
  BY DEF Agree
<1>4. Agree(f, h, n)
  BY <1>1, <1>3, FlatUnique
<1> QED
  BY <1>2, <1>4 DEF Agree

LEMMA FlattenAppend ==
  ASSUME NEW T, NEW ss \in Seq(Seq(T)), NEW s \in Seq(T)
  PROVE  FlattenSeq(Append(ss, s)) = FlattenSeq(ss) \o s
<1> DEFINE n == Len(ss)
           m == n + 1
           tt == Append(ss, s)
<1>1. /\ n \in Nat /\ m \in Nat \ {0} /\ m \in Nat /\ n <= m /\ m \in 1..m /\ m - 1 = n
      /\ Len(tt) = m /\ tt[m] = s /\ (m = 1 => n = 0)
  OBVIOUS
<1>2. Agree(ss, tt, n)
  BY DEF Agree
<1>3. n = 0 => ss = <<>>
  OBVIOUS
<1> HIDE DEF n, m, tt
<1>4. PICK g : IsFlat(g, tt, m)
  BY <1>1, FlatExists
<1>5. FlattenSeq(tt) = g[m]
  BY <1>1, <1>4, FlattenIs
<1>6. g[m] = IF m = 1 THEN s ELSE g[n] \o s
  BY <1>1, <1>4 DEF IsFlat
<1>7. CASE n = 0
  <2>1. FlattenSeq(tt) = s
    BY <1>1, <1>5, <1>6, <1>7 DEF m
  <2>2. <<>> \o s = s
    OBVIOUS
  <2> QED
    BY <1>3, <1>7, <2>1, <2>2, FlattenEmpty DEF tt
<1>8. CASE n # 0
  <2>1. PICK f : IsFlat(f, ss, n)
    BY <1>1, FlatExists
  <2>2. Agree(f, g, n)
    BY <1>1, <1>2, <1>4, <2>1, FlatUnique
  <2>3. n \in 1..n /\ n \in Nat \ {0}
    BY <1>1, <1>8
  <2>4. FlattenSeq(ss) = f[n]
    BY <2>1, <2>3, FlattenIs DEF n
  <2>5. f[n] = g[n]
    BY <2>2, <2>3 DEF Agree
  <2> QED
    BY <1>1, <1>5, <1>6, <1>8, <2>4, <2>5 DEF tt
<1> QED
  BY <1>7, <1>8

LEMMA ConcatElements ==
  ASSUME NEW T, NEW a \in Seq(T), NEW b \in Seq(T)
  PROVE  a \o b \in Seq(T) /\ ToSet(a \o b) = ToSet(a) \cup ToSet(b)
<1> DEFINE h == a \o b
<1>1. /\ h \in Seq(T) /\ DOMAIN h = 1..(Len(a) + Len(b)) /\ Len(a) \in Nat /\ Len(b) \in Nat
      /\ DOMAIN a = 1..Len(a) /\ DOMAIN b = 1..Len(b)
      /\ \A i \in 1..(Len(a) + Len(b)) : h[i] = IF i <= Len(a) THEN a[i] ELSE b[i - Len(a)]
  BY ConcatProperties
<1> HIDE DEF h
<1>2. \A i \in DOMAIN a : i \in DOMAIN h /\ h[i] = a[i]
  BY <1>1
<1>3. \A i \in DOMAIN b : Len(a) + i \in DOMAIN h /\ h[Len(a) + i] = b[i]
  BY <1>1
<1>4. \A i \in DOMAIN h : \/ i \in DOMAIN a /\ h[i] = a[i]
                          \/ i - Len(a) \in DOMAIN b /\ h[i] = b[i - Len(a)]
  BY <1>1
<1>5. ToSet(h) = ToSet(a) \cup ToSet(b)
  BY <1>2, <1>3, <1>4 DEF ToSet
<1> QED
  BY <1>1, <1>5 DEF h

\* It has the elements of all the sequences, and no others.
AllElements(ss) == UNION {ToSet(ss[i]) : i \in DOMAIN ss}

Flattens(T, ss) == FlattenSeq(ss) \in Seq(T) /\ ToSet(FlattenSeq(ss)) = AllElements(ss)

LEMMA FlattenElements == ASSUME NEW T, NEW ss \in Seq(Seq(T)) PROVE Flattens(T, ss)
<1> DEFINE S == {q \in Seq(Seq(T)) : Flattens(T, q)}
<1>1. <<>> \in S
  <2>1. ToSet(<<>>) = {} /\ AllElements(<<>>) = {}
    BY DEF ToSet, AllElements
  <2>2. <<>> \in Seq(Seq(T)) /\ <<>> \in Seq(T)
    OBVIOUS
  <2>3. Flattens(T, <<>>)
    BY <2>1, <2>2, FlattenEmpty, Zenon DEF Flattens
  <2> QED
    BY <2>2, <2>3
<1>2. ASSUME NEW r \in Seq(Seq(T)), NEW s \in Seq(T), r \in S PROVE Append(r, s) \in S
  <2>1. FlattenSeq(r) \in Seq(T) /\ ToSet(FlattenSeq(r)) = AllElements(r)
    BY <1>2 DEF Flattens
  <2>2. /\ FlattenSeq(Append(r, s)) \in Seq(T)
        /\ ToSet(FlattenSeq(Append(r, s))) = ToSet(FlattenSeq(r)) \cup ToSet(s)
    <3>1. FlattenSeq(Append(r, s)) = FlattenSeq(r) \o s
      BY FlattenAppend
    <3> DEFINE a == FlattenSeq(r)
    <3>2. a \in Seq(T)
      BY <2>1
    <3> HIDE DEF a
    <3>3. a \o s \in Seq(T) /\ ToSet(a \o s) = ToSet(a) \cup ToSet(s)
      BY <3>2, ConcatElements
    <3> QED
      BY <3>1, <3>3 DEF a
  <2>3. /\ DOMAIN Append(r, s) = DOMAIN r \cup {Len(r) + 1}
        /\ \A i \in DOMAIN r : Append(r, s)[i] = r[i]
        /\ Append(r, s)[Len(r) + 1] = s
    <3>1. /\ DOMAIN Append(r, s) = 1..(Len(r) + 1) /\ DOMAIN r = 1..Len(r) /\ Len(r) \in Nat
          /\ \A i \in 1..Len(r) : Append(r, s)[i] = r[i]
          /\ Append(r, s)[Len(r) + 1] = s
      BY AppendProperties
    <3> QED
      BY <3>1
  <2>4. AllElements(Append(r, s)) = AllElements(r) \cup ToSet(s)
    <3> DEFINE q == Append(r, s)
    <3>1. q = Append(r, s)
      OBVIOUS
    <3> HIDE DEF q
    <3>2. AllElements(q) \subseteq AllElements(r) \cup ToSet(s)
      BY <2>3, <3>1 DEF AllElements
    <3>3. AllElements(r) \subseteq AllElements(q)
      BY <2>3, <3>1 DEF AllElements
    <3>4. ToSet(s) \subseteq AllElements(q)
      BY <2>3, <3>1 DEF AllElements
    <3> QED
      BY <3>1, <3>2, <3>3, <3>4
  <2>5. Append(r, s) \in Seq(Seq(T))
    OBVIOUS
  <2>6. ToSet(FlattenSeq(Append(r, s))) = AllElements(Append(r, s))
    BY <2>1, <2>2, <2>4, Zenon
  <2> QED
    BY <2>2, <2>5, <2>6 DEF Flattens
<1> HIDE DEF S
<1>3. Seq(Seq(T)) \subseteq S
  BY <1>1, <1>2, SeqInduct
<1> QED
  BY <1>3 DEF S

-----------------------------------------------------------------------------
(* Largest element: a non-empty set of numbers below a bound has one, so   *)
(* build_record's max() is what FiniteSetsExt's Max says.                  *)
LEMMA MaxExists ==
  ASSUME NEW n \in Nat, NEW S, S \subseteq 1..n, S # {}
  PROVE  Max(S) \in S /\ \A y \in S : y <= Max(S)
<1> DEFINE T == {k \in Nat : n - k \in S}
           R == OpToRel(<, Nat)
<1>1. T # {}
  <2>1. PICK s \in S : TRUE
    OBVIOUS
  <2>2. s \in 1..n /\ n - s \in Nat /\ n - (n - s) = s
    BY <2>1
  <2> QED
    BY <2>1, <2>2
<1>2. PICK k \in T : \A j \in T : ~(<<j, k>> \in R)
  <2> HIDE DEF R
  <2>1. T \subseteq Nat
    OBVIOUS
  <2>2. IsWellFoundedOn(R, Nat)
    BY NatLessThanWellFounded DEF R
  <2> HIDE DEF T
  <2> QED
    BY <1>1, <2>1, <2>2, WFMin
<1>3. \A y \in S : y <= n - k
  <2> SUFFICES ASSUME NEW y \in S PROVE y <= n - k
    OBVIOUS
  <2>1. y \in 1..n /\ n - y \in Nat /\ n - (n - y) = y
    OBVIOUS
  <2>2. n - y \in T
    BY <2>1
  <2>3. ~(n - y < k)
    BY <1>2, <2>2, <2>1 DEF OpToRel
  <2> QED
    BY <2>1, <2>3
<1>4. n - k \in S
  OBVIOUS
<1>5. \E m \in S : \A y \in S : m >= y
  <2>1. \A y \in S : n - k >= y
    BY <1>3, <1>4
  <2> QED
    BY <1>4, <2>1
<1>6. Max(S) \in S /\ \A y \in S : Max(S) >= y
  BY <1>5 DEF Max
<1> QED
  BY <1>6

-----------------------------------------------------------------------------
(* Shapes: what the two conversions make of well-formed data.              *)

FieldSet == Seq(Seq(Stored) \ {<<>>}) \ {<<>>}

LEMMA BlankStored == Blank \in FieldSet /\ NoRecord \in Records
<1>1. <<EmptyText>> \in Seq(Stored) \ {<<>>}
  BY DEF Stored
<1>2. Blank \in FieldSet
  BY <1>1 DEF Blank, FieldSet
<1> QED
  BY <1>2 DEF NoRecord, Records, FieldSet

\* A field that was split keeps its shape when it is joined.
LEMMA JoinAfterParse ==
  ASSUME NEW f \in FieldSet
  PROVE  JoinedField(ParsedField(f)) = f
<1>1. /\ f \in Seq(Seq(Stored) \ {<<>>}) /\ f # <<>>
      /\ \A i \in DOMAIN f : f[i] \in Seq(Stored) /\ f[i] # <<>>
      /\ 1 \in DOMAIN f /\ 1 \in DOMAIN f[1]
  BY DEF FieldSet
<1>2. ParsedField(f).items = [i \in DOMAIN f |-> ParsedValue(f[i])]
  BY DEF ParsedField
<1>3. \A i \in DOMAIN f : ParsedField(f).items[i].parts = f[i]
  BY <1>2 DEF ParsedValue
<1>4. \A i \in DOMAIN f : \A j \in DOMAIN f[i] : Str(f[i][j]) = f[i][j]
  BY <1>1, TextsAssumption DEF Str, Stored
<1>5. \A i \in DOMAIN f : JoinedValue(ParsedField(f).items[i]) = f[i]
  <2> SUFFICES ASSUME NEW i \in DOMAIN f
               PROVE  JoinedValue(ParsedField(f).items[i]) = f[i]
    OBVIOUS
  <2>1. JoinedValue(ParsedField(f).items[i]) = [j \in DOMAIN f[i] |-> Str(f[i][j])]
    BY <1>1, <1>3 DEF JoinedValue
  <2>2. f[i] = [j \in DOMAIN f[i] |-> f[i][j]]
    BY <1>1
  <2> QED
    BY <2>1, <2>2, <1>4
<1>6. ~(~ParsedField(f).list /\ ParsedField(f).items[1].parts[1] = Zero)
  <2>1. ParsedField(f).items[1].parts[1] = f[1][1]
    BY <1>1, <1>3
  <2>2. f[1][1] \in Stored
    BY <1>1
  <2> QED
    BY <2>1, <2>2, TextsAssumption DEF Stored
<1>7. ParsedField(f).items # <<>>
  BY <1>1, <1>2
<1>8. JoinedField(ParsedField(f)) = [i \in DOMAIN f |-> f[i]]
  BY <1>2, <1>5, <1>6, <1>7 DEF JoinedField
<1> QED
  BY <1>1, <1>8

\* The text of any JSON value is a field.
LEMMA JoinedStored ==
  ASSUME NEW v \in Json, WellFormed(v)
  PROVE  JoinedField(v) \in FieldSet
<1>1. \A s \in Scalars : Str(s) \in Stored
  BY TextsAssumption DEF Str, Scalars, Stored
<1>2. \A item \in Items : JoinedValue(item) \in Seq(Stored) \ {<<>>}
  <2> SUFFICES ASSUME NEW item \in Items
               PROVE  JoinedValue(item) \in Seq(Stored) \ {<<>>}
    OBVIOUS
  <2>1. item.parts \in Seq(Scalars)
    BY DEF Items
  <2>2. CASE item.parts = <<>>
    BY <2>2 DEF JoinedValue, Stored
  <2>3. CASE item.parts # <<>>
    <3>1. JoinedValue(item) = [j \in 1..Len(item.parts) |-> Str(item.parts[j])]
      BY <2>1, <2>3 DEF JoinedValue
    <3>2. Len(item.parts) \in Nat \ {0}
      BY <2>1, <2>3
    <3> QED
      BY <1>1, <2>1, <3>1, <3>2
  <2> QED
    BY <2>2, <2>3
<1>3. v.items \in Seq(Items)
  BY DEF Json
<1>4. CASE JoinedField(v) = Blank
  BY <1>4, BlankStored
<1>5. CASE JoinedField(v) # Blank
  <2>1. v.items # <<>>
    BY <1>5 DEF JoinedField, WellFormed
  <2>2. JoinedField(v) = [i \in 1..Len(v.items) |-> JoinedValue(v.items[i])]
    BY <1>3, <1>5 DEF JoinedField
  <2>3. Len(v.items) \in Nat \ {0}
    BY <1>3, <2>1
  <2> QED
    BY <1>2, <1>3, <2>2, <2>3 DEF FieldSet
<1> QED
  BY <1>4, <1>5

\* Splitting a field gives well-formed JSON.
LEMMA ParsedStored ==
  ASSUME NEW f \in FieldSet
  PROVE  ParsedField(f) \in Json /\ WellFormed(ParsedField(f))
<1>1. /\ f \in Seq(Seq(Stored) \ {<<>>}) /\ f # <<>> /\ Len(f) \in Nat \ {0}
      /\ \A i \in DOMAIN f : f[i] \in Seq(Stored) /\ f[i] # <<>> /\ Len(f[i]) \in Nat \ {0}
      /\ DOMAIN f = 1..Len(f)
  BY DEF FieldSet
<1>2. \A i \in DOMAIN f : ParsedValue(f[i]) \in Items
  <2> SUFFICES ASSUME NEW i \in DOMAIN f PROVE ParsedValue(f[i]) \in Items
    OBVIOUS
  <2>1. f[i] \in Seq(Scalars)
    BY <1>1 DEF Stored, Scalars
  <2> QED
    BY <2>1 DEF ParsedValue, Items
<1>3. [i \in DOMAIN f |-> ParsedValue(f[i])] \in Seq(Items)
  BY <1>1, <1>2
<1>4. ParsedField(f) \in Json
  BY <1>3 DEF ParsedField, Json
<1>5. \A i \in DOMAIN f : ~ParsedValue(f[i]).list => Len(ParsedValue(f[i]).parts) = 1
  <2>1. \A k \in Nat \ {0} : ~(k > 1) => k = 1
    OBVIOUS
  <2>2. \A i \in DOMAIN f : Len(f[i]) \in Nat \ {0}
    BY <1>1
  <2>3. \A i \in DOMAIN f : ~(Len(f[i]) > 1) => Len(f[i]) = 1
    BY <2>1, <2>2
  <2> QED
    BY <2>3 DEF ParsedValue
<1>6. ~ParsedField(f).list => Len(ParsedField(f).items) = 1 /\ ~ParsedField(f).items[1].list
  <2> SUFFICES ASSUME ~ParsedField(f).list
               PROVE  Len(ParsedField(f).items) = 1 /\ ~ParsedField(f).items[1].list
    OBVIOUS
  <2>1. ~(Len(f) > 1) /\ ~(Len(f[1]) > 1)
    BY DEF ParsedField
  <2>2. Len(f) = 1
    BY <1>1, <2>1
  <2>3. ParsedField(f).items = [i \in 1..1 |-> ParsedValue(f[i])]
    BY <1>1, <2>2 DEF ParsedField
  <2>4. ParsedField(f).items = <<ParsedValue(f[1])>>
    BY <2>3
  <2>5. Len(ParsedField(f).items) = 1 /\ ParsedField(f).items[1] = ParsedValue(f[1])
    BY <2>4
  <2>6. ~ParsedValue(f[1]).list
    BY <2>1 DEF ParsedValue
  <2> QED
    BY <2>5, <2>6
<1> QED
  BY <1>4, <1>5, <1>6 DEF WellFormed, ParsedField

-----------------------------------------------------------------------------
(* Records: what a dictionary of well-formed values is built into.         *)

\* The domain of a record is an interval, and its entries are fields.
LEMMA RecordShape ==
  ASSUME NEW r \in Records
  PROVE  /\ Len(r) \in Nat \ {0} /\ DOMAIN r = 1..Len(r)
         /\ \A p \in DOMAIN r : r[p] \in FieldSet
BY DEF Records, FieldSet

\* The keys of a parsed record are positions of the record.
LEMMA ParseShape ==
  ASSUME NEW r \in Records
  PROVE  /\ DOMAIN Parse(r) = {p \in DOMAIN r : r[p] # Blank}
         /\ \A p \in DOMAIN Parse(r) :
              /\ Parse(r)[p] = ParsedField(r[p])
              /\ Parse(r)[p] \in Json /\ WellFormed(Parse(r)[p])
<1>1. DOMAIN Parse(r) = {p \in DOMAIN r : r[p] # Blank}
  BY DEF Parse
<1>2. \A p \in DOMAIN Parse(r) : Parse(r)[p] = ParsedField(r[p])
  BY DEF Parse
<1> QED
  BY <1>1, <1>2, RecordShape, ParsedStored

\* Whatever a client sends becomes a record.
LEMMA BuildStored ==
  ASSUME NEW n \in Nat, NEW d, DOMAIN d \subseteq 1..n,
         \A p \in DOMAIN d : d[p] \in Json /\ WellFormed(d[p])
  PROVE  Build(d) \in Records /\ (n > 0 => Len(Build(d)) <= n)
<1>1. CASE DOMAIN d = {}
  <2>1. Build(d) = <<Blank>>
    BY <1>1 DEF Build, NoRecord
  <2>2. Len(<<Blank>>) = 1 /\ (n > 0 => 1 <= n)
    OBVIOUS
  <2> QED
    BY <2>1, <2>2, BlankStored DEF NoRecord
<1>2. CASE DOMAIN d # {}
  <2>1. Max(DOMAIN d) \in Nat \ {0}
    BY <1>2, MaxExists
  <2>2. \A p \in 1..Max(DOMAIN d) : FieldOf(d, p) \in FieldSet
    BY JoinedStored, BlankStored DEF FieldOf
  <2>3. Build(d) = [p \in 1..Max(DOMAIN d) |-> FieldOf(d, p)]
    BY <1>2 DEF Build
  <2>4. Build(d) \in Seq(FieldSet)
    BY <2>1, <2>2, <2>3
  <2>5. Build(d) # <<>>
    <3> SUFFICES ASSUME Build(d) = <<>> PROVE FALSE
      OBVIOUS
    <3>1. DOMAIN Build(d) = 1..Max(DOMAIN d)
      BY <2>3
    <3> QED
      BY <2>1, <3>1
  <2>6. Len(Build(d)) = Max(DOMAIN d)
    BY <2>1, <2>3
  <2>7. Max(DOMAIN d) <= n
    BY <1>2, MaxExists
  <2> QED
    BY <2>4, <2>5, <2>6, <2>7 DEF Records, FieldSet
<1> QED
  BY <1>1, <1>2

\* What build_record stores at a position is what the dictionary has there, and
\* Blank where it has nothing.
LEMMA BuildFields ==
  ASSUME NEW n \in Nat, NEW d, DOMAIN d \subseteq 1..n, NEW p \in Nat \ {0}
  PROVE  ExtractField(Build(d), p) = FieldOf(d, p)
<1>1. CASE DOMAIN d = {}
  <2>1. Build(d) = <<Blank>> /\ FieldOf(d, p) = Blank
    BY <1>1 DEF Build, NoRecord, FieldOf
  <2>2. \A q \in DOMAIN <<Blank>> : <<Blank>>[q] = Blank
    OBVIOUS
  <2> QED
    BY <2>1, <2>2 DEF ExtractField
<1>2. CASE DOMAIN d # {}
  <2> DEFINE m == Max(DOMAIN d)
  <2>1. m \in DOMAIN d /\ \A q \in DOMAIN d : q <= m
    BY <1>2, MaxExists
  <2>2. Build(d) = [q \in 1..m |-> FieldOf(d, q)]
    BY <1>2 DEF Build
  <2> HIDE DEF m
  <2>3. m \in Nat
    BY <2>1
  <2>4. CASE p <= m
    BY <2>2, <2>3, <2>4 DEF ExtractField
  <2>5. CASE ~(p <= m)
    <3>1. p \notin DOMAIN d /\ p \notin 1..m
      BY <2>1, <2>3, <2>5
    <3> QED
      BY <2>2, <3>1 DEF ExtractField, FieldOf
  <2> QED
    BY <2>4, <2>5
<1> QED
  BY <1>1, <1>2

\* The dictionary of a record has every field of it.
LEMMA ParsedFields ==
  ASSUME NEW r \in Records, NEW p
  PROVE  FieldOf(Parse(r), p) = ExtractField(r, p)
<1>1. CASE p \in DOMAIN Parse(r)
  <2>1. p \in DOMAIN r /\ r[p] \in FieldSet /\ Parse(r)[p] = ParsedField(r[p])
    BY <1>1, ParseShape, RecordShape
  <2> QED
    BY <1>1, <2>1, JoinAfterParse DEF FieldOf, ExtractField
<1>2. CASE p \notin DOMAIN Parse(r)
  <2>1. p \in DOMAIN r => r[p] = Blank
    BY <1>2, ParseShape
  <2> QED
    BY <1>2, <2>1 DEF FieldOf, ExtractField
<1> QED
  BY <1>1, <1>2

LEMMA BuildAfterParse ==
  ASSUME NEW r \in Records, NEW p \in DOMAIN r
  PROVE  ExtractField(Build(Parse(r)), p) = r[p]
<1>1. DOMAIN Parse(r) \subseteq 1..Len(r) /\ Len(r) \in Nat /\ p \in Nat \ {0}
  <2>1. Len(r) \in Nat /\ DOMAIN r = 1..Len(r)
    BY RecordShape
  <2>2. DOMAIN Parse(r) = {q \in DOMAIN r : r[q] # Blank}
    BY ParseShape
  <2>3. DOMAIN Parse(r) \subseteq 1..Len(r)
    BY <2>1, <2>2
  <2>4. p \in 1..Len(r)
    BY <2>1
  <2> QED
    BY <2>1, <2>3, <2>4
<1>2. ExtractField(Build(Parse(r)), p) = FieldOf(Parse(r), p)
  BY <1>1, BuildFields
<1> QED
  BY <1>2, ParsedFields DEF ExtractField

-----------------------------------------------------------------------------
(* The type invariant, and the round trip of whatever is stored.           *)

LEMMA InPlaceStored ==
  ASSUME NEW r \in Records, NEW p \in DOMAIN r, NEW i \in DOMAIN r[p],
         NEW values \in NewValues
  PROVE  /\ InPlace(r, p, i, values) \in Records
         /\ Len(InPlace(r, p, i, values)) = Len(r)
<1>1. r[p] \in Seq(Seq(Stored) \ {<<>>}) /\ i \in 1..Len(r[p])
  BY RecordShape DEF FieldSet
<1>2. values \in Seq(Seq(Stored) \ {<<>>}) /\ values # <<>>
  <2>1. PICK t \in Texts : values = <<<<t>>>> \/ values = <<<<t>>, <<t>>>>
    BY DEF NewValues
  <2> DEFINE X == Seq(Stored) \ {<<>>}
  <2>2. <<t>> \in X
    BY DEF Stored
  <2> HIDE DEF X
  <2>3. <<<<t>>>> \in Seq(X) /\ <<<<t>>, <<t>>>> \in Seq(X)
    BY <2>2
  <2>4. <<<<t>>>> # <<>> /\ <<<<t>>, <<t>>>> # <<>>
    OBVIOUS
  <2> QED
    BY <2>1, <2>3, <2>4 DEF X
<1> DEFINE f == SubSeq(r[p], 1, i - 1) \o values \o SubSeq(r[p], i + 1, Len(r[p]))
<1>3. f \in Seq(Seq(Stored) \ {<<>>})
  BY <1>1, <1>2
<1>4. f # <<>>
  <2>1. SubSeq(r[p], 1, i - 1) \in Seq(Seq(Stored) \ {<<>>})
    BY <1>1
  <2>2. SubSeq(r[p], i + 1, Len(r[p])) \in Seq(Seq(Stored) \ {<<>>})
    BY <1>1
  <2> QED
    BY <1>2, <2>1, <2>2
<1>5. InPlace(r, p, i, values) = [r EXCEPT ![p] = f]
  BY DEF InPlace
<1>6. f \in FieldSet
  BY <1>3, <1>4 DEF FieldSet
<1>7. r \in Seq(FieldSet) /\ r # <<>>
  BY DEF Records, FieldSet
<1> HIDE DEF f
<1>8. [r EXCEPT ![p] = f] \in Seq(FieldSet) /\ [r EXCEPT ![p] = f] # <<>>
  BY <1>6, <1>7
<1>9. Len([r EXCEPT ![p] = f]) = Len(r)
  BY <1>6, <1>7
<1> QED
  BY <1>5, <1>8, <1>9 DEF Records, FieldSet

LEMMA StepTypeOK == TypeOK /\ [Next]_vars => TypeOK'
<1> SUFFICES ASSUME TypeOK, [Next]_vars PROVE TypeOK'
  OBVIOUS
<1> USE DEF TypeOK
<1>0. MaxFields \in Nat /\ MaxFields > 0 /\ 1 <= MaxFields /\ NoRecord \in Records /\ Len(NoRecord) = 1
  BY BoundsAssumption, BlankStored DEF NoRecord
<1>1. ASSUME NEW c \in Callers, ReadRecord(c) PROVE TypeOK'
  <2>1. DOMAIN Parse(record) \subseteq Positions
    <3>1. DOMAIN Parse(record) \subseteq 1..Len(record)
      BY ParseShape, RecordShape
    <3>2. Len(record) \in Nat
      BY RecordShape
    <3> QED
      BY <1>0, <3>1, <3>2 DEF Positions
  <2>2. \A p \in DOMAIN Parse(record) : Parse(record)[p] \in Json /\ WellFormed(Parse(record)[p])
    BY ParseShape
  <2> QED
    BY <1>1, <2>1, <2>2 DEF ReadRecord
<1>2. ASSUME NEW c \in Callers, NEW p \in Positions, NEW v \in Inputs, WriteRecord(c, p, v)
      PROVE TypeOK'
  <2> DEFINE d == Edited(fields[c], p, v)
  <2>1. DOMAIN d \subseteq 1..MaxFields
    BY DEF Edited, Positions
  <2>2. \A q \in DOMAIN d : d[q] \in Json /\ WellFormed(d[q])
    BY InputsAssumption DEF Edited
  <2>3. record' = Build(d)
    BY <1>2 DEF WriteRecord
  <2> HIDE DEF d
  <2>4. record' \in Records /\ Len(record') <= MaxFields
    BY <1>0, <2>1, <2>2, <2>3, BuildStored
  <2> QED
    BY <1>2, <2>4 DEF WriteRecord
<1>3. ASSUME NEW c \in Callers, DeleteRecord(c) PROVE TypeOK'
  BY <1>0, <1>3 DEF DeleteRecord
<1>4. ASSUME NEW c \in Callers, UpdateValue(c) PROVE TypeOK'
  BY <1>4 DEF UpdateValue
<1>5. ASSUME NEW c \in Callers, NEW p \in Positions, NEW i \in 1..MaxValues,
             NEW values \in NewValues, ValueUpdated(c, p, i, values)
      PROVE TypeOK'
  <2>1. record' \in Records /\ Len(record') <= MaxFields
    <3>1. CASE HasValue(record, p, i) /\ record' = InPlace(record, p, i, values)
      BY <3>1, InPlaceStored DEF HasValue
    <3>2. CASE UNCHANGED record
      BY <3>2
    <3> QED
      BY <1>5, <3>1, <3>2 DEF ValueUpdated
  <2>2. before' \in [Callers -> Records] /\ pc' \in [Callers -> {"idle", "updating"}]
    BY <1>0, <1>5 DEF ValueUpdated
  <2>3. report' \in [Callers -> {"none", "kept", "moved", "error"}]
    BY <1>5 DEF ValueUpdated
  <2> QED
    BY <1>5, <2>1, <2>2, <2>3 DEF ValueUpdated
<1>6. CASE UNCHANGED vars
  BY <1>6 DEF vars
<1> QED
  BY <1>1, <1>2, <1>3, <1>4, <1>5, <1>6 DEF Next

\* Every variable keeps its shape: whatever clients write, what is stored is a
\* record, and what they read is well-formed JSON.
THEOREM RecordTypeOK == Spec => []TypeOK
<1>1. Init => TypeOK
  <2>1. DOMAIN <<>> = {}
    OBVIOUS
  <2>2. NoRecord \in Records /\ Len(NoRecord) <= MaxFields
    BY BlankStored, BoundsAssumption DEF NoRecord
  <2> SUFFICES ASSUME Init PROVE TypeOK
    OBVIOUS
  <2>3. \A c \in Callers : fields[c] = <<>>
    BY DEF Init
  <2>4. DOMAIN fields = Callers
    BY DEF Init
  <2>5. /\ pc \in [Callers -> {"idle", "updating"}] /\ before \in [Callers -> Records]
        /\ report \in [Callers -> {"none", "kept", "moved", "error"}]
    BY <2>2 DEF Init
  <2> QED
    BY <2>1, <2>2, <2>3, <2>4, <2>5 DEF Init, TypeOK
<1> QED
  BY <1>1, StepTypeOK, PTL DEF Spec

\* parse_record and build_record lose nothing of any record that can be stored,
\* whatever its fields, values and subvalues (dynarray.py).
THEOREM RecordRoundTrip == Spec => []RoundTrip
<1>1. TypeOK => RoundTrip
  BY BuildAfterParse DEF TypeOK, RoundTrip
<1> QED
  BY <1>1, RecordTypeOK, PTL

\* A client that writes back what it read, with one position changed, disturbs no
\* other field unless somebody wrote in between (write_record).
THEOREM EditIsLocal == Spec => EditKeepsOtherFields
<1>1. ASSUME TypeOK, NEW c \in Callers, NEW p \in Positions, NEW v \in Inputs,
             WriteRecord(c, p, v), fields[c] = Parse(record),
             NEW q \in Positions \ {p}
      PROVE  ExtractField(record', q) = ExtractField(record, q)
  <2> DEFINE d == Edited(Parse(record), p, v)
  <2>1. DOMAIN Parse(record) \subseteq 1..MaxFields /\ MaxFields \in Nat
    BY <1>1, BoundsAssumption DEF TypeOK, Positions
  <2>2. DOMAIN d \subseteq 1..MaxFields /\ q \in Nat \ {0}
    BY <2>1 DEF Edited, Positions
  <2>3. record' = Build(d)
    BY <1>1 DEF WriteRecord
  <2>4. FieldOf(d, q) = FieldOf(Parse(record), q)
    BY DEF FieldOf, Edited
  <2> HIDE DEF d
  <2>5. ExtractField(Build(d), q) = FieldOf(d, q)
    BY <2>1, <2>2, BuildFields
  <2>6. FieldOf(Parse(record), q) = ExtractField(record, q)
    BY <1>1, ParsedFields DEF TypeOK
  <2> QED
    BY <2>3, <2>4, <2>5, <2>6
<1>2. TypeOK => (\A c \in Callers, p \in Positions, v \in Inputs :
                   WriteRecord(c, p, v) /\ fields[c] = Parse(record) =>
                     \A q \in Positions \ {p} :
                       ExtractField(record', q) = ExtractField(record, q))
  BY <1>1
<1> QED
  BY <1>2, RecordTypeOK, PTL DEF EditKeepsOtherFields

-----------------------------------------------------------------------------
(* The accessors, and update_value's answer.                               *)

\* A field that the dictionary has is the one the accessors find, value by value.
LEMMA ParsedItems ==
  ASSUME NEW r \in Records, NEW p \in DOMAIN Parse(r)
  PROVE  /\ p \in DOMAIN r /\ r[p] \in FieldSet /\ r[p] # Blank
         /\ ExtractField(r, p) = r[p]
         /\ DOMAIN Parse(r)[p].items = DOMAIN r[p] /\ Len(Parse(r)[p].items) = Len(r[p])
         /\ \A i \in DOMAIN r[p] : /\ Parse(r)[p].items[i].parts = r[p][i]
                                   /\ ExtractValue(r, p, i) = r[p][i]
<1>1. p \in DOMAIN r /\ r[p] \in FieldSet /\ r[p] # Blank /\ Parse(r)[p] = ParsedField(r[p])
  BY ParseShape, RecordShape
<1>2. ExtractField(r, p) = r[p]
  BY <1>1 DEF ExtractField
<1>3. r[p] \in Seq(Seq(Stored) \ {<<>>})
  BY <1>1 DEF FieldSet
<1>4. Parse(r)[p].items = [i \in 1..Len(r[p]) |-> ParsedValue(r[p][i])]
  BY <1>1, <1>3 DEF ParsedField
<1>5. DOMAIN Parse(r)[p].items = DOMAIN r[p] /\ Len(Parse(r)[p].items) = Len(r[p])
  BY <1>3, <1>4
<1>6. \A i \in DOMAIN r[p] : Parse(r)[p].items[i].parts = r[p][i]
  BY <1>3, <1>4 DEF ParsedValue
<1>7. \A i \in DOMAIN r[p] : ExtractValue(r, p, i) = r[p][i]
  BY <1>1, <1>2 DEF ExtractValue
<1> QED
  BY <1>1, <1>2, <1>5, <1>6, <1>7

LEMMA MissingField ==
  ASSUME NEW r \in Records, NEW p, p \notin DOMAIN Parse(r)
  PROVE  ExtractField(r, p) = Blank /\ \A i : ExtractValue(r, p, i) = <<EmptyText>>
<1>1. ExtractField(r, p) = Blank
  BY ParseShape DEF ExtractField
<1> QED
  BY <1>1 DEF ExtractValue

\* Whatever is stored, the extract functions and the counts of dynarray.py read
\* it as parse_record does.
THEOREM RecordAccessors == Spec => []AccessorsAgree
<1>1. TypeOK => AccessorsAgree
  <2> SUFFICES ASSUME TypeOK PROVE AccessorsAgree
    OBVIOUS
  <2> DEFINE d == Parse(record)
  <2>1. record \in Records
    BY DEF TypeOK
  <2>2. ASSUME NEW p \in Positions
        PROVE  CountValues(record, p) = IF p \in DOMAIN d THEN Len(d[p].items) ELSE 0
    <3>1. CASE p \in DOMAIN d
      BY <2>1, <3>1, ParsedItems DEF CountValues
    <3>2. CASE p \notin DOMAIN d
      BY <2>1, <3>2, MissingField DEF CountValues
    <3> QED
      BY <3>1, <3>2
  <2>3. ASSUME NEW p \in Positions, p \in DOMAIN d, NEW i \in DOMAIN d[p].items
        PROVE  LET parts == d[p].items[i].parts IN
               /\ CountSubvalues(record, p, i) = IF parts = <<EmptyText>> THEN 0 ELSE Len(parts)
               /\ \A j \in DOMAIN parts : ExtractSubvalue(record, p, i, j) = parts[j]
    <3> DEFINE parts == d[p].items[i].parts
    <3>1. ExtractValue(record, p, i) = parts
      BY <2>1, <2>3, ParsedItems
    <3> HIDE DEF parts
    <3>2. CountSubvalues(record, p, i) = IF parts = <<EmptyText>> THEN 0 ELSE Len(parts)
      BY <3>1 DEF CountSubvalues
    <3>3. ASSUME NEW j \in DOMAIN parts PROVE ExtractSubvalue(record, p, i, j) = parts[j]
      <4>1. CASE parts = <<EmptyText>>
        <5>1. parts[j] = EmptyText
          BY <4>1
        <5> QED
          BY <3>1, <4>1, <5>1 DEF ExtractSubvalue
      <4>2. CASE parts # <<EmptyText>>
        BY <3>1, <4>2 DEF ExtractSubvalue
      <4> QED
        BY <4>1, <4>2
    <3> QED
      BY <3>2, <3>3 DEF parts
  <2> HIDE DEF d
  <2> QED
    BY <2>2, <2>3 DEF AccessorsAgree, d
<1> QED
  BY <1>1, RecordTypeOK, PTL

-----------------------------------------------------------------------------
(* The tables of an export.                                                *)

\* The rows of a record end: its fields have a longest one.
LEMMA LongestField ==
  ASSUME NEW r \in Records
  PROVE  \E b \in Nat : \A p \in DOMAIN r : Len(r[p]) <= b
<1> DEFINE S == {m \in Nat : m <= Len(r) => \E b \in Nat : \A p \in 1..m : Len(r[p]) <= b}
<1>1. Len(r) \in Nat /\ DOMAIN r = 1..Len(r) /\ \A p \in DOMAIN r : Len(r[p]) \in Nat
  BY RecordShape DEF FieldSet
<1>2. 0 \in S
  <2>1. \A p \in 1..0 : Len(r[p]) <= 0
    OBVIOUS
  <2> QED
    BY <2>1
<1>3. ASSUME NEW m \in Nat, m \in S PROVE m + 1 \in S
  <2> SUFFICES ASSUME m + 1 <= Len(r) PROVE \E b \in Nat : \A p \in 1..(m + 1) : Len(r[p]) <= b
    OBVIOUS
  <2>1. PICK b \in Nat : \A p \in 1..m : Len(r[p]) <= b
    BY <1>1, <1>3
  <2>2. m + 1 \in DOMAIN r /\ Len(r[m + 1]) \in Nat
    BY <1>1
  <2> DEFINE k == Len(r[m + 1])
             c == IF b >= k THEN b ELSE k
  <2>3. k \in Nat /\ c \in Nat /\ b <= c /\ k <= c
    BY <2>2
  <2>4. \A p \in 1..(m + 1) : Len(r[p]) <= c
    <3> HIDE DEF c
    <3> SUFFICES ASSUME NEW p \in 1..(m + 1) PROVE Len(r[p]) <= c
      OBVIOUS
    <3>1. p \in 1..m \/ p = m + 1
      OBVIOUS
    <3>2. CASE p = m + 1
      BY <2>3, <3>2
    <3>3. CASE p \in 1..m
      <4>1. Len(r[p]) <= b /\ Len(r[p]) \in Nat
        BY <1>1, <2>1, <3>3
      <4> QED
        BY <2>3, <4>1
    <3> QED
      BY <3>1, <3>2, <3>3
  <2> QED
    BY <2>3, <2>4
<1> HIDE DEF S
<1>4. Len(r) \in S
  BY <1>1, <1>2, <1>3, NatInduct
<1>5. PICK b \in Nat : \A p \in 1..Len(r) : Len(r[p]) <= b
  BY <1>1, <1>4 DEF S
<1> QED
  BY <1>1, <1>5

\* A record has as many rows as its longest list has values, and at least one.
LEMMA RowsEnough ==
  ASSUME NEW r \in Records
  PROVE  /\ RowCount(Parse(r)) \in Nat \ {0}
         /\ \A p \in DOMAIN Parse(r) : DOMAIN Parse(r)[p].items \subseteq 1..RowCount(Parse(r))
<1> DEFINE d == Parse(r)
           S == {1} \cup {Len(d[p].items) : p \in {q \in DOMAIN d : d[q].list}}
<1>1. PICK b \in Nat : \A p \in DOMAIN r : Len(r[p]) <= b
  BY LongestField
<1>2. \A p \in DOMAIN d : /\ p \in DOMAIN r /\ r[p] \in FieldSet
                          /\ Len(d[p].items) = Len(r[p]) /\ DOMAIN d[p].items = DOMAIN r[p]
                          /\ WellFormed(d[p])
  BY ParsedItems, ParseShape
<1>3. \A f \in FieldSet : Len(f) \in Nat \ {0} /\ DOMAIN f = 1..Len(f)
  BY DEF FieldSet
<1> HIDE DEF d
<1>4. S \subseteq 1..(b + 1)
  <2> SUFFICES ASSUME NEW p \in DOMAIN d PROVE Len(d[p].items) \in 1..(b + 1)
    OBVIOUS
  <2>1. Len(d[p].items) \in Nat \ {0} /\ Len(d[p].items) <= b
    BY <1>1, <1>2, <1>3
  <2> QED
    BY <2>1
<1>5. S # {} /\ 1 \in S
  OBVIOUS
<1>6. RowCount(d) = Max(S)
  BY DEF RowCount
<1> HIDE DEF S
<1>7. Max(S) \in S /\ \A y \in S : y <= Max(S)
  <2>1. b + 1 \in Nat
    OBVIOUS
  <2> DEFINE m == b + 1
  <2> HIDE DEF m
  <2>2. m \in Nat /\ S \subseteq 1..m /\ S # {}
    BY <2>1, <1>4, <1>5 DEF m
  <2> QED
    BY <2>2, MaxExists
<1>8. Max(S) \in Nat \ {0}
  <2>1. Max(S) \in 1..(b + 1)
    BY <1>4, <1>7
  <2> QED
    BY <2>1
<1>9. ASSUME NEW p \in DOMAIN d PROVE DOMAIN d[p].items \subseteq 1..Max(S)
  <2>1. Len(d[p].items) \in Nat \ {0} /\ DOMAIN d[p].items = 1..Len(d[p].items)
    BY <1>2, <1>3
  <2>2. Len(d[p].items) <= Max(S)
    <3>1. CASE d[p].list
      BY <1>7, <3>1 DEF S
    <3>2. CASE ~d[p].list
      <4>1. Len(d[p].items) = 1
        BY <1>2, <3>2 DEF WellFormed
      <4> QED
        BY <1>5, <1>7, <4>1
    <3> QED
      BY <3>1, <3>2
  <2> QED
    BY <1>8, <2>1, <2>2
<1> QED
  BY <1>6, <1>8, <1>9 DEF d

Row(q, d, i) == [id |-> q, index |-> i, cells |-> [p \in DOMAIN d |-> Cell(d[p], i)]]

AllRows(ds) == UNION {{Row(q, ds[q], i) : i \in 1..RowCount(ds[q])} : q \in DOMAIN ds}

\* The rows of an export are those of its records.
LEMMA RowsAre ==
  ASSUME NEW n \in Nat, NEW ds, DOMAIN ds = 1..n, \A q \in 1..n : RowCount(ds[q]) \in Nat
  PROVE  ToSet(Rows(ds)) = AllRows(ds)
<1> DEFINE T == AllRows(ds)
           ss == [q \in DOMAIN ds |-> ExpandMultivalues(q, ds[q])]
<1>1. ASSUME NEW q \in 1..n
      PROVE  /\ ss[q] = [i \in 1..RowCount(ds[q]) |-> Row(q, ds[q], i)]
             /\ ss[q] \in Seq(T)
             /\ ToSet(ss[q]) = {Row(q, ds[q], i) : i \in 1..RowCount(ds[q])}
  <2> DEFINE m == RowCount(ds[q])
             e == [i \in 1..m |-> Row(q, ds[q], i)]
  <2>1. ss[q] = e
    BY DEF ExpandMultivalues, Row
  <2>2. m \in Nat /\ \A i \in 1..m : Row(q, ds[q], i) \in T
    BY DEF AllRows
  <2> HIDE DEF m, T
  <2>3. e \in Seq(T)
    BY <2>2
  <2>4. ToSet(e) = {Row(q, ds[q], i) : i \in 1..m}
    BY DEF ToSet
  <2> HIDE DEF e, ss
  <2> QED
    BY <2>1, <2>3, <2>4 DEF e, m
<1>2. DOMAIN ss = 1..n
  OBVIOUS
<1> HIDE DEF ss, T
<1>3. ss = [q \in 1..n |-> ss[q]]
  BY <1>2 DEF ss
<1>4. ss \in Seq(Seq(T))
  BY <1>1, <1>3
<1>5. Flattens(T, ss)
  BY <1>4, FlattenElements
<1>6. ToSet(Rows(ds)) = AllElements(ss)
  BY <1>5 DEF Rows, Flattens, ss
<1>7. AllElements(ss) = UNION {{Row(q, ds[q], i) : i \in 1..RowCount(ds[q])} : q \in 1..n}
  BY <1>1, <1>2 DEF AllElements
<1> QED
  BY <1>6, <1>7 DEF AllRows

\* The columns are the positions that some record has.
LEMMA ColumnsAre ==
  ASSUME NEW n \in Nat, NEW ds, DOMAIN ds = 1..n
  PROVE  ToSet(Columns(ds)) = {p \in Positions : \E q \in 1..n : p \in DOMAIN ds[q]}
<1> DEFINE ss == [p \in Positions |-> IF \E q \in DOMAIN ds : p \in DOMAIN ds[q] THEN <<p>> ELSE <<>>]
<1>1. \A p \in Positions : ss[p] \in Seq(Positions)
  OBVIOUS
<1>2. ss \in Seq(Seq(Positions))
  BY <1>1, BoundsAssumption DEF Positions
<1>3. \A p : ToSet(<<p>>) = {p}
  BY DEF ToSet
<1>4. ToSet(<<>>) = {}
  BY DEF ToSet
<1>5. /\ DOMAIN ss = Positions
      /\ \A p \in Positions : ToSet(ss[p]) = IF \E q \in DOMAIN ds : p \in DOMAIN ds[q] THEN {p} ELSE {}
  BY <1>3, <1>4
<1> HIDE DEF ss
<1>6. Flattens(Positions, ss)
  BY <1>2, FlattenElements
<1>7. ToSet(Columns(ds)) = AllElements(ss)
  BY <1>6 DEF Columns, Flattens, ss
<1> QED
  BY <1>5, <1>7 DEF AllElements

TablesMatch(rs) ==
  LET ds   == [r \in DOMAIN rs |-> Parse(rs[r])]
      cols == Columns(ds)
      rows == ExpandedTable(ds)
  IN  \A r \in DOMAIN rs :
        /\ \A p \in Positions :
             IF p \in ToSet(cols)
               THEN FlatTable(ds)[r][CHOOSE k \in DOMAIN cols : cols[k] = p] = ExtractField(rs[r], p)
               ELSE ExtractField(rs[r], p) = Blank
        /\ \A p \in ToSet(cols), i \in 1..(MaxValues + 1) :
             LET at   == {n \in DOMAIN rows : rows[n].id = r /\ rows[n].index = i}
                 cell == {rows[n].cells[CHOOSE k \in DOMAIN cols : cols[k] = p] : n \in at}
             IN  cell \cup {NoValue} = {ExtractValue(rs[r], p, i), NoValue}

\* One value: what the expanded row has of it is what the accessors find.
LEMMA CellIsValue ==
  ASSUME NEW r \in Records, NEW p, NEW i \in Nat \ {0}
  PROVE  /\ p \in DOMAIN Parse(r) => Cell(Parse(r)[p], i) = ExtractValue(r, p, i)
         /\ p \notin DOMAIN Parse(r) => ExtractValue(r, p, i) = NoValue
         /\ ~(i <= RowCount(Parse(r))) => ExtractValue(r, p, i) = NoValue
<1> DEFINE d == Parse(r)
<1>1. ASSUME p \in DOMAIN d PROVE Cell(d[p], i) = ExtractValue(r, p, i)
  <2>1. /\ DOMAIN d[p].items = DOMAIN r[p] /\ ExtractField(r, p) = r[p]
        /\ \A j \in DOMAIN r[p] : d[p].items[j].parts = r[p][j] /\ ExtractValue(r, p, j) = r[p][j]
    BY <1>1, ParsedItems
  <2>2. i \notin DOMAIN r[p] => ExtractValue(r, p, i) = <<EmptyText>>
    BY <2>1 DEF ExtractValue
  <2> QED
    BY <2>1, <2>2 DEF Cell, NoValue
<1>2. p \notin DOMAIN d => ExtractValue(r, p, i) = NoValue
  BY MissingField DEF NoValue
<1>3. ASSUME ~(i <= RowCount(d)), p \in DOMAIN d PROVE Cell(d[p], i) = NoValue
  <2>1. RowCount(d) \in Nat \ {0} /\ DOMAIN d[p].items \subseteq 1..RowCount(d)
    BY <1>3, RowsEnough
  <2> HIDE DEF d
  <2>2. i \notin DOMAIN d[p].items
    BY <1>3, <2>1
  <2> QED
    BY <2>2 DEF Cell
<1> QED
  BY <1>1, <1>2, <1>3

LEMMA AlignedCell ==
  ASSUME NEW cols, NEW p \in ToSet(cols), NEW cells, NEW missing
  PROVE  Aligned(cols, cells, missing)[CHOOSE k \in DOMAIN cols : cols[k] = p]
           = IF p \in DOMAIN cells THEN cells[p] ELSE missing
<1> DEFINE k == CHOOSE k \in DOMAIN cols : cols[k] = p
<1>1. k \in DOMAIN cols /\ cols[k] = p
  BY DEF ToSet
<1> HIDE DEF k
<1>2. Aligned(cols, cells, missing)[k] = IF p \in DOMAIN cells THEN cells[p] ELSE missing
  BY <1>1 DEF Aligned
<1> QED
  BY <1>2 DEF k


\* Whatever records are exported side by side, the cells of both tables are theirs.
LEMMA TablesOf ==
  ASSUME NEW n \in Nat, NEW rs, DOMAIN rs = 1..n,
         \A r \in 1..n : rs[r] \in Records /\ Len(rs[r]) <= MaxFields
  PROVE  TablesMatch(rs)
<1> DEFINE ds   == [r \in DOMAIN rs |-> Parse(rs[r])]
           cols == Columns(ds)
           rows == ExpandedTable(ds)
           flat == FlatTable(ds)
<1>1. DOMAIN ds = 1..n /\ \A q \in 1..n : ds[q] = Parse(rs[q])
  OBVIOUS
<1>2. \A q \in 1..n : /\ DOMAIN ds[q] \subseteq Positions
                      /\ RowCount(ds[q]) \in Nat \ {0}
  <2> SUFFICES ASSUME NEW q \in 1..n PROVE DOMAIN ds[q] \subseteq Positions /\ RowCount(ds[q]) \in Nat \ {0}
    OBVIOUS
  <2>1. rs[q] \in Records /\ Len(rs[q]) <= MaxFields /\ ds[q] = Parse(rs[q])
    BY <1>1
  <2>2. Len(rs[q]) \in Nat /\ DOMAIN rs[q] = 1..Len(rs[q]) /\ DOMAIN Parse(rs[q]) \subseteq DOMAIN rs[q]
    BY <2>1, RecordShape, ParseShape
  <2>3. DOMAIN Parse(rs[q]) \subseteq Positions
    BY <2>1, <2>2, BoundsAssumption DEF Positions
  <2>4. RowCount(Parse(rs[q])) \in Nat \ {0}
    BY <2>1, RowsEnough
  <2> QED
    BY <2>1, <2>3, <2>4
<1>3. ToSet(cols) = {p \in Positions : \E q \in 1..n : p \in DOMAIN ds[q]}
  <2> HIDE DEF ds
  <2> QED
    BY <1>1, ColumnsAre
<1>4. ToSet(Rows(ds)) = AllRows(ds)
  <2> HIDE DEF ds
  <2> QED
    BY <1>1, <1>2, RowsAre
<1> HIDE DEF ds, cols
<1>5. ASSUME NEW r \in 1..n, NEW p \in Positions
      PROVE  IF p \in ToSet(cols)
               THEN flat[r][CHOOSE k \in DOMAIN cols : cols[k] = p] = ExtractField(rs[r], p)
               ELSE ExtractField(rs[r], p) = Blank
  <2>1. rs[r] \in Records /\ ds[r] = Parse(rs[r])
    BY <1>1
  <2>2. CASE p \notin ToSet(cols)
    <3>1. p \notin DOMAIN Parse(rs[r])
      BY <1>3, <2>1, <2>2
    <3> QED
      BY <2>1, <2>2, <3>1, MissingField
  <2>3. CASE p \in ToSet(cols)
    <3> DEFINE cells == [q \in DOMAIN ds[r] |-> FlattenMultivalue(ds[r][q])]
               k == CHOOSE k \in DOMAIN cols : cols[k] = p
    <3>1. flat[r] = Aligned(cols, cells, Blank)
      BY <1>1 DEF FlatTable, cols
    <3>2. DOMAIN cells = DOMAIN ds[r]
      OBVIOUS
    <3>3. p \in DOMAIN ds[r] => cells[p] = FlattenMultivalue(ds[r][p])
      OBVIOUS
    <3> HIDE DEF cells
    <3>4. Aligned(cols, cells, Blank)[k] = IF p \in DOMAIN cells THEN cells[p] ELSE Blank
      BY <2>3, AlignedCell
    <3> HIDE DEF k
    <3>5. CASE p \in DOMAIN ds[r]
      <4>1. /\ DOMAIN ds[r][p].items = DOMAIN rs[r][p]
            /\ \A i \in DOMAIN rs[r][p] : ds[r][p].items[i].parts = rs[r][p][i]
            /\ ExtractField(rs[r], p) = rs[r][p] /\ rs[r][p] \in FieldSet
        BY <2>1, <3>5, ParsedItems
      <4>2. FlattenMultivalue(ds[r][p]) = [i \in DOMAIN rs[r][p] |-> rs[r][p][i]]
        BY <4>1 DEF FlattenMultivalue
      <4>3. rs[r][p] = [i \in DOMAIN rs[r][p] |-> rs[r][p][i]]
        BY <4>1 DEF FieldSet
      <4>4. flat[r][k] = ExtractField(rs[r], p)
        BY <3>1, <3>2, <3>3, <3>4, <3>5, <4>1, <4>2, <4>3
      <4> QED
        BY <2>3, <4>4 DEF k
    <3>6. CASE p \notin DOMAIN ds[r]
      <4>1. ExtractField(rs[r], p) = Blank
        BY <2>1, <3>6, MissingField
      <4>2. flat[r][k] = Blank
        BY <3>1, <3>2, <3>4, <3>6
      <4> QED
        BY <2>3, <4>1, <4>2 DEF k
    <3> QED
      BY <3>5, <3>6
  <2> QED
    BY <2>2, <2>3
<1>6. ASSUME NEW r \in 1..n, NEW p \in ToSet(cols), NEW i \in 1..(MaxValues + 1)
      PROVE  LET at   == {m \in DOMAIN rows : rows[m].id = r /\ rows[m].index = i}
                 cell == {rows[m].cells[CHOOSE k \in DOMAIN cols : cols[k] = p] : m \in at}
             IN  cell \cup {NoValue} = {ExtractValue(rs[r], p, i), NoValue}
  <2> DEFINE all == Rows(ds)
             at == {m \in DOMAIN rows : rows[m].id = r /\ rows[m].index = i}
             k == CHOOSE k \in DOMAIN cols : cols[k] = p
             cell == {rows[m].cells[k] : m \in at}
             value == ExtractValue(rs[r], p, i)
             mine == Row(r, ds[r], i)
  <2>1. rs[r] \in Records /\ ds[r] = Parse(rs[r]) /\ i \in Nat \ {0} /\ RowCount(ds[r]) \in Nat \ {0}
    BY <1>1, <1>2, BoundsAssumption
  <2>2. rows = [m \in DOMAIN all |-> [all[m] EXCEPT !.cells = Aligned(cols, @, NoValue)]]
    BY DEF ExpandedTable, cols
\* Every row is the row of one record and one index.
  <2>3. \A m \in DOMAIN all : \E q \in 1..n : \E j \in 1..RowCount(ds[q]) : all[m] = Row(q, ds[q], j)
    <3>1. \A m \in DOMAIN all : all[m] \in AllRows(ds)
      BY <1>4 DEF ToSet
    <3> HIDE DEF all
    <3>2. \A row \in AllRows(ds) : \E q \in 1..n : \E j \in 1..RowCount(ds[q]) : row = Row(q, ds[q], j)
      BY <1>1, Zenon DEF AllRows
    <3> QED
      BY <3>1, <3>2, Zenon
  <2>4. mine.id = r /\ mine.index = i /\ mine.cells = [q \in DOMAIN ds[r] |-> Cell(ds[r][q], i)]
    BY DEF Row
  <2>5. i <= RowCount(ds[r]) => \E m \in DOMAIN all : all[m] = mine
    <3>1. i <= RowCount(ds[r]) => mine \in AllRows(ds)
      <4> SUFFICES ASSUME i <= RowCount(ds[r]) PROVE mine \in AllRows(ds)
        OBVIOUS
      <4>1. i \in 1..RowCount(ds[r])
        BY <2>1
      <4>2. mine \in {Row(r, ds[r], j) : j \in 1..RowCount(ds[r])}
        BY <4>1
      <4> HIDE DEF mine
      <4> QED
        BY <1>1, <4>2, Zenon DEF AllRows
    <3> QED
      BY <1>4, <3>1 DEF ToSet
  <2> HIDE DEF all, rows
  <2>6. \A m \in DOMAIN all :
          /\ all[m].id = r /\ all[m].index = i => all[m] = mine /\ i <= RowCount(ds[r])
          /\ rows[m].id = all[m].id /\ rows[m].index = all[m].index
          /\ rows[m].cells = Aligned(cols, all[m].cells, NoValue)
    <3> SUFFICES ASSUME NEW m \in DOMAIN all
                 PROVE  /\ all[m].id = r /\ all[m].index = i => all[m] = mine /\ i <= RowCount(ds[r])
                        /\ rows[m].id = all[m].id /\ rows[m].index = all[m].index
                        /\ rows[m].cells = Aligned(cols, all[m].cells, NoValue)
      OBVIOUS
    <3>1. PICK q \in 1..n : \E j \in 1..RowCount(ds[q]) : all[m] = Row(q, ds[q], j)
      BY <2>3
    <3>2. PICK j \in 1..RowCount(ds[q]) : all[m] = Row(q, ds[q], j)
      BY <3>1
    <3>3. all[m].id = q /\ all[m].index = j /\ DOMAIN all[m] = {"id", "index", "cells"}
      BY <3>2 DEF Row
    <3>4. j <= RowCount(ds[q])
      BY <1>2, <3>2
    <3>5. all[m].id = r /\ all[m].index = i => all[m] = mine /\ i <= RowCount(ds[r])
      BY <3>2, <3>3, <3>4
    <3>6. rows[m] = [all[m] EXCEPT !.cells = Aligned(cols, @, NoValue)]
      BY <2>2
    <3> QED
      BY <3>3, <3>5, <3>6
  <2>7. DOMAIN rows = DOMAIN all
    BY <2>2
  <2>8. Aligned(cols, mine.cells, NoValue)[k] = value
    <3> DEFINE cells == mine.cells
    <3>1. DOMAIN cells = DOMAIN ds[r] /\ \A q \in DOMAIN ds[r] : cells[q] = Cell(ds[r][q], i)
      BY <2>4
    <3> HIDE DEF cells
    <3>2. Aligned(cols, cells, NoValue)[k] = IF p \in DOMAIN cells THEN cells[p] ELSE NoValue
      BY <1>6, AlignedCell
    <3>3. /\ p \in DOMAIN ds[r] => Cell(ds[r][p], i) = value
          /\ p \notin DOMAIN ds[r] => value = NoValue
      BY <2>1, CellIsValue
    <3> HIDE DEF k, value
    <3>4. Aligned(cols, cells, NoValue)[k] = value
      BY <3>1, <3>2, <3>3
    <3> QED
      BY <3>4 DEF cells
  <2>9. ~(i <= RowCount(ds[r])) => value = NoValue
    BY <2>1, CellIsValue
  <2> HIDE DEF k, value, mine
  <2>10. \A m \in at : rows[m].cells[k] = value
    BY <2>6, <2>7, <2>8
  <2>11. i <= RowCount(ds[r]) => at # {}
    <3> SUFFICES ASSUME i <= RowCount(ds[r]) PROVE at # {}
      OBVIOUS
    <3>1. PICK m \in DOMAIN all : all[m] = mine
      BY <2>5
    <3>2. m \in at
      BY <2>4, <2>6, <2>7, <3>1
    <3> QED
      BY <3>2
  <2> HIDE DEF at
  <2>12. cell \cup {NoValue} = {value, NoValue}
    BY <2>9, <2>10, <2>11
  <2> QED
    BY <2>12 DEF k, value, at
<1> QED
  BY <1>5, <1>6 DEF TablesMatch, ds, cols

\* Whatever is stored and whatever a client holds, the cells of an export are what
\* the accessors find in the records (export.py).
THEOREM TablesAreRight == Spec => []TablesMatchRecords
<1>1. ASSUME TypeOK, NEW c \in Callers PROVE TablesMatch(Exported(c))
  <2> DEFINE a == record
             b == Build(fields[c])
             S == {r \in Records : Len(r) <= MaxFields}
  <2>1. a \in S
    BY <1>1 DEF TypeOK
  <2>2. b \in S
    <3> DEFINE d == fields[c]
    <3>1. DOMAIN d \subseteq 1..MaxFields /\ \A p \in DOMAIN d : d[p] \in Json /\ WellFormed(d[p])
      BY <1>1 DEF TypeOK, Positions
    <3> HIDE DEF d
    <3>2. Build(d) \in Records /\ Len(Build(d)) <= MaxFields
      BY <3>1, BuildStored, BoundsAssumption
    <3> QED
      BY <3>2 DEF d
  <2> HIDE DEF a, b
  <2> DEFINE rs == Found(a) \o Found(b)
  <2> HIDE DEF S
  <2>3. \A r \in S : Found(r) \in Seq(S)
    BY DEF Found
  <2>4. rs \in Seq(S)
    BY <2>1, <2>2, <2>3
  <2> HIDE DEF rs
  <2>5. Len(rs) \in Nat /\ DOMAIN rs = 1..Len(rs) /\ \A r \in 1..Len(rs) : rs[r] \in Records /\ Len(rs[r]) <= MaxFields
    BY <2>4 DEF S
  <2>6. TablesMatch(rs)
    BY <2>5, TablesOf
  <2> QED
    BY <2>6 DEF Exported, rs, a, b
<1>2. TypeOK => TablesMatchRecords
  BY <1>1 DEF TablesMatchRecords, TablesMatch
<1> QED
  BY <1>2, RecordTypeOK, PTL
=============================================================================
