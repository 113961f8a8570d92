--------------------------- MODULE ReadToolsProofs ---------------------------
(***************************************************************************)
(* Theorems about ReadTools, for any clients, tools, names and limits: an  *)
(* answer that says it is complete is, and a batch accounts for every id.  *)
(* The invariant says what becomes of the ids on the way: as long as the   *)
(* active list of the session is a client's own, what it has taken and     *)
(* what the list still holds are what its cursor found, and what it        *)
(* selected if nothing came between the two; and what a batch has          *)
(* read, reported and still to read are what it was asked for.  In order,  *)
(* and for each tool by its own test: what a call has taken, followed by   *)
(* what it will take of the ids before it, is what it should take          *)
(* (TrackInv).                                                             *)
(***************************************************************************)
EXTENDS ReadTools, SequenceTheorems, WellFoundedInduction, TLAPS

-----------------------------------------------------------------------------
(* Induction, as a fact about sets, and FlattenSeq.                        *)

LEMMA NatInduct ==
  ASSUME NEW S, 0 \in S, \A n \in Nat : n \in S => n + 1 \in S
  PROVE  Nat \subseteq S
<1> DEFINE T == Nat \ S
<1>1. SUFFICES ASSUME T # {} PROVE FALSE
  OBVIOUS
<1>2. PICK x \in T : \A y \in T : <<y, x>> \notin OpToRel(<, Nat)
  BY <1>1, NatLessThanWellFounded, WFMin
<1>3. x \in Nat /\ x # 0 /\ x - 1 \in Nat /\ x - 1 < x
  OBVIOUS
<1>4. x - 1 \notin T
  BY <1>2, <1>3 DEF OpToRel
<1>5. x - 1 \in S /\ (x - 1) + 1 = x
  BY <1>3, <1>4
<1> QED
  BY <1>3, <1>5

\* A set with the empty sequence, and with every sequence one longer than one it
\* has, has all sequences.
LEMMA SeqInduct ==
  ASSUME NEW T, NEW S, <<>> \in S, \A s \in Seq(T), x \in T : s \in S => Append(s, x) \in S
  PROVE  Seq(T) \subseteq S
<1> DEFINE N == {n \in Nat : \A s \in Seq(T) : Len(s) = n => s \in S}
<1>1. 0 \in N
  <2>1. \A s \in Seq(T) : Len(s) = 0 => s = <<>>
    OBVIOUS
  <2> QED
    BY <2>1
<1>2. ASSUME NEW n \in Nat, n \in N PROVE n + 1 \in N
  <2> SUFFICES ASSUME NEW s \in Seq(T), Len(s) = n + 1 PROVE s \in S
    OBVIOUS
  <2>1. s # <<>>
    OBVIOUS
  <2>2. PICK r \in Seq(T), x \in T : s = Append(r, x)
    BY <2>1, SequenceEmptyOrAppend
  <2>3. Len(r) = n
    BY <2>2
  <2> QED
    BY <1>2, <2>2, <2>3
<1> HIDE DEF N
<1>3. Nat \subseteq N
  BY <1>1, <1>2, NatInduct
<1> QED
  BY <1>3 DEF N

IsFlat(f, ss, n) == f = [i \in 1..n |-> IF i = 1 THEN ss[i] ELSE f[i - 1] \o ss[i]]

LEMMA FlatExists ==
  ASSUME NEW ss, NEW n \in Nat
  PROVE  \E f : IsFlat(f, ss, n)
<1> DEFINE S == {m \in Nat : \E f : IsFlat(f, ss, m)}
<1>1. 0 \in S
  <2> DEFINE f == [i \in 1..0 |-> <<>>]
  <2>1. IsFlat(f, ss, 0)
    BY DEF IsFlat
  <2> QED
    BY <2>1
<1>2. ASSUME NEW m \in Nat, m \in S PROVE m + 1 \in S
  <2>1. PICK f : IsFlat(f, ss, m)
    BY <1>2
  <2> DEFINE v(i) == IF i = 1 THEN ss[i] ELSE f[i - 1] \o ss[i]
             g == [i \in 1..(m + 1) |-> v(i)]
  <2>2. \A i \in 1..m : f[i] = v(i)
    BY <2>1 DEF IsFlat
  <2>3. \A i \in 1..(m + 1) : i # 1 => i - 1 \in 1..m /\ g[i - 1] = f[i - 1]
    BY <2>2
  <2>4. \A i \in 1..(m + 1) : v(i) = IF i = 1 THEN ss[i] ELSE g[i - 1] \o ss[i]
    BY <2>3
  <2> HIDE DEF v
  <2>5. g = [i \in 1..(m + 1) |-> IF i = 1 THEN ss[i] ELSE g[i - 1] \o ss[i]]
    BY <2>4, Zenon
  <2>6. IsFlat(g, ss, m + 1)
    BY <2>5 DEF IsFlat
  <2> QED
    BY <2>6
<1> HIDE DEF S
<1>3. n \in S
  BY <1>1, <1>2, NatInduct
<1> QED
  BY <1>3 DEF S

Agree(ss, tt, n) == \A i \in 1..n : ss[i] = tt[i]

LEMMA FlatUnique ==
  ASSUME NEW ss, NEW tt, NEW n \in Nat, NEW m \in Nat, n <= m, Agree(ss, tt, n),
         NEW f, IsFlat(f, ss, n), NEW g, IsFlat(g, tt, m)
  PROVE  Agree(f, g, n)
<1> DEFINE S == {k \in Nat : k \in 1..n => f[k] = g[k]}
<1>1. 0 \in S
  OBVIOUS
<1>2. ASSUME NEW k \in Nat, k \in S PROVE k + 1 \in S
  <2> SUFFICES ASSUME k + 1 \in 1..n PROVE f[k + 1] = g[k + 1]
    OBVIOUS
  <2>1. k + 1 \in 1..m /\ ss[k + 1] = tt[k + 1] /\ (k + 1) - 1 = k
    BY DEF Agree
  <2>2. /\ f[k + 1] = IF k + 1 = 1 THEN ss[k + 1] ELSE f[(k + 1) - 1] \o ss[k + 1]
        /\ g[k + 1] = IF k + 1 = 1 THEN tt[k + 1] ELSE g[(k + 1) - 1] \o tt[k + 1]
    BY <2>1 DEF IsFlat
  <2>3. k + 1 # 1 => f[k] = g[k]
    BY <1>2
  <2> QED
    BY <2>1, <2>2, <2>3
<1> HIDE DEF S
<1>3. Nat \subseteq S
  BY <1>1, <1>2, NatInduct
<1> QED
  BY <1>3 DEF S, Agree

\* FlattenSeq is what it says, one sequence at a time.
LEMMA FlattenEmpty == FlattenSeq(<<>>) = <<>>
BY DEF FlattenSeq

LEMMA FlattenIs ==
  ASSUME NEW ss, NEW n \in Nat \ {0}, n = Len(ss), NEW f, IsFlat(f, ss, n)
  PROVE  FlattenSeq(ss) = f[n]
<1> DEFINE h == CHOOSE h : IsFlat(h, ss, n)
<1>1. IsFlat(h, ss, n)
  BY FlatExists
<1>2. FlattenSeq(ss) = h[n]
  BY DEF FlattenSeq, IsFlat
<1> HIDE DEF h
<1>3. n \in Nat /\ n <= n /\ Agree(ss, ss, n)
  BY DEF Agree
<1>4. Agree(f, h, n)
  BY <1>1, <1>3, FlatUnique
<1> QED
  BY <1>2, <1>4 DEF Agree

LEMMA FlattenAppend ==
  ASSUME NEW T, NEW ss \in Seq(Seq(T)), NEW s \in Seq(T)
  PROVE  FlattenSeq(Append(ss, s)) = FlattenSeq(ss) \o s
<1> DEFINE n == Len(ss)
           m == n + 1
           tt == Append(ss, s)
<1>1. /\ n \in Nat /\ m \in Nat \ {0} /\ m \in Nat /\ n <= m /\ m \in 1..m /\ m - 1 = n
      /\ Len(tt) = m /\ tt[m] = s /\ (m = 1 => n = 0)
  OBVIOUS
<1>2. Agree(ss, tt, n)
  BY DEF Agree
<1>3. n = 0 => ss = <<>>
  OBVIOUS
<1> HIDE DEF n, m, tt
<1>4. PICK g : IsFlat(g, tt, m)
  BY <1>1, FlatExists
<1>5. FlattenSeq(tt) = g[m]
  BY <1>1, <1>4, FlattenIs
<1>6. g[m] = IF m = 1 THEN s ELSE g[n] \o s
  BY <1>1, <1>4 DEF IsFlat
<1>7. CASE n = 0
  <2>1. FlattenSeq(tt) = s
    BY <1>1, <1>5, <1>6, <1>7 DEF m
  <2>2. <<>> \o s = s
    OBVIOUS
  <2> QED
    BY <1>3, <1>7, <2>1, <2>2, FlattenEmpty DEF tt
<1>8. CASE n # 0
  <2>1. PICK f : IsFlat(f, ss, n)
    BY <1>1, FlatExists
  <2>2. Agree(f, g, n)
    BY <1>1, <1>2, <1>4, <2>1, FlatUnique
  <2>3. n \in 1..n /\ n \in Nat \ {0}
    BY <1>1, <1>8
  <2>4. FlattenSeq(ss) = f[n]
    BY <2>1, <2>3, FlattenIs DEF n
  <2>5. f[n] = g[n]
    BY <2>2, <2>3 DEF Agree
  <2> QED
    BY <1>1, <1>5, <1>6, <1>8, <2>4, <2>5 DEF tt
<1> QED
  BY <1>7, <1>8

LEMMA ConcatElements ==
  ASSUME NEW T, NEW a \in Seq(T), NEW b \in Seq(T)
  PROVE  a \o b \in Seq(T) /\ ToSet(a \o b) = ToSet(a) \cup ToSet(b)
<1> DEFINE h == a \o b
<1>1. /\ h \in Seq(T) /\ DOMAIN h = 1..(Len(a) + Len(b)) /\ Len(a) \in Nat /\ Len(b) \in Nat
      /\ DOMAIN a = 1..Len(a) /\ DOMAIN b = 1..Len(b)
      /\ \A i \in 1..(Len(a) + Len(b)) : h[i] = IF i <= Len(a) THEN a[i] ELSE b[i - Len(a)]
  BY ConcatProperties
<1> HIDE DEF h
<1>2. \A i \in DOMAIN a : i \in DOMAIN h /\ h[i] = a[i]
  BY <1>1
<1>3. \A i \in DOMAIN b : Len(a) + i \in DOMAIN h /\ h[Len(a) + i] = b[i]
  BY <1>1
<1>4. \A i \in DOMAIN h : \/ i \in DOMAIN a /\ h[i] = a[i]
                          \/ i - Len(a) \in DOMAIN b /\ h[i] = b[i - Len(a)]
  BY <1>1
<1>5. ToSet(h) = ToSet(a) \cup ToSet(b)
  BY <1>2, <1>3, <1>4 DEF ToSet
<1> QED
  BY <1>1, <1>5 DEF h

\* It has the elements of all the sequences, and no others.
AllElements(ss) == UNION {ToSet(ss[i]) : i \in DOMAIN ss}

Flattens(T, ss) == FlattenSeq(ss) \in Seq(T) /\ ToSet(FlattenSeq(ss)) = AllElements(ss)

LEMMA FlattenElements == ASSUME NEW T, NEW ss \in Seq(Seq(T)) PROVE Flattens(T, ss)
<1> DEFINE S == {q \in Seq(Seq(T)) : Flattens(T, q)}
<1>1. <<>> \in S
  <2>1. ToSet(<<>>) = {} /\ AllElements(<<>>) = {}
    BY DEF ToSet, AllElements
  <2>2. <<>> \in Seq(Seq(T)) /\ <<>> \in Seq(T)
    OBVIOUS
  <2>3. Flattens(T, <<>>)
    BY <2>1, <2>2, FlattenEmpty, Zenon DEF Flattens
  <2> QED
    BY <2>2, <2>3
<1>2. ASSUME NEW r \in Seq(Seq(T)), NEW s \in Seq(T), r \in S PROVE Append(r, s) \in S
  <2>1. FlattenSeq(r) \in Seq(T) /\ ToSet(FlattenSeq(r)) = AllElements(r)
    BY <1>2 DEF Flattens
  <2>2. /\ FlattenSeq(Append(r, s)) \in Seq(T)
        /\ ToSet(FlattenSeq(Append(r, s))) = ToSet(FlattenSeq(r)) \cup ToSet(s)
    <3>1. FlattenSeq(Append(r, s)) = FlattenSeq(r) \o s
      BY FlattenAppend
    <3> DEFINE a == FlattenSeq(r)
    <3>2. a \in Seq(T)
      BY <2>1
    <3> HIDE DEF a
    <3>3. a \o s \in Seq(T) /\ ToSet(a \o s) = ToSet(a) \cup ToSet(s)
      BY <3>2, ConcatElements
    <3> QED
      BY <3>1, <3>3 DEF a
  <2>3. /\ DOMAIN Append(r, s) = DOMAIN r \cup {Len(r) + 1}
        /\ \A i \in DOMAIN r : Append(r, s)[i] = r[i]
        /\ Append(r, s)[Len(r) + 1] = s
    <3>1. /\ DOMAIN Append(r, s) = 1..(Len(r) + 1) /\ DOMAIN r = 1..Len(r) /\ Len(r) \in Nat
          /\ \A i \in 1..Len(r) : Append(r, s)[i] = r[i]
          /\ Append(r, s)[Len(r) + 1] = s
      BY AppendProperties
    <3> QED
      BY <3>1
  <2>4. AllElements(Append(r, s)) = AllElements(r) \cup ToSet(s)
    <3> DEFINE q == Append(r, s)
    <3>1. q = Append(r, s)
      OBVIOUS
    <3> HIDE DEF q
    <3>2. AllElements(q) \subseteq AllElements(r) \cup ToSet(s)
      BY <2>3, <3>1 DEF AllElements
    <3>3. AllElements(r) \subseteq AllElements(q)
      BY <2>3, <3>1 DEF AllElements
    <3>4. ToSet(s) \subseteq AllElements(q)
      BY <2>3, <3>1 DEF AllElements
    <3> QED
      BY <3>1, <3>2, <3>3, <3>4
  <2>5. Append(r, s) \in Seq(Seq(T))
    OBVIOUS
  <2>6. ToSet(FlattenSeq(Append(r, s))) = AllElements(Append(r, s))
    BY <2>1, <2>2, <2>4, Zenon
  <2> QED
    BY <2>2, <2>5, <2>6 DEF Flattens
<1> HIDE DEF S
<1>3. Seq(Seq(T)) \subseteq S
  BY <1>1, <1>2, SeqInduct
<1> QED
  BY <1>3 DEF S

-----------------------------------------------------------------------------
(* What Kept keeps.                                                        *)

Mark(x, S) == IF x \in S THEN <<x>> ELSE <<>>
Marked(lines, S) == [i \in DOMAIN lines |-> Mark(lines[i], S)]

LEMMA KeptIs == ASSUME NEW lines, NEW S PROVE Kept(lines, S) = FlattenSeq(Marked(lines, S))
BY DEF Kept, Marked, Mark

LEMMA MarkedSeq ==
  ASSUME NEW T, NEW s \in Seq(T), NEW S
  PROVE  Marked(s, S) \in Seq(Seq(T))
<1>1. \A x \in T : Mark(x, S) \in Seq(T)
  BY DEF Mark
<1>2. DOMAIN s = 1..Len(s) /\ Len(s) \in Nat /\ \A i \in 1..Len(s) : s[i] \in T
  OBVIOUS
<1>3. \A i \in 1..Len(s) : Mark(s[i], S) \in Seq(T)
  BY <1>1, <1>2
<1>4. Marked(s, S) = [i \in 1..Len(s) |-> Mark(s[i], S)]
  BY <1>2 DEF Marked
<1>5. QED
  BY <1>2, <1>3, <1>4

LEMMA MarkedAppend ==
  ASSUME NEW T, NEW s \in Seq(T), NEW x \in T, NEW S
  PROVE  Marked(Append(s, x), S) = Append(Marked(s, S), Mark(x, S))
<1> DEFINE n == Len(s)
           a == Append(s, x)
<1>1. /\ n \in Nat /\ DOMAIN s = 1..n /\ DOMAIN a = 1..(n + 1)
      /\ \A i \in 1..n : a[i] = s[i]
      /\ a[n + 1] = x
  BY AppendProperties
<1> HIDE DEF a, n
<1> DEFINE m == Marked(s, S)
           b == Append(m, Mark(x, S))
<1>2. m \in Seq(Seq(T)) /\ DOMAIN m = 1..n /\ \A i \in 1..n : m[i] = Mark(s[i], S)
  BY <1>1, MarkedSeq DEF Marked
<1>3. Mark(x, S) \in Seq(T)
  BY DEF Mark
<1> HIDE DEF m
<1>4. Len(m) = n
  BY <1>1, <1>2
<1>5. /\ DOMAIN b = 1..(n + 1) /\ (\A i \in 1..n : b[i] = m[i]) /\ b[n + 1] = Mark(x, S)
      /\ b \in Seq(Seq(T))
  BY <1>1, <1>2, <1>3, <1>4, AppendProperties
<1> HIDE DEF b
<1>6. \A i \in 1..(n + 1) : b[i] = Mark(a[i], S)
  <2>1. \A i \in 1..(n + 1) : i \in 1..n \/ i = n + 1
    BY <1>1
  <2>2. QED
    BY <1>1, <1>2, <1>5, <2>1
<1>7. Marked(a, S) = [i \in 1..(n + 1) |-> Mark(a[i], S)]
  BY <1>1 DEF Marked
<1>8. b = [i \in 1..(n + 1) |-> b[i]]
  BY <1>5
<1>9. b = Marked(a, S)
  BY <1>6, <1>7, <1>8, Zenon
<1>10. QED
  BY <1>9 DEF a, b, m

LEMMA KeptEmpty == ASSUME NEW S PROVE Kept(<<>>, S) = <<>>
<1>1. Marked(<<>>, S) = <<>>
  BY DEF Marked
<1>2. QED
  BY <1>1, KeptIs, FlattenEmpty

\* A line more is kept, or not; those before it are kept as they were.
LEMMA KeptAppend ==
  ASSUME NEW T, NEW s \in Seq(T), NEW x \in T, NEW S
  PROVE  Kept(Append(s, x), S) = Kept(s, S) \o Mark(x, S)
<1> DEFINE m == Marked(s, S)
           e == Mark(x, S)
<1>1. m \in Seq(Seq(T)) /\ e \in Seq(T)
  BY MarkedSeq DEF Mark
<1>2. Kept(Append(s, x), S) = FlattenSeq(Append(m, e)) /\ Kept(s, S) = FlattenSeq(m)
  BY KeptIs, MarkedAppend
<1> HIDE DEF m, e
<1>3. FlattenSeq(Append(m, e)) = FlattenSeq(m) \o e
  BY <1>1, FlattenAppend
<1>4. QED
  BY <1>2, <1>3 DEF e

LEMMA MarkKept == ASSUME NEW x, NEW S PROVE Kept(<<x>>, S) = Mark(x, S)
<1>1. <<x>> = Append(<<>>, x) /\ <<>> \in Seq({x}) /\ x \in {x}
  OBVIOUS
<1>2. Kept(Append(<<>>, x), S) = Kept(<<>>, S) \o Mark(x, S)
  BY <1>1, KeptAppend
<1>3. <<>> \o Mark(x, S) = Mark(x, S)
  BY DEF Mark
<1>4. QED
  BY <1>1, <1>2, <1>3, KeptEmpty

\* It has the lines that are in the set, and no others.
LEMMA KeptElements ==
  ASSUME NEW T, NEW s \in Seq(T), NEW S
  PROVE  Kept(s, S) \in Seq(T) /\ ToSet(Kept(s, S)) = ToSet(s) \cap S
<1> DEFINE m == Marked(s, S)
<1>1. m \in Seq(Seq(T))
  BY MarkedSeq
<1>2. DOMAIN m = DOMAIN s /\ \A i \in DOMAIN s : m[i] = Mark(s[i], S)
  BY DEF Marked
<1>3. Kept(s, S) = FlattenSeq(m)
  BY KeptIs
<1> HIDE DEF m
<1>4. Flattens(T, m)
  BY <1>1, FlattenElements
<1>5. \A x : ToSet(Mark(x, S)) = {x} \cap S
  <2>1. \A x : ToSet(<<x>>) = {x}
    BY DEF ToSet
  <2>2. ToSet(<<>>) = {}
    BY DEF ToSet
  <2>3. QED
    BY <2>1, <2>2 DEF Mark
<1>6. AllElements(m) = UNION {{s[i]} \cap S : i \in DOMAIN s}
  BY <1>2, <1>5 DEF AllElements
<1>7. ToSet(s) \cap S = UNION {{s[i]} \cap S : i \in DOMAIN s}
  BY DEF ToSet
<1>8. QED
  BY <1>3, <1>4, <1>6, <1>7 DEF Flattens

LEMMA KeptNone ==
  ASSUME NEW T, NEW s \in Seq(T), NEW S, ToSet(s) \cap S = {}
  PROVE  Kept(s, S) = <<>>
<1> DEFINE k == Kept(s, S)
<1>1. k \in Seq(T) /\ ToSet(k) = {}
  BY KeptElements
<1> HIDE DEF k
<1>2. Len(k) \in Nat /\ DOMAIN k = 1..Len(k) /\ 1 \notin DOMAIN k
  BY <1>1 DEF ToSet
<1>3. Len(k) = 0
  BY <1>2
<1>4. k = <<>>
  BY <1>1, <1>3
<1>5. QED
  BY <1>4 DEF k

Associates(a, b, c) == (a \o b) \o c = a \o (b \o c)

LEMMA ConcatThree ==
  ASSUME NEW T, NEW a \in Seq(T), NEW b \in Seq(T), NEW c \in Seq(T)
  PROVE  Associates(a, b, c)
BY ConcatAssociative DEF Associates

\* What is kept of two listings, one after the other.
KeptOfBoth(a, b, S) == Kept(a \o b, S) = Kept(a, S) \o Kept(b, S)

LEMMA KeptConcat ==
  ASSUME NEW T, NEW a \in Seq(T), NEW b \in Seq(T), NEW S
  PROVE  KeptOfBoth(a, b, S)
<1> DEFINE N == {r \in Seq(T) : Kept(a \o r, S) = Kept(a, S) \o Kept(r, S)}
<1>1. <<>> \in N
  <2>1. Kept(a, S) \in Seq(T)
    BY KeptElements
  <2>2. Kept(a, S) \o <<>> = Kept(a, S) /\ a \o <<>> = a /\ <<>> \in Seq(T)
    BY <2>1
  <2>3. QED
    BY <2>2, KeptEmpty
<1>2. ASSUME NEW r \in Seq(T), NEW x \in T, r \in N PROVE Append(r, x) \in N
  <2> DEFINE ar == a \o r
             A == Kept(a, S)
             R == Kept(r, S)
             m == Mark(x, S)
  <2>1. a \o Append(r, x) = Append(ar, x) /\ ar \in Seq(T) /\ Append(r, x) \in Seq(T)
    OBVIOUS
  <2>2. Kept(ar, S) = A \o R
    BY <1>2
  <2>3. A \in Seq(T) /\ R \in Seq(T) /\ m \in Seq(T)
    BY KeptElements DEF Mark
  <2> HIDE DEF ar
  <2>4. Kept(Append(ar, x), S) = Kept(ar, S) \o m
    BY <2>1, KeptAppend
  <2>5. Kept(Append(r, x), S) = R \o m
    BY KeptAppend
  <2> HIDE DEF A, R, m
  <2>6. (A \o R) \o m = A \o (R \o m)
    <3>1. Associates(A, R, m)
      BY <2>3, ConcatThree
    <3>2. QED
      BY <3>1 DEF Associates
  <2>7. Kept(a \o Append(r, x), S) = A \o Kept(Append(r, x), S)
    BY <2>1, <2>2, <2>4, <2>5, <2>6
  <2>8. QED
    BY <2>1, <2>7 DEF A
<1> HIDE DEF N
<1>3. Seq(T) \subseteq N
  BY <1>1, <1>2, SeqInduct
<1>4. QED
  BY <1>3 DEF N, KeptOfBoth

\* Keeping twice.
LEMMA KeptKept ==
  ASSUME NEW T, NEW s \in Seq(T), NEW A, NEW B
  PROVE  Kept(Kept(s, A), B) = Kept(s, A \cap B)
<1> DEFINE N == {r \in Seq(T) : Kept(Kept(r, A), B) = Kept(r, A \cap B)}
<1>1. <<>> \in N
  BY KeptEmpty
<1>2. ASSUME NEW r \in Seq(T), NEW x \in T, r \in N PROVE Append(r, x) \in N
  <2> DEFINE R == Kept(r, A)
             m == Mark(x, A)
  <2>1. R \in Seq(T) /\ m \in Seq(T)
    BY KeptElements DEF Mark
  <2>a. Kept(Append(r, x), A) = R \o m
    BY KeptAppend
  <2>2. Kept(R, B) = Kept(r, A \cap B)
    BY <1>2
  <2> HIDE DEF R
  <2>3. Kept(m, B) = Mark(x, A \cap B)
    <3>1. Kept(m, B) = IF x \in A THEN Kept(<<x>>, B) ELSE Kept(<<>>, B)
      BY DEF Mark
    <3>2. Kept(m, B) = IF x \in A THEN Mark(x, B) ELSE <<>>
      BY <3>1, MarkKept, KeptEmpty
    <3>3. QED
      BY <3>2 DEF Mark
  <2> HIDE DEF m
  <2>4. Kept(R \o m, B) = Kept(R, B) \o Kept(m, B)
    <3>1. KeptOfBoth(R, m, B)
      BY <2>1, KeptConcat
    <3>2. QED
      BY <3>1 DEF KeptOfBoth
  <2>5. Kept(Append(r, x), A \cap B) = Kept(r, A \cap B) \o Mark(x, A \cap B)
    BY KeptAppend
  <2>6. Kept(Kept(Append(r, x), A), B) = Kept(Append(r, x), A \cap B)
    BY <2>a, <2>2, <2>3, <2>4, <2>5, Zenon
  <2>7. Append(r, x) \in Seq(T)
    OBVIOUS
  <2>8. QED
    BY <2>6, <2>7
<1> HIDE DEF N
<1>3. Seq(T) \subseteq N
  BY <1>1, <1>2, SeqInduct
<1>4. QED
  BY <1>3 DEF N

-----------------------------------------------------------------------------
(* What selections and batches keep.                                       *)

Fields == DOMAIN NoCall

Own(c) == owner = c /\ c \notin crossed

\* What a selection's call knows of the list its cursor found, while it is there
\* for it and after its answer.
Holding(c) ==
  LET k == call[c] IN
  /\ k.pc = "fetching" =>
       /\ k.cursor \in Nat /\ k.cursor <= session
       /\ Alive(k.cursor) => \A list \in seen[c] : k.got \o selected = list
  /\ k.pc = "done" => \A list \in seen[c] :
       /\ k.answer = "complete" => k.got = list
       /\ k.answer = "truncated" => IsPrefix(k.got, list) /\ Len(k.got) = MaxRecords

Selecting(c) ==
  LET k == call[c] IN
  k.tool = "select" =>
    /\ k.pc \in {"selecting", "cursor", "fetching", "done"}
    /\ k.got \in Seq(Names) /\ k.asked \in Seq(Names)
    /\ k.pc \in {"selecting", "cursor"} => k.got = <<>>
    /\ k.pc = "cursor" /\ Own(c) => selected = k.asked
    /\ k.pc = "fetching" => Len(k.got) < MaxRecords
    /\ k.pc = "fetching" /\ Own(c) => k.got \o selected = k.asked
    /\ k.pc = "done" /\ c \notin crossed =>
         /\ k.answer = "complete" => k.got = k.asked
         /\ k.answer = "truncated" => IsPrefix(k.got, k.asked) /\ Len(k.got) = MaxRecords
    /\ Holding(c)

Accounted(k) ==
  /\ ToSet(k.got) \cup ToSet(k.errors) \cup ToSet(k.todo) = ToSet(k.asked)
  /\ Len(k.got) + Len(k.errors) + Len(k.todo) = Len(k.asked)

Batch(k) ==
  k.tool = "read" =>
    /\ k.pc \in {"opening", "reading", "done"}
    /\ k.asked \in Seq(Names) /\ k.todo \in Seq(Names)
    /\ k.got \in Seq(Names) /\ k.errors \in Seq(Names)
    /\ k.pc # "done" \/ k.answer = "success" => Accounted(k)
    /\ k.pc = "done" => k.todo = <<>>

ReadInv ==
  /\ selected \in Seq(Names) /\ session \in Nat
  /\ DOMAIN call = Clients /\ DOMAIN seen = Clients
  /\ \A c \in Clients : DOMAIN call[c] = Fields /\ Selecting(c) /\ Batch(call[c])

-----------------------------------------------------------------------------
(* The other clients.                                                      *)

\* What the steps of others, and of the server, may do to a client's list.
Leaves(c) ==
  /\ call'[c] = call[c]
  /\ owner' = c => owner = c /\ (selected' = selected \/ c \in crossed')
  /\ c \in crossed => c \in crossed'
  /\ seen'[c] \subseteq seen[c]
  /\ session' \in Nat /\ session <= session'
  /\ call[c].pc = "fetching" /\ seen'[c] # {} /\ up' /\ session' = session =>
       up /\ selected' = selected

LEMMA LeavesKeeps ==
  ASSUME ReadInv, NEW c \in Clients, Leaves(c)
  PROVE  DOMAIN call'[c] = Fields /\ Selecting(c)' /\ Batch(call'[c])
<1>1. call[c].tool = "select" => Holding(c)'
  <2> SUFFICES ASSUME Holding(c) PROVE Holding(c)'
    BY DEF ReadInv, Selecting
  <2> DEFINE k == call[c]
  <2>1. /\ call'[c] = k /\ seen'[c] \subseteq seen[c]
        /\ session \in Nat /\ session' \in Nat /\ session <= session'
        /\ k.pc = "fetching" /\ seen'[c] # {} /\ up' /\ session' = session => up /\ selected' = selected
    BY DEF Leaves, ReadInv
  <2>2. ASSUME k.pc = "fetching", Alive(k.cursor)', NEW list \in seen'[c] PROVE k.got \o selected' = list
    <3>1. k.cursor \in Nat /\ k.cursor <= session /\ up' /\ k.cursor = session'
      BY <2>1, <2>2 DEF Holding, Alive
    <3>2. session' = session
      BY <2>1, <3>1
    <3>3. up /\ selected' = selected /\ list \in seen[c]
      BY <2>1, <2>2, <3>1, <3>2
    <3>4. QED
      BY <2>2, <3>1, <3>2, <3>3 DEF Holding, Alive
  <2>3. k.pc = "fetching" => k.cursor \in Nat /\ k.cursor <= session'
    BY <2>1 DEF Holding
  <2>4. QED
    BY <2>1, <2>2, <2>3 DEF Holding
<1>2. QED
  BY <1>1 DEF ReadInv, Leaves, Selecting, Own, Batch

\* What the session of others may do.
LEMMA GetsSession ==
  ASSUME ReadInv, GetSession
  PROVE  session' \in Nat /\ session <= session' /\ up' /\ (session' = session => up)
BY DEF GetSession, ReadInv

\* A client whose own call does not move: by any step of another one.
LEMMA OthersLeave ==
  ASSUME ReadInv, NEW d \in Clients, NEW c \in Clients \ {d},
         \/ \E tool \in ToolsOf[d] : Begin(d, tool)
         \/ Done(d) \/ Fails(d)
         \/ Query(d) \/ Stat(d) \/ List(d) \/ Select(d) \/ Cursor(d)
         \/ EndOfList(d) \/ Fetch(d)
         \/ Open(d) \/ Read(d) \/ ReadsEnd(d)
  PROVE  Leaves(c)
<1> USE ClientsAssumption
<1>1. ASSUME NEW k, Step(d, k) PROVE call'[c] = call[c]
  BY <1>1 DEF Step, ReadInv
<1>a. session \in Nat /\ session <= session
  BY DEF ReadInv
<1>b. ASSUME Touches(d) PROVE seen'[c] \subseteq seen[c] /\ (call[c].pc = "fetching" => seen'[c] = {})
  BY <1>b DEF Touches, At
<1>c. ASSUME KeepsList PROVE up => selected' = selected
  BY <1>c DEF KeepsList
<1>2. ASSUME NEW tool \in ToolsOf[d], Begin(d, tool) PROVE Leaves(c)
  BY <1>1, <1>2, <1>a DEF Begin, Leaves, conn
<1>3. CASE Done(d)
  <2>1. seen'[c] \subseteq seen[c]
    BY <1>3 DEF Done, ReadInv
  <2>2. QED
    BY <1>1, <1>3, <1>a, <2>1 DEF Done, Leaves, conn
<1>4. CASE Fails(d)
  BY <1>1, <1>4, <1>a DEF Fails, Leaves, conn
<1>5. CASE Query(d)
  <2>1. GetSession /\ crossed' = crossed
    BY <1>5 DEF Query
  <2>2. call'[c] = call[c]
    BY <1>1, <1>5 DEF Query
  <2>3. \/ owner' = Nobody /\ Touches(d)
        \/ KeepsList /\ seen' = seen
    BY <1>5 DEF Query
  <2>4. QED
    BY <2>1, <2>2, <2>3, <1>b, <1>c, GetsSession DEF Leaves, KeepsList
<1>6. CASE Stat(d) \/ List(d) \/ Cursor(d)
  <2>1. GetSession /\ KeepsList /\ crossed' = crossed
    BY <1>6 DEF Stat, List, Cursor
  <2>2. call'[c] = call[c]
    BY <1>1, <1>6 DEF Stat, List, Cursor
  <2>3. seen'[c] = seen[c]
    BY <1>6 DEF Stat, List, Cursor, ReadInv
  <2>4. QED
    BY <2>1, <2>2, <2>3, <1>c, GetsSession DEF Leaves, KeepsList
<1>7. CASE Select(d)
  <2>1. GetSession /\ crossed' = crossed /\ owner' = d /\ Touches(d)
    BY <1>7 DEF Select
  <2>2. call'[c] = call[c]
    BY <1>1, <1>7 DEF Select
  <2>3. QED
    BY <2>1, <2>2, <1>b, GetsSession DEF Leaves
<1>8. CASE EndOfList(d) \/ Fetch(d)
  <2>1. CASE EndOfList(d)
    BY <1>1, <1>a, <2>1 DEF EndOfList, ReadsList, Leaves, conn
  <2>2. CASE Fetch(d)
    BY <1>1, <1>a, <1>b, <2>2 DEF Fetch, ReadsList, Leaves
  <2>3. QED
    BY <1>8, <2>1, <2>2
<1>9. CASE Open(d)
  <2>1. \/ session' = session /\ up' = up /\ selected' = selected /\ owner' = owner
        \/ GetSession /\ KeepsList
    BY <1>9 DEF Open, conn
  <2>2. call'[c] = call[c] /\ crossed' = crossed /\ seen' = seen
    BY <1>1, <1>9 DEF Open
  <2>3. QED
    BY <2>1, <2>2, <1>a, <1>c, GetsSession DEF Leaves, KeepsList
<1>10. CASE Read(d)
  BY <1>1, <1>10, <1>a DEF Read, Leaves, conn
<1>11. CASE ReadsEnd(d)
  BY <1>1, <1>11, <1>a DEF ReadsEnd, Leaves, conn
<1>12. QED
  BY <1>2, <1>3, <1>4, <1>5, <1>6, <1>7, <1>8, <1>9, <1>10, <1>11

-----------------------------------------------------------------------------
(* The client itself.                                                      *)

\* What the steps of a client must leave of its own call.
CallOK(c) == DOMAIN call[c] = Fields /\ Selecting(c) /\ Batch(call[c])

LEMMA FieldNames ==
  Fields = {"pc", "tool", "asked", "todo", "got", "errors", "cursor", "handle", "answer"}
BY DEF Fields, NoCall

LEMMA AnsweredFields ==
  ASSUME NEW k, DOMAIN k = Fields, NEW a
  PROVE  /\ DOMAIN Answered(k, a) = Fields
         /\ Answered(k, a).pc = "done" /\ Answered(k, a).answer = a /\ Answered(k, a).todo = <<>>
         /\ Answered(k, a).tool = k.tool /\ Answered(k, a).asked = k.asked
         /\ Answered(k, a).got = k.got /\ Answered(k, a).errors = k.errors
BY FieldNames DEF Answered

LEMMA FailedFields ==
  ASSUME NEW k
  PROVE  /\ DOMAIN Failed(k) = Fields
         /\ Failed(k).pc = "done" /\ Failed(k).answer = "error" /\ Failed(k).todo = <<>>
         /\ Failed(k).tool = k.tool /\ Failed(k).asked = <<>>
         /\ Failed(k).got = <<>> /\ Failed(k).errors = <<>>
BY FieldNames DEF Failed, NoCall

LEMMA StepCall ==
  ASSUME ReadInv, NEW c \in Clients, NEW k, Step(c, k)
  PROVE  call'[c] = k /\ DOMAIN call' = Clients
BY DEF ReadInv, Step

\* An answer that is no finding is right whatever the call was about.
LEMMA FailureOK ==
  ASSUME ReadInv, NEW c \in Clients, NEW k, Step(c, Failed(k))
  PROVE  CallOK(c)'
<1>1. call'[c] = Failed(k)
  BY StepCall
<1>2. /\ DOMAIN call'[c] = Fields
      /\ call'[c].pc = "done" /\ call'[c].answer = "error" /\ call'[c].todo = <<>>
      /\ call'[c].asked = <<>> /\ call'[c].got = <<>> /\ call'[c].errors = <<>>
  BY <1>1, FailedFields
<1>3. <<>> \in Seq(Names)
  OBVIOUS
<1>4. Selecting(c)'
  BY <1>2, <1>3 DEF Selecting, Holding
<1>5. Batch(call'[c])
  BY <1>2, <1>3 DEF Batch
<1>6. QED
  BY <1>2, <1>4, <1>5 DEF CallOK

\* A call of a tool that neither selects for its caller nor reads a batch.
LEMMA OthersOK ==
  ASSUME ReadInv, NEW c \in Clients, DOMAIN call'[c] = Fields,
         call'[c].tool \notin {"select", "read"}
  PROVE  CallOK(c)'
BY DEF CallOK, Selecting, Batch

\* A call begins with nothing found, and a batch with all of it to be read.
LEMMA BeginOK ==
  ASSUME ReadInv, NEW c \in Clients, NEW tool \in ToolsOf[c], Begin(c, tool)
  PROVE  CallOK(c)'
<1>1. PICK ids \in Requests(tool) :
        LET k == [NoCall EXCEPT !.pc = FirstStep(tool), !.tool = tool, !.asked = ids, !.todo = ids]
        IN  Step(c, IF Len(ids) > MaxRecords THEN Failed(k) ELSE k)
  BY DEF Begin
<1> DEFINE k == [NoCall EXCEPT !.pc = FirstStep(tool), !.tool = tool, !.asked = ids, !.todo = ids]
<1>2. /\ DOMAIN k = Fields /\ k.pc = FirstStep(tool) /\ k.tool = tool /\ k.asked = ids /\ k.todo = ids
      /\ k.got = <<>> /\ k.errors = <<>>
  BY DEF NoCall, Fields
<1> HIDE DEF k
<1>3. CASE Len(ids) > MaxRecords
  <2>1. Step(c, Failed(k))
    BY <1>1, <1>3 DEF k
  <2>2. QED
    BY <2>1, FailureOK
<1>4. CASE ~(Len(ids) > MaxRecords)
  <2>1. call'[c] = k
    BY <1>1, <1>4, StepCall DEF k
  <2>2. CASE tool = "select"
    <3>1. ids = <<>> /\ k.pc = "selecting"
      BY <2>2, <1>2 DEF Requests, FirstStep
    <3>2. QED
      BY <2>1, <2>2, <1>2, <3>1, EmptySeq DEF CallOK, Selecting, Holding, Batch
  <2>3. CASE tool = "read"
    <3>1. ids \in Seq(Names) /\ k.pc = "opening"
      BY <2>3, <1>2, StoresAssumption DEF Requests, FirstStep
    <3>2. ToSet(<<>>) = {} /\ Len(<<>>) = 0 /\ <<>> \in Seq(Names) /\ Len(ids) \in Nat
      BY <3>1 DEF ToSet
    <3>3. Accounted(k)
      BY <1>2, <3>2 DEF Accounted
    <3>4. QED
      BY <2>1, <2>3, <1>2, <3>1, <3>2, <3>3 DEF CallOK, Selecting, Batch
  <2>4. CASE tool \notin {"select", "read"}
    BY <2>1, <2>4, <1>2, OthersOK
  <2>5. QED
    BY <2>2, <2>3, <2>4
<1>5. QED
  BY <1>3, <1>4

LEMMA DoneOK == ASSUME ReadInv, NEW c \in Clients, Done(c) PROVE CallOK(c)'
<1>1. call'[c] = NoCall
  BY StepCall DEF Done
<1>2. NoCall.tool = "none"
  BY DEF NoCall
<1>3. QED
  BY <1>1, <1>2, OthersOK DEF Fields

LEMMA FailsOK == ASSUME ReadInv, NEW c \in Clients, Fails(c) PROVE CallOK(c)'
<1>1. CASE Step(c, Failed(call[c]))
  BY <1>1, FailureOK
<1>2. CASE call[c].tool = "catalog" /\ Step(c, Answered(call[c], "success"))
  <2>1. DOMAIN call'[c] = Fields /\ call'[c].tool = "catalog"
    BY <1>2, StepCall, AnsweredFields DEF ReadInv
  <2>2. QED
    BY <2>1, OthersOK
<1>3. QED
  BY <1>1, <1>2 DEF Fails

LEMMA ListedFields ==
  ASSUME NEW k, DOMAIN k = Fields, NEW names
  PROVE  DOMAIN Listed(k, names) = Fields /\ Listed(k, names).tool = k.tool
<1> DEFINE told == [k EXCEPT !.asked = names]
<1>1. DOMAIN told = Fields /\ told.tool = k.tool
  BY FieldNames
<1> HIDE DEF told
<1>2. \A todo, pc : /\ DOMAIN [told EXCEPT !.todo = todo, !.pc = pc] = Fields
                    /\ [told EXCEPT !.todo = todo, !.pc = pc].tool = k.tool
  BY <1>1, FieldNames
<1>3. \A pc : DOMAIN [told EXCEPT !.pc = pc] = Fields /\ [told EXCEPT !.pc = pc].tool = k.tool
  BY <1>1, FieldNames
<1>4. DOMAIN Answered(told, "success") = Fields /\ Answered(told, "success").tool = k.tool
  BY <1>1, AnsweredFields
<1>5. \A got : /\ DOMAIN [Answered(told, "success") EXCEPT !.got = got] = Fields
               /\ [Answered(told, "success") EXCEPT !.got = got].tool = k.tool
  BY <1>4, FieldNames
<1> DEFINE lines == Printed(names)
<1>6. Listed(k, names) \in
        {[told EXCEPT !.todo = DictionaryIds(lines), !.pc = "opening"],
         [told EXCEPT !.todo = DescribedIds(lines), !.pc = "reading"],
         [Answered(told, "success") EXCEPT !.got = FileNames(lines)],
         [Answered(told, "success") EXCEPT !.got = AccountFiles(lines)],
         [told EXCEPT !.pc = "selecting"],
         [Answered(told, "success") EXCEPT !.got = CatalogNames(lines)]}
  BY Zenon DEF Listed, told
<1> HIDE DEF lines
<1>7. QED
  BY <1>2, <1>3, <1>5, <1>6

\* The commands of the other tools.
LEMMA CommandsOK ==
  ASSUME ReadInv, NEW c \in Clients, Query(c) \/ Stat(c) \/ List(c)
  PROVE  CallOK(c)'
<1> DEFINE k == call[c]
<1>1. DOMAIN k = Fields /\ k.tool \notin {"select", "read"}
  BY DEF ReadInv, Selecting, Batch, Query, Stat, List, At
<1>2. ASSUME NEW j, Step(c, j), DOMAIN j = Fields, j.tool = k.tool PROVE CallOK(c)'
  BY <1>1, <1>2, StepCall, OthersOK
<1> HIDE DEF k
<1>3. CASE Query(c)
  <2>1. PICK rows \in Samples, verb \in {"LIST", "SELECT", "other"} :
          LET j == [k EXCEPT !.asked = rows]
          IN  Step(c, IF verb = "LIST"
                        THEN [Answered(j, "truncated") EXCEPT !.got =
                                SubSeq(rows, 1, IF Len(rows) > MaxRecords THEN MaxRecords ELSE Len(rows))]
                        ELSE [Answered(j, "complete") EXCEPT !.got = rows])
    BY <1>3 DEF Query, k
  <2> DEFINE j == [k EXCEPT !.asked = rows]
  <2>2. DOMAIN j = Fields /\ j.tool = k.tool
    BY <1>1, FieldNames
  <2>3. \A a, g : /\ DOMAIN [Answered(j, a) EXCEPT !.got = g] = Fields
                  /\ [Answered(j, a) EXCEPT !.got = g].tool = k.tool
    <3> HIDE DEF j
    <3>1. TAKE a, g
    <3>2. DOMAIN Answered(j, a) = Fields /\ Answered(j, a).tool = k.tool
      BY <2>2, AnsweredFields
    <3>3. QED
      BY <3>2, FieldNames
  <2>4. \E a, g : Step(c, [Answered(j, a) EXCEPT !.got = g])
    BY <2>1
  <2> HIDE DEF j
  <2>5. PICK a, g : Step(c, [Answered(j, a) EXCEPT !.got = g])
    BY <2>4
  <2>6. QED
    BY <2>3, <2>5, <1>2
<1>4. CASE Stat(c)
  <2>1. Step(c, [k EXCEPT !.pc = "opening"])
    BY <1>4 DEF Stat, k
  <2>2. DOMAIN [k EXCEPT !.pc = "opening"] = Fields /\ [k EXCEPT !.pc = "opening"].tool = k.tool
    BY <1>1, FieldNames
  <2>3. QED
    BY <2>1, <2>2, <1>2
<1>5. CASE List(c)
  <2>1. PICK names \in Samples : Step(c, Listed(k, names))
    BY <1>5 DEF List, k
  <2>2. Listed(k, names).tool = k.tool /\ DOMAIN Listed(k, names) = Fields
    BY <1>1, ListedFields
  <2>3. QED
    BY <2>1, <2>2, <1>2
<1>6. QED
  BY <1>3, <1>4, <1>5

\* A selection: the list is the client's own, and whole.
LEMMA SelectOK == ASSUME ReadInv, NEW c \in Clients, Select(c) PROVE CallOK(c)' /\ selected' \in Seq(Names)
<1> DEFINE k == call[c]
<1>1. DOMAIN k = Fields /\ k.pc = "selecting" /\ k.tool # "read" /\ Selecting(c)
  BY DEF ReadInv, Batch, Select, At
<1> HIDE DEF k
<1>2. PICK ids \in Samples : selected' = ids /\ Step(c, [k EXCEPT !.pc = "cursor", !.asked = ids])
  BY DEF Select, k
<1> DEFINE j == [k EXCEPT !.pc = "cursor", !.asked = ids]
<1>3. DOMAIN j = Fields /\ j.pc = "cursor" /\ j.asked = ids /\ j.tool = k.tool /\ j.got = k.got
  BY <1>1, FieldNames
<1> HIDE DEF j
<1>4. call'[c] = j
  BY <1>2, StepCall DEF j
<1>5. ids \in Seq(Names)
  BY StoresAssumption
<1>6. Selecting(c)'
  BY <1>1, <1>2, <1>3, <1>4, <1>5 DEF Selecting, Holding, k
<1>7. Batch(call'[c])
  BY <1>1, <1>3, <1>4 DEF Batch
<1>8. QED
  BY <1>2, <1>3, <1>4, <1>5, <1>6, <1>7 DEF CallOK

\* The cursor: if the session was lost, the list is not the client's own any more.
LEMMA CursorOK == ASSUME ReadInv, NEW c \in Clients, Cursor(c) PROVE CallOK(c)'
<1> DEFINE k == call[c]
<1>1. DOMAIN k = Fields /\ k.pc = "cursor" /\ k.tool # "read" /\ Selecting(c)
  BY DEF ReadInv, Batch, Cursor, At
<1>2. /\ Step(c, [k EXCEPT !.pc = "fetching", !.cursor = session'])
      /\ crossed' = crossed /\ owner' \in {owner, Nobody} /\ (owner' = c => selected' = selected)
  BY ClientsAssumption DEF Cursor, KeepsList
<1> HIDE DEF k
<1> DEFINE j == [k EXCEPT !.pc = "fetching", !.cursor = session']
<1>3. /\ DOMAIN j = Fields /\ j.pc = "fetching" /\ j.asked = k.asked /\ j.tool = k.tool /\ j.got = k.got
      /\ j.cursor = session'
  BY <1>1, FieldNames
<1>a. session' \in Nat /\ seen'[c] = {selected'} /\ selected' \in {selected, <<>>}
  <2>1. GetSession /\ KeepsList /\ seen' = [seen EXCEPT ![c] = {selected'}]
    BY DEF Cursor
  <2>2. QED
    BY <2>1, GetsSession DEF ReadInv, KeepsList
<1>4. call'[c] = j
  BY <1>2, StepCall
<1> HIDE DEF j
<1>5. ASSUME k.tool = "select" PROVE Selecting(c)'
  <2>1. k.got = <<>> /\ k.got \in Seq(Names) /\ k.asked \in Seq(Names) /\ (Own(c) => selected = k.asked)
    BY <1>1, <1>5 DEF Selecting, k
  <2>2. Own(c)' => Own(c) /\ selected' = k.asked
    BY <1>2, <2>1, ClientsAssumption DEF Own
  <2>3. <<>> \o k.asked = k.asked /\ Len(<<>>) < MaxRecords
    BY <2>1, LimitAssumption
  <2>4. <<>> \o selected' = selected'
    BY <1>a DEF ReadInv
  <2>a. call'[c].cursor = session' /\ call'[c].pc = "fetching" /\ call'[c].got = <<>>
    BY <1>3, <1>4, <2>1
  <2>b. \A list \in seen'[c] : call'[c].got \o selected' = list
    BY <1>a, <2>4, <2>a
  <2>5. Holding(c)'
    BY <1>a, <2>a, <2>b DEF Holding
  <2>6. QED
    BY <1>3, <1>4, <2>1, <2>2, <2>3, <2>5 DEF Selecting
<1>6. Selecting(c)'
  BY <1>3, <1>4, <1>5 DEF Selecting
<1>7. Batch(call'[c])
  BY <1>1, <1>3, <1>4 DEF Batch
<1>8. QED
  BY <1>3, <1>4, <1>6, <1>7 DEF CallOK

\* The end of the list: what was taken is all, if the list was the client's own.
LEMMA EndOfListOK == ASSUME ReadInv, NEW c \in Clients, EndOfList(c) PROVE CallOK(c)'
<1> DEFINE k == call[c]
<1>1. DOMAIN k = Fields /\ k.pc = "fetching" /\ k.tool # "read" /\ Selecting(c) /\ selected = <<>>
  BY DEF ReadInv, Batch, EndOfList, At
<1>2. /\ Step(c, Answered(k, IF k.tool = "select" THEN "complete" ELSE "success"))
      /\ c \notin crossed' => Own(c)
      /\ seen' = seen /\ Alive(k.cursor)
  BY ClientsAssumption DEF EndOfList, ReadsList, Own
<1> HIDE DEF k
<1>3. CASE k.tool = "select"
  <2>1. k.got \in Seq(Names) /\ k.asked \in Seq(Names) /\ (Own(c) => k.got \o <<>> = k.asked)
    BY <1>1, <1>3 DEF Selecting, k
  <2>2. k.got \o <<>> = k.got
    BY <2>1
  <2>3. call'[c] = Answered(k, "complete")
    BY <1>2, <1>3, StepCall
  <2> DEFINE j == call'[c]
  <2>4. /\ j.pc = "done" /\ j.answer = "complete" /\ j.got = k.got /\ j.asked = k.asked
        /\ j.tool = "select" /\ DOMAIN j = Fields
    BY <1>1, <1>3, <2>3, AnsweredFields
  <2>a. \A list \in seen[c] : k.got = list
    BY <1>1, <1>2, <1>3, <2>2 DEF Selecting, Holding, k
  <2> HIDE DEF j
  <2>b. Holding(c)'
    BY <1>2, <2>4, <2>a DEF Holding, j
  <2>c. Selecting(c)'
    BY <1>2, <2>1, <2>2, <2>4, <2>b DEF Selecting, j
  <2>5. QED
    BY <2>4, <2>c DEF CallOK, Batch, j
<1>4. CASE k.tool # "select"
  <2>1. call'[c] = Answered(k, "success")
    BY <1>2, <1>4, StepCall
  <2>2. QED
    BY <1>1, <1>4, <2>1, AnsweredFields, OthersOK
<1>5. QED
  BY <1>3, <1>4

\* Taking the first of what is left.
LEMMA TakeFirst ==
  ASSUME NEW S, NEW s \in Seq(S), NEW t \in Seq(S), t # <<>>
  PROVE  /\ Head(t) \in S /\ Tail(t) \in Seq(S)
         /\ Append(s, Head(t)) \in Seq(S) /\ Len(Append(s, Head(t))) = Len(s) + 1
         /\ Append(s, Head(t)) \o Tail(t) = s \o t
         /\ IsPrefix(Append(s, Head(t)), s \o t)
<1> DEFINE a == Append(s, Head(t))
           b == Tail(t)
<1>1. /\ Head(t) = t[1] /\ t[1] \in S /\ Len(t) \in Nat \ {0} /\ Len(s) \in Nat
      /\ b \in Seq(S) /\ Len(b) = Len(t) - 1 /\ \A i \in 1..(Len(t) - 1) : b[i] = t[i + 1]
  OBVIOUS
<1>2. /\ a \in Seq(S) /\ Len(a) = Len(s) + 1
      /\ \A i \in 1..Len(s) : a[i] = s[i]
      /\ a[Len(s) + 1] = t[1]
  BY <1>1, AppendProperties
<1>3. /\ s \o t \in Seq(S) /\ Len(s \o t) = Len(s) + Len(t)
      /\ \A i \in 1..(Len(s) + Len(t)) : (s \o t)[i] = IF i <= Len(s) THEN s[i] ELSE t[i - Len(s)]
  BY ConcatProperties
<1> HIDE DEF a, b
<1>4. /\ a \o b \in Seq(S) /\ Len(a \o b) = Len(a) + Len(b)
      /\ \A i \in 1..(Len(a) + Len(b)) : (a \o b)[i] = IF i <= Len(a) THEN a[i] ELSE b[i - Len(a)]
  BY <1>1, <1>2, ConcatProperties
<1>5. ASSUME NEW i \in 1..(Len(s) + Len(t)) PROVE (a \o b)[i] = (s \o t)[i]
  <2>1. i \in Int /\ i \in 1..(Len(a) + Len(b))
    BY <1>1, <1>2
  <2>2. CASE i <= Len(s)
    <3>1. (a \o b)[i] = a[i] /\ a[i] = s[i] /\ (s \o t)[i] = s[i]
      BY <1>1, <1>2, <1>3, <1>4, <2>1, <2>2
    <3>2. QED
      BY <3>1
  <2>3. CASE i = Len(s) + 1
    <3>1. (a \o b)[i] = a[i] /\ a[i] = t[1]
      BY <1>1, <1>2, <1>4, <2>1, <2>3
    <3>2. (s \o t)[i] = t[i - Len(s)] /\ i - Len(s) = 1
      BY <1>1, <1>3, <2>1, <2>3
    <3>3. QED
      BY <3>1, <3>2
  <2>4. CASE i > Len(s) + 1
    <3>1. (a \o b)[i] = b[i - Len(a)]
      BY <1>1, <1>2, <1>4, <2>1, <2>4
    <3>2. (s \o t)[i] = t[i - Len(s)]
      BY <1>1, <1>3, <2>1, <2>4
    <3>3. i - Len(a) \in 1..(Len(t) - 1) /\ (i - Len(a)) + 1 = i - Len(s)
      BY <1>1, <1>2, <2>1, <2>4
    <3>4. b[i - Len(a)] = t[i - Len(s)]
      BY <1>1, <3>3
    <3>5. QED
      BY <3>1, <3>2, <3>4
  <2>5. QED
    BY <1>1, <2>1, <2>2, <2>3, <2>4
<1>6. a \o b = s \o t
  <2>1. Len(a \o b) = Len(s \o t) /\ Len(s \o t) = Len(s) + Len(t)
    BY <1>1, <1>2, <1>3, <1>4
  <2>2. \A i \in 1..Len(s \o t) : (a \o b)[i] = (s \o t)[i]
    BY <1>5, <2>1
  <2>3. QED
    BY <1>3, <1>4, <2>1, <2>2, SeqEqual
<1>7. IsPrefix(a, s \o t)
  <2>1. Len(a) \in Nat /\ Len(a) <= Len(s \o t)
    BY <1>1, <1>2, <1>3
  <2>2. \A i \in 1..Len(a) : (s \o t)[i] = a[i]
    <3>1. TAKE i \in 1..Len(a)
    <3>2. i <= Len(a) /\ i \in 1..(Len(a) + Len(b))
      BY <1>1, <1>2
    <3>3. QED
      BY <1>4, <1>6, <3>2
  <2>3. /\ SubSeq(s \o t, 1, Len(a)) \in Seq(S) /\ Len(SubSeq(s \o t, 1, Len(a))) = Len(a)
        /\ \A i \in 1..Len(a) : SubSeq(s \o t, 1, Len(a))[i] = (s \o t)[i]
    BY <1>3, <2>1
  <2>4. /\ SubSeq(a, 1, Len(a)) \in Seq(S) /\ Len(SubSeq(a, 1, Len(a))) = Len(a)
        /\ \A i \in 1..Len(a) : SubSeq(a, 1, Len(a))[i] = a[i]
    BY <1>2, <2>1
  <2>5. SubSeq(a, 1, Len(a)) = SubSeq(s \o t, 1, Len(a))
    <3> DEFINE u == SubSeq(a, 1, Len(a))
               v == SubSeq(s \o t, 1, Len(a))
    <3>1. /\ u \in Seq(S) /\ v \in Seq(S) /\ Len(u) = Len(v)
          /\ \A i \in 1..Len(u) : u[i] = v[i]
      BY <2>2, <2>3, <2>4
    <3> HIDE DEF u, v
    <3>2. u = v
      BY <3>1, SeqEqual
    <3>3. QED
      BY <3>2 DEF u, v
  <2>6. QED
    BY <2>1, <2>5 DEF IsPrefix
<1>8. QED
  BY <1>1, <1>2, <1>6, <1>7 DEF a, b

\* One id more is taken, and the list is one shorter.
LEMMA FetchOK == ASSUME ReadInv, NEW c \in Clients, Fetch(c) PROVE CallOK(c)' /\ selected' \in Seq(Names)
<1> DEFINE k == call[c]
           id == Head(selected)
<1>1. /\ DOMAIN k = Fields /\ k.pc = "fetching" /\ k.tool # "read" /\ Selecting(c)
      /\ selected \in Seq(Names) /\ selected # <<>> /\ selected' = Tail(selected)
  BY DEF ReadInv, Batch, Fetch, At
<1>2. /\ Step(c, Fetched(k, id)) /\ owner' = owner
      /\ c \notin crossed' => Own(c)
      /\ Alive(k.cursor) /\ session' = session
  BY ClientsAssumption DEF Fetch, ReadsList, Own
<1>a. seen'[c] = seen[c]
  BY DEF Fetch, Touches
<1>3. selected' \in Seq(Names)
  BY <1>1
<1> HIDE DEF k, id
<1> DEFINE taken == [k EXCEPT !.got = Append(@, id)]
<1>4. /\ DOMAIN taken = Fields /\ taken.pc = "fetching" /\ taken.tool = k.tool
      /\ taken.asked = k.asked /\ taken.got = Append(k.got, id) /\ taken.cursor = k.cursor
  BY <1>1, FieldNames
<1>5. call'[c] = Fetched(k, id)
  BY <1>2, StepCall
<1>6. CASE k.tool = "select"
  <2>1. k.got \in Seq(Names) /\ k.asked \in Seq(Names) /\ (Own(c) => k.got \o selected = k.asked)
        /\ Len(k.got) < MaxRecords
        /\ k.cursor \in Nat /\ k.cursor <= session
        /\ \A list \in seen[c] : k.got \o selected = list
    BY <1>1, <1>2, <1>6 DEF Selecting, Holding, k
  <2>2. /\ taken.got \in Seq(Names) /\ Len(taken.got) = Len(k.got) + 1
        /\ Own(c) => taken.got \o selected' = k.asked /\ IsPrefix(taken.got, k.asked)
        /\ \A list \in seen[c] : taken.got \o selected' = list /\ IsPrefix(taken.got, list)
    <3> HIDE DEF taken
    <3>1. /\ Append(k.got, id) \in Seq(Names) /\ Len(Append(k.got, id)) = Len(k.got) + 1
          /\ Append(k.got, id) \o selected' = k.got \o selected
          /\ IsPrefix(Append(k.got, id), k.got \o selected)
      BY <1>1, <2>1, TakeFirst DEF id
    <3>2. QED
      BY <1>4, <2>1, <3>1
  <2>3. Fetched(k, id) = IF Len(taken.got) >= MaxRecords THEN Answered(taken, "truncated") ELSE taken
    BY <1>6 DEF Fetched
  <2> HIDE DEF taken
  <2>4. CASE Len(taken.got) >= MaxRecords
    <3>1. call'[c] = Answered(taken, "truncated")
      BY <1>5, <2>3, <2>4
    <3>2. Len(taken.got) = MaxRecords
      BY <2>1, <2>2, <2>4, LimitAssumption
    <3> DEFINE j == call'[c]
    <3>3. /\ j.pc = "done" /\ j.answer = "truncated" /\ j.got = taken.got /\ j.asked = k.asked
      BY <1>4, <3>1, AnsweredFields
    <3>4. c \notin crossed' => IsPrefix(j.got, j.asked)
      BY <1>2, <2>2, <3>3
    <3> HIDE DEF j
    <3>a. Holding(c)'
      BY <1>a, <2>2, <3>2, <3>3 DEF Holding, j
    <3>5. Selecting(c)'
      BY <2>1, <2>2, <3>2, <3>3, <3>4, <3>a DEF Selecting, j
    <3>6. QED
      BY <1>3, <1>4, <1>6, <3>1, <3>5, AnsweredFields DEF CallOK, Batch
  <2>5. CASE ~(Len(taken.got) >= MaxRecords)
    <3>1. call'[c] = taken
      BY <1>5, <2>3, <2>5
    <3>2. Len(taken.got) < MaxRecords
      BY <2>1, <2>2, <2>5, LimitAssumption
    <3>3. Own(c)' => Own(c)
      BY <1>2 DEF Own
    <3>a. Holding(c)'
      BY <1>2, <1>4, <1>a, <2>1, <2>2, <3>1 DEF Holding
    <3>4. Selecting(c)'
      BY <1>4, <2>1, <2>2, <3>1, <3>2, <3>3, <3>a DEF Selecting
    <3>5. QED
      BY <1>3, <1>4, <1>6, <3>1, <3>4 DEF CallOK, Batch
  <2>6. QED
    BY <2>4, <2>5
<1>7. CASE k.tool # "select"
  <2>1. Fetched(k, id) \in {[k EXCEPT !.todo = <<id>>, !.pc = "reading"], taken}
    BY <1>7 DEF Fetched
  <2>2. /\ DOMAIN [k EXCEPT !.todo = <<id>>, !.pc = "reading"] = Fields
        /\ [k EXCEPT !.todo = <<id>>, !.pc = "reading"].tool = k.tool
    BY <1>1, FieldNames
  <2>3. DOMAIN call'[c] = Fields /\ call'[c].tool = k.tool
    BY <1>4, <1>5, <2>1, <2>2
  <2>4. QED
    BY <1>1, <1>3, <1>7, <2>3, OthersOK
<1>8. QED
  BY <1>6, <1>7

LEMMA OpenOK == ASSUME ReadInv, NEW c \in Clients, Open(c) PROVE CallOK(c)'
<1> DEFINE k == call[c]
           pc == CASE k.tool = "analyze"  -> "selecting"
                   [] k.tool = "describe" -> "listing"
                   [] OTHER               -> "reading"
           j == [k EXCEPT !.handle = cached'[FileOf(k.tool)], !.pc = pc]
<1>1. DOMAIN k = Fields /\ k.pc = "opening" /\ k.tool # "select" /\ Batch(k)
  BY DEF ReadInv, Selecting, Open, At
<1>2. Step(c, j)
  BY DEF Open
<1>3. k.tool = "read" => pc = "reading"
  OBVIOUS
<1> HIDE DEF k, pc
<1>4. /\ DOMAIN j = Fields /\ j.pc = pc /\ j.tool = k.tool /\ j.asked = k.asked /\ j.todo = k.todo
      /\ j.got = k.got /\ j.errors = k.errors /\ j.answer = k.answer
  BY <1>1, FieldNames
<1>5. call'[c] = j
  BY <1>2, StepCall
<1> HIDE DEF j
<1>6. Batch(j)
  BY <1>1, <1>3, <1>4 DEF Batch, Accounted
<1>7. QED
  BY <1>1, <1>4, <1>5, <1>6 DEF CallOK, Selecting

\* What is in a sequence with one more at its end, or without its first.
LEMMA AppendSet ==
  ASSUME NEW S, NEW s \in Seq(S), NEW e \in S
  PROVE  ToSet(Append(s, e)) = ToSet(s) \cup {e}
<1>1. /\ Len(s) \in Nat /\ DOMAIN s = 1..Len(s) /\ DOMAIN Append(s, e) = 1..(Len(s) + 1)
      /\ \A i \in 1..Len(s) : Append(s, e)[i] = s[i]
      /\ Append(s, e)[Len(s) + 1] = e
  BY AppendProperties
<1>2. \A i \in 1..(Len(s) + 1) : i \in 1..Len(s) \/ i = Len(s) + 1
  BY <1>1
<1>3. QED
  BY <1>1, <1>2 DEF ToSet

LEMMA TailSet ==
  ASSUME NEW S, NEW s \in Seq(S), s # <<>>
  PROVE  ToSet(s) = {Head(s)} \cup ToSet(Tail(s))
<1>1. /\ Len(s) \in Nat \ {0} /\ DOMAIN s = 1..Len(s) /\ Head(s) = s[1]
      /\ DOMAIN Tail(s) = 1..(Len(s) - 1) /\ \A i \in 1..(Len(s) - 1) : Tail(s)[i] = s[i + 1]
  OBVIOUS
<1>2. ASSUME NEW i \in 1..Len(s) PROVE s[i] \in {Head(s)} \cup ToSet(Tail(s))
  <2>1. CASE i = 1
    BY <1>1, <2>1
  <2>2. CASE i # 1
    <3>1. i - 1 \in 1..(Len(s) - 1) /\ Tail(s)[i - 1] = s[i]
      BY <1>1, <2>2
    <3>2. QED
      BY <1>1, <3>1 DEF ToSet
  <2>3. QED
    BY <2>1, <2>2
<1>3. ASSUME NEW i \in 1..(Len(s) - 1) PROVE Tail(s)[i] \in ToSet(s)
  <2>1. i + 1 \in 1..Len(s) /\ Tail(s)[i] = s[i + 1]
    BY <1>1
  <2>2. QED
    BY <1>1, <2>1 DEF ToSet
<1>4. Head(s) \in ToSet(s)
  BY <1>1 DEF ToSet
<1>5. QED
  BY <1>1, <1>2, <1>3, <1>4 DEF ToSet

LEMMA OneMoves ==
  ASSUME NEW g \in Nat, NEW e \in Nat, NEW t \in Nat
  PROVE  (g + 1) + e + (t - 1) = g + e + t /\ g + (e + 1) + (t - 1) = g + e + t /\ g + e + 0 = g + e
OBVIOUS

\* One id moves from those to be read to those returned, or to those reported.
LEMMA ReadOK == ASSUME ReadInv, NEW c \in Clients, Read(c) PROVE CallOK(c)'
<1> DEFINE k == call[c]
           id == Head(k.todo)
           j == [k EXCEPT !.todo = Tail(@)]
           found == IF Alive(j.handle) THEN stored[id] ELSE "raises"
           taken == [j EXCEPT !.got = Append(@, id)]
           after == IF Shown(j.tool, found) THEN taken ELSE Unread(j, id, found)
<1>1. DOMAIN k = Fields /\ k.pc = "reading" /\ k.tool # "select" /\ Batch(k) /\ k.todo # <<>>
  BY DEF ReadInv, Selecting, Read, At
<1>2. Step(c, IF j.tool = "analyze" THEN [after EXCEPT !.pc = "fetching"] ELSE after)
  BY DEF Read
<1> HIDE DEF k, id, found
<1>3. /\ DOMAIN j = Fields /\ j.pc = k.pc /\ j.tool = k.tool /\ j.asked = k.asked /\ j.todo = Tail(k.todo)
      /\ j.got = k.got /\ j.errors = k.errors /\ j.answer = k.answer
  BY <1>1, FieldNames
<1> HIDE DEF j
<1> DEFINE reported == [j EXCEPT !.errors = Append(@, id)]
<1>4. /\ DOMAIN taken = Fields /\ taken.pc = k.pc /\ taken.tool = k.tool /\ taken.asked = k.asked
      /\ taken.todo = Tail(k.todo) /\ taken.got = Append(k.got, id) /\ taken.errors = k.errors
  BY <1>3, FieldNames
<1>5. /\ DOMAIN reported = Fields /\ reported.pc = k.pc /\ reported.tool = k.tool
      /\ reported.asked = k.asked /\ reported.todo = Tail(k.todo)
      /\ reported.got = k.got /\ reported.errors = Append(k.errors, id)
  BY <1>3, FieldNames
<1>6. after \in {taken, reported, j} /\ (k.tool = "read" => after \in {taken, reported})
  BY <1>3 DEF Unread
<1> HIDE DEF taken, reported, after
<1>7. CASE k.tool = "read"
  <2>1. call'[c] = after
    BY <1>2, <1>3, <1>7, StepCall
  <2>2. /\ k.asked \in Seq(Names) /\ k.todo \in Seq(Names) /\ k.got \in Seq(Names)
        /\ k.errors \in Seq(Names) /\ Accounted(k)
    BY <1>1, <1>7 DEF Batch
  <2>3. /\ id \in Names /\ Tail(k.todo) \in Seq(Names) /\ Len(Tail(k.todo)) = Len(k.todo) - 1
        /\ Append(k.got, id) \in Seq(Names) /\ Len(Append(k.got, id)) = Len(k.got) + 1
        /\ Append(k.errors, id) \in Seq(Names) /\ Len(Append(k.errors, id)) = Len(k.errors) + 1
        /\ Len(k.got) \in Nat /\ Len(k.errors) \in Nat /\ Len(k.todo) \in Nat
    BY <1>1, <2>2 DEF id
  <2>4. /\ ToSet(k.todo) = {id} \cup ToSet(Tail(k.todo))
        /\ ToSet(Append(k.got, id)) = ToSet(k.got) \cup {id}
        /\ ToSet(Append(k.errors, id)) = ToSet(k.errors) \cup {id}
    BY <1>1, <2>2, <2>3, TailSet, AppendSet DEF id
  <2>5. ASSUME after = taken PROVE Accounted(after)
    <3>1. after.got = Append(k.got, id) /\ after.errors = k.errors /\ after.todo = Tail(k.todo) /\ after.asked = k.asked
      BY <1>4, <2>5
    <3>2. ToSet(k.got) \cup ToSet(k.errors) \cup ToSet(k.todo) = ToSet(k.asked)
      BY <2>2 DEF Accounted
    <3>3. ToSet(Append(k.got, id)) \cup ToSet(k.errors) \cup ToSet(Tail(k.todo)) = ToSet(k.asked)
      BY <2>4, <3>2
    <3>4. Len(Append(k.got, id)) + Len(k.errors) + Len(Tail(k.todo)) = Len(k.asked)
      <4>1. Len(k.got) + Len(k.errors) + Len(k.todo) = Len(k.asked)
        BY <2>2 DEF Accounted
      <4>2. (Len(k.got) + 1) + Len(k.errors) + (Len(k.todo) - 1) = Len(k.got) + Len(k.errors) + Len(k.todo)
        BY <2>3, OneMoves
      <4>3. QED
        BY <2>3, <4>1, <4>2, Zenon
    <3>5. QED
      BY <3>1, <3>3, <3>4 DEF Accounted
  <2>6. ASSUME after = reported PROVE Accounted(after)
    <3>1. after.got = k.got /\ after.errors = Append(k.errors, id) /\ after.todo = Tail(k.todo) /\ after.asked = k.asked
      BY <1>5, <2>6
    <3>2. ToSet(k.got) \cup ToSet(k.errors) \cup ToSet(k.todo) = ToSet(k.asked)
      BY <2>2 DEF Accounted
    <3>3. ToSet(k.got) \cup ToSet(Append(k.errors, id)) \cup ToSet(Tail(k.todo)) = ToSet(k.asked)
      BY <2>4, <3>2
    <3>4. Len(k.got) + Len(Append(k.errors, id)) + Len(Tail(k.todo)) = Len(k.asked)
      <4>1. Len(k.got) + Len(k.errors) + Len(k.todo) = Len(k.asked)
        BY <2>2 DEF Accounted
      <4>2. Len(k.got) + (Len(k.errors) + 1) + (Len(k.todo) - 1) = Len(k.got) + Len(k.errors) + Len(k.todo)
        BY <2>3, OneMoves
      <4>3. QED
        BY <2>3, <4>1, <4>2, Zenon
    <3>5. QED
      BY <3>1, <3>3, <3>4 DEF Accounted
  <2>7. Batch(after) /\ DOMAIN after = Fields /\ after.tool = "read"
    BY <1>1, <1>4, <1>5, <1>6, <1>7, <2>2, <2>3, <2>5, <2>6 DEF Batch
  <2>8. QED
    BY <2>1, <2>7 DEF CallOK, Selecting
<1>8. CASE k.tool # "read"
  <2>1. DOMAIN after = Fields /\ after.tool = k.tool
    BY <1>3, <1>4, <1>5, <1>6
  <2>2. DOMAIN [after EXCEPT !.pc = "fetching"] = Fields /\ [after EXCEPT !.pc = "fetching"].tool = k.tool
    BY <2>1, FieldNames
  <2>3. call'[c] \in {after, [after EXCEPT !.pc = "fetching"]}
    BY <1>2, StepCall
  <2>4. QED
    BY <1>1, <1>8, <2>1, <2>2, <2>3, OthersOK
<1>9. QED
  BY <1>7, <1>8

LEMMA ReadsEndOK == ASSUME ReadInv, NEW c \in Clients, ReadsEnd(c) PROVE CallOK(c)'
<1> DEFINE k == call[c]
<1>1. DOMAIN k = Fields /\ k.pc = "reading" /\ k.tool # "select" /\ Batch(k) /\ k.todo = <<>>
  BY DEF ReadInv, Selecting, ReadsEnd, At
<1>2. Step(c, Failed(k)) \/ Step(c, Answered(k, "success"))
  BY DEF ReadsEnd
<1>3. CASE Step(c, Failed(k))
  BY <1>3, FailureOK
<1>4. CASE Step(c, Answered(k, "success"))
  <2> HIDE DEF k
  <2>1. call'[c] = Answered(k, "success")
    BY <1>4, StepCall
  <2> DEFINE j == call'[c]
  <2>2. Batch(j)
    <3>1. /\ j.pc = "done" /\ j.tool = k.tool /\ j.asked = k.asked /\ j.todo = k.todo
          /\ j.got = k.got /\ j.errors = k.errors
      BY <1>1, <2>1, AnsweredFields
    <3> HIDE DEF j
    <3>2. Accounted(k) => Accounted(j)
      BY <3>1 DEF Accounted
    <3>3. QED
      BY <1>1, <3>1, <3>2 DEF Batch
  <2>3. QED
    BY <1>1, <2>1, <2>2, AnsweredFields DEF CallOK, Selecting
<1>5. QED
  BY <1>2, <1>3, <1>4

-----------------------------------------------------------------------------
LEMMA ReadInit == Init => ReadInv
<1> SUFFICES ASSUME Init PROVE ReadInv
  OBVIOUS
<1>1. selected = <<>> /\ session = 0 /\ call = [c \in Clients |-> NoCall] /\ DOMAIN seen = Clients
  BY DEF Init
<1>2. NoCall.tool = "none"
  BY DEF NoCall
<1>3. QED
  BY <1>1, <1>2 DEF ReadInv, Selecting, Batch, Fields

\* The list of the session holds ids, whoever changes it; sessions are numbered.
LEMMA SelectedStep ==
  ASSUME ReadInv, NEW c \in Clients,
         \/ \E tool \in ToolsOf[c] : Begin(c, tool)
         \/ Done(c) \/ Fails(c)
         \/ Query(c) \/ Stat(c) \/ List(c) \/ Select(c) \/ Cursor(c)
         \/ EndOfList(c) \/ Fetch(c)
         \/ Open(c) \/ Read(c) \/ ReadsEnd(c)
  PROVE  /\ selected' \in Seq(Names) /\ DOMAIN call' = Clients
         /\ session' \in Nat /\ DOMAIN seen' = Clients
<1>1. <<>> \in Seq(Names)
  OBVIOUS
<1>a. DOMAIN call' = Clients
  BY DEF Begin, Done, Fails, Query, Stat, List, Select, Cursor, EndOfList, Fetch, Open, Read,
         ReadsEnd, Step, ReadInv
<1>b. ASSUME Touches(c) PROVE DOMAIN seen' = Clients
  BY <1>b DEF Touches
<1>2. CASE (\E tool \in ToolsOf[c] : Begin(c, tool)) \/ Done(c) \/ Fails(c)
  BY <1>2, <1>a DEF Begin, Done, Fails, ReadInv, conn
<1>3. CASE Query(c)
  <2>1. GetSession
    BY <1>3 DEF Query
  <2>2. \/ selected' \in Samples /\ Touches(c)
        \/ KeepsList /\ seen' = seen
    BY <1>3 DEF Query
  <2>3. QED
    BY <1>1, <1>a, <1>b, <2>1, <2>2, GetsSession, StoresAssumption DEF KeepsList, ReadInv
<1>4. CASE Stat(c) \/ List(c) \/ Cursor(c)
  <2>1. GetSession /\ KeepsList /\ DOMAIN seen' = DOMAIN seen
    BY <1>4 DEF Stat, List, Cursor
  <2>2. QED
    BY <1>1, <1>a, <2>1, GetsSession DEF KeepsList, ReadInv
<1>5. CASE Select(c)
  <2>1. GetSession /\ Touches(c)
    BY <1>5 DEF Select
  <2>2. QED
    BY <1>5, <1>a, <1>b, <2>1, GetsSession, SelectOK
<1>6. CASE Fetch(c)
  <2>1. session' = session /\ Touches(c)
    BY <1>6 DEF Fetch
  <2>2. QED
    BY <1>6, <1>a, <1>b, <2>1, FetchOK DEF ReadInv
<1>7. CASE EndOfList(c) \/ Read(c) \/ ReadsEnd(c)
  BY <1>7, <1>a DEF EndOfList, Read, ReadsEnd, ReadInv, conn
<1>8. CASE Open(c)
  <2>1. \/ session' = session /\ selected' = selected
        \/ GetSession /\ KeepsList
    BY <1>8 DEF Open, conn
  <2>2. seen' = seen
    BY <1>8 DEF Open
  <2>3. QED
    BY <1>1, <1>a, <2>1, <2>2, GetsSession DEF KeepsList, ReadInv
<1>9. QED
  BY <1>2, <1>3, <1>4, <1>5, <1>6, <1>7, <1>8

LEMMA QuietLeaves ==
  ASSUME ReadInv, SessionDrops \/ UNCHANGED vars, NEW c \in Clients
  PROVE  Leaves(c)
<1>1. session \in Nat /\ session <= session
  BY DEF ReadInv
<1>2. QED
  BY <1>1 DEF SessionDrops, vars, conn, Leaves

LEMMA ReadStep == ReadInv /\ [Next]_vars => ReadInv'
<1> SUFFICES ASSUME ReadInv, [Next]_vars PROVE ReadInv'
  OBVIOUS
<1>1. ASSUME NEW d \in Clients,
             \/ \E tool \in ToolsOf[d] : Begin(d, tool)
             \/ Done(d) \/ Fails(d)
             \/ Query(d) \/ Stat(d) \/ List(d) \/ Select(d) \/ Cursor(d)
             \/ EndOfList(d) \/ Fetch(d)
             \/ Open(d) \/ Read(d) \/ ReadsEnd(d)
      PROVE  ReadInv'
  <2>1. /\ selected' \in Seq(Names) /\ DOMAIN call' = Clients
        /\ session' \in Nat /\ DOMAIN seen' = Clients
    BY <1>1, SelectedStep
  <2>2. CallOK(d)'
    BY <1>1, BeginOK, DoneOK, FailsOK, CommandsOK, SelectOK, CursorOK, EndOfListOK, FetchOK,
       OpenOK, ReadOK, ReadsEndOK
  <2>3. ASSUME NEW c \in Clients, c # d
        PROVE  DOMAIN call'[c] = Fields /\ Selecting(c)' /\ Batch(call'[c])
    BY <1>1, <2>3, OthersLeave, LeavesKeeps
  <2>4. QED
    BY <2>1, <2>2, <2>3 DEF ReadInv, CallOK
<1>2. CASE SessionDrops \/ UNCHANGED vars
  <2>1. \A c \in Clients : Leaves(c)
    BY <1>2, QuietLeaves
  <2>2. /\ selected' = selected /\ session' = session /\ DOMAIN call' = DOMAIN call
        /\ DOMAIN seen' = DOMAIN seen
    BY <1>2 DEF SessionDrops, vars, conn
  <2>3. QED
    BY <2>1, <2>2, LeavesKeeps DEF ReadInv
<1>3. QED
  BY <1>1, <1>2 DEF Next

\* An answer that says it is complete is all of the list the call found, and one that
\* says it is truncated is the beginning of it, unless another call used that list
\* meanwhile; and the list found is the one selected, unless it was lost or another
\* call selected before the cursor.
THEOREM CompleteAnswers == Spec => []CompleteMeansAll
<1>1. ReadInv => CompleteMeansAll
  BY DEF ReadInv, Selecting, Holding, CompleteMeansAll, Delivers, Gives, At
<1>2. QED
  BY <1>1, ReadInit, ReadStep, PTL DEF Spec

\* A batch read returns or reports each id it was asked for, once for each time it
\* was asked.
LEMMA BatchIsAccounted == ASSUME ReadInv, NEW c \in Clients PROVE BatchAccounted(c)
<1> DEFINE k == call[c]
<1>1. SUFFICES ASSUME k.pc = "done", k.tool = "read", k.answer = "success"
               PROVE  /\ ToSet(k.got) \cup ToSet(k.errors) = ToSet(k.asked)
                      /\ Len(k.got) + Len(k.errors) = Len(k.asked)
  BY DEF BatchAccounted, Gives, At
<1>2. /\ k.got \in Seq(Names) /\ k.errors \in Seq(Names) /\ k.todo = <<>> /\ Accounted(k)
  BY <1>1 DEF ReadInv, Batch
<1> HIDE DEF k
<1>3. ToSet(k.todo) = {} /\ Len(k.todo) = 0
  BY <1>2 DEF ToSet
<1>4. ToSet(k.got) \cup ToSet(k.errors) = ToSet(k.asked)
  BY <1>2, <1>3 DEF Accounted
<1>5. Len(k.got) + Len(k.errors) + Len(k.todo) = Len(k.asked)
  BY <1>2 DEF Accounted
<1>6. Len(k.got) \in Nat /\ Len(k.errors) \in Nat
  BY <1>2
<1>7. Len(k.got) + Len(k.errors) + 0 = Len(k.got) + Len(k.errors)
  BY <1>6, OneMoves
<1>8. Len(k.got) + Len(k.errors) = Len(k.asked)
  BY <1>3, <1>5, <1>7, Zenon
<1>9. QED
  BY <1>4, <1>8

-----------------------------------------------------------------------------
(* What the other tools keep of what they were asked for.                  *)
(*                                                                         *)
(* What a call has taken, followed by what it will take of what is still   *)
(* before it, is what it should have taken in the end.  The ids before it  *)
(* are those it has to read; for an analysis, those of the session's list. *)

Data == {x \in Names : stored[x] = "data"}

\* The items a description shows.
Items == {x \in Names \ (System \cup Listish) : stored[x] = "data"}

OnItsWay(k, rest, S, wanted) ==
  /\ k.asked \in Seq(Names) /\ k.got \in Seq(Names) /\ rest \in Seq(Names)
  /\ k.got \o Kept(rest, S) = Kept(k.asked, wanted)

Succeeds(k) == k.pc # "done" \/ k.answer = "success"

Exporting(c) ==
  LET k == call[c] IN
  k.tool = "export" =>
    /\ k.pc \in {"opening", "reading", "done"}
    /\ k.pc = "done" => k.todo = <<>>
    /\ c \notin crossed /\ Succeeds(k) => OnItsWay(k, k.todo, Readable, Readable)

Analyzing(c) ==
  LET k == call[c] IN
  k.tool = "analyze" =>
    /\ k.pc \in {"opening", "selecting", "cursor", "fetching", "reading", "done"}
    /\ k.pc \in {"opening", "selecting", "cursor"} => k.got = <<>>
    /\ k.pc = "cursor" /\ Own(c) => k.asked \in Seq(Names) /\ selected = k.asked
    /\ k.pc = "fetching" /\ Own(c) => OnItsWay(k, selected, Readable, Readable)
    /\ k.pc = "reading" => \E id \in Names : /\ k.todo = <<id>>
                                             /\ Own(c) => OnItsWay(k, <<id>> \o selected, Readable, Readable)
    /\ k.pc = "done" /\ k.answer = "success" /\ c \notin crossed => k.got = Kept(k.asked, Readable)

Describing(c) ==
  LET k == call[c] IN
  k.tool = "describe" =>
    /\ k.pc \in {"stat", "opening", "listing", "reading", "done"}
    /\ k.pc \in {"stat", "opening", "listing"} => k.got = <<>>
    /\ k.pc = "done" => k.todo = <<>>
    /\ c \notin crossed /\ k.pc \in {"reading", "done"} /\ Succeeds(k) => OnItsWay(k, k.todo, Data, Items)

\* Every item that is not empty is found, reported, or still to be read.
ItemsAccounted(k) ==
  /\ k.asked \in Seq(Names) /\ k.todo \in Seq(Names) /\ k.got \in Seq(Names) /\ k.errors \in Seq(Names)
  /\ {x \in ToSet(k.asked) \ (System \cup Verbs) : stored[x] # "empty"}
       \subseteq ToSet(k.got) \cup ToSet(k.errors) \cup ToSet(k.todo)

ListingItems(c) ==
  LET k == call[c] IN
  k.tool = "dictionary" =>
    /\ k.pc \in {"listing", "opening", "reading", "done"}
    /\ k.pc = "listing" => k.got = <<>> /\ k.errors = <<>>
    /\ k.pc = "done" => k.todo = <<>>
    /\ k.pc # "listing" /\ Succeeds(k) => ItemsAccounted(k)

ListingFiles(c) ==
  LET k == call[c] IN
  k.tool = "files" =>
    /\ k.pc \in {"listing", "done"}
    /\ k.pc = "done" /\ k.answer = "success" => ToSet(k.got) = ToSet(k.asked) \ (Numeric \cup Headings)

Tracked(c) == Exporting(c) /\ Analyzing(c) /\ Describing(c) /\ ListingItems(c) /\ ListingFiles(c)

TrackInv == stored \in Stores /\ \A c \in Clients : Tracked(c)

\* The tools whose calls are tracked.
Trackers == {"export", "analyze", "describe", "dictionary", "files"}

LEMMA NotTracked ==
  ASSUME NEW c, call[c].tool \notin Trackers
  PROVE  Tracked(c)
BY DEF Tracked, Exporting, Analyzing, Describing, ListingItems, ListingFiles, Trackers

LEMMA StoredSame == ASSUME stored' = stored PROVE Readable' = Readable /\ Data' = Data /\ Items' = Items
BY DEF Readable, Data, Items

\* What the steps of others do to a call that is tracked.
LEMMA LeavesTracked ==
  ASSUME TrackInv, stored' = stored, NEW c \in Clients, Leaves(c)
  PROVE  Tracked(c)'
<1>1. call'[c] = call[c] /\ (c \in crossed => c \in crossed') /\ (Own(c)' => Own(c) /\ selected' = selected)
  BY DEF Leaves, Own
<1>2. Readable' = Readable /\ Data' = Data /\ Items' = Items /\ Tracked(c)
  BY StoredSame DEF TrackInv
<1>3. Exporting(c)'
  BY <1>1, <1>2 DEF Tracked, Exporting, OnItsWay, Succeeds
<1>4. Analyzing(c)'
  BY <1>1, <1>2 DEF Tracked, Analyzing, OnItsWay
<1>5. Describing(c)'
  BY <1>1, <1>2 DEF Tracked, Describing, OnItsWay, Succeeds
<1>6. ListingItems(c)'
  BY <1>1, <1>2 DEF Tracked, ListingItems, ItemsAccounted, Succeeds
<1>7. ListingFiles(c)'
  BY <1>1, <1>2 DEF Tracked, ListingFiles
<1>8. QED
  BY <1>3, <1>4, <1>5, <1>6, <1>7 DEF Tracked

\* No step changes what is stored.
LEMMA StoredNext == ASSUME [Next]_vars PROVE stored' = stored
BY DEF Next, vars, SessionDrops, Begin, Done, Fails, Query, Stat, List, Select, Cursor,
       EndOfList, Fetch, Open, Read, ReadsEnd

\* A listing holds names and the lines around them, which no set of names keeps.
LEMMA PrintedKept ==
  ASSUME NEW names \in Seq(Names), NEW S, S \cap Noise = {}
  PROVE  Kept(Printed(names), S) = Kept(names, S)
<1> DEFINE T == Names \cup Noise
           a == <<"header", "echo", "rule">>
           b == <<"summary">>
           k == Kept(names, S)
<1>1. /\ a \in Seq(T) /\ names \in Seq(T) /\ b \in Seq(T)
      /\ ToSet(a) \subseteq Noise /\ ToSet(b) \subseteq Noise
  BY DEF Noise, ToSet
<1>2. Printed(names) = (a \o names) \o b
  BY DEF Printed
<1>3. k \in Seq(T)
  BY <1>1, KeptElements
<1>4. ToSet(a) \cap S = {} /\ ToSet(b) \cap S = {}
  BY <1>1
<1> HIDE DEF T, a, b
<1>5. Kept(a, S) = <<>> /\ Kept(b, S) = <<>>
  BY <1>1, <1>4, KeptNone
<1>6. Kept(a \o names, S) = Kept(a, S) \o k
  <2>1. KeptOfBoth(a, names, S)
    BY <1>1, KeptConcat
  <2>2. QED
    BY <2>1 DEF KeptOfBoth
<1> HIDE DEF k
<1>7. <<>> \o k = k /\ k \o <<>> = k
  BY <1>3
<1> DEFINE an == a \o names
<1>8. an \in Seq(T)
  BY <1>1
<1>9. Kept(an, S) = k
  BY <1>5, <1>6, <1>7
<1> HIDE DEF an
<1>10. Kept(an \o b, S) = Kept(an, S) \o Kept(b, S)
  <2>1. KeptOfBoth(an, b, S)
    BY <1>1, <1>8, KeptConcat
  <2>2. QED
    BY <2>1 DEF KeptOfBoth
<1>11. Kept(an \o b, S) = k
  BY <1>5, <1>7, <1>9, <1>10
<1>12. QED
  BY <1>2, <1>11 DEF an, k

-----------------------------------------------------------------------------
(* One id is read.                                                         *)

\* With the first of the ids before it read, or passed over, a call is on its way.
LEMMA OneTaken ==
  ASSUME NEW g \in Seq(Names), NEW id \in Names, NEW rest \in Seq(Names), NEW S
  PROVE  /\ id \in S => Append(g, id) \o Kept(rest, S) = g \o Kept(<<id>> \o rest, S)
         /\ id \notin S => g \o Kept(rest, S) = g \o Kept(<<id>> \o rest, S)
<1> DEFINE r == Kept(rest, S)
           h == <<id>>
<1>1. h \in Seq(Names) /\ r \in Seq(Names)
  BY KeptElements
<1>2. Kept(h, S) = Mark(id, S)
  BY MarkKept
<1> HIDE DEF h
<1>3. Kept(h \o rest, S) = Kept(h, S) \o r
  <2>1. KeptOfBoth(h, rest, S)
    BY <1>1, KeptConcat
  <2>2. QED
    BY <2>1 DEF KeptOfBoth
<1> HIDE DEF r
<1>4. id \in S => Append(g, id) \o r = g \o (<<id>> \o r)
  <2>1. Append(g, id) = g \o <<id>> /\ <<id>> \in Seq(Names)
    OBVIOUS
  <2>2. (g \o <<id>>) \o r = g \o (<<id>> \o r)
    BY <1>1, <2>1, ConcatThree DEF Associates
  <2>3. QED
    BY <2>1, <2>2
<1>5. <<>> \o r = r
  BY <1>1
<1>6. CASE id \in S
  BY <1>2, <1>3, <1>4, <1>6 DEF Mark, r, h
<1>7. CASE id \notin S
  BY <1>2, <1>3, <1>5, <1>7 DEF Mark, r, h
<1>8. QED
  BY <1>6, <1>7

LEMMA HeadTail ==
  ASSUME NEW S, NEW s \in Seq(S), s # <<>>
  PROVE  Head(s) \in S /\ Tail(s) \in Seq(S) /\ s = <<Head(s)>> \o Tail(s)
OBVIOUS

\* What a read does to a call.
LEMMA ReadDoes ==
  ASSUME ReadInv, NEW c \in Clients, Read(c)
  PROVE  LET k == call[c]
             j == call'[c]
             id == Head(k.todo)
             found == IF Alive(k.handle) THEN stored[id] ELSE "raises"
         IN  /\ k.pc = "reading" /\ k.todo # <<>>
             /\ j.pc = (IF k.tool = "analyze" THEN "fetching" ELSE "reading")
             /\ j.tool = k.tool /\ j.asked = k.asked /\ j.todo = Tail(k.todo) /\ j.answer = k.answer
             /\ j.got = (IF Shown(k.tool, found) THEN Append(k.got, id) ELSE k.got)
             /\ j.errors = k.errors \/ j.errors = Append(k.errors, id)
             /\ k.tool = "dictionary" /\ found = "raises" => j.errors = Append(k.errors, id)
             /\ crossed' = (IF Alive(k.handle) THEN crossed ELSE crossed \cup {c})
             /\ owner' = owner /\ selected' = selected
<1> DEFINE k == call[c]
           id == Head(k.todo)
           j == [k EXCEPT !.todo = Tail(@)]
           found == IF Alive(j.handle) THEN stored[id] ELSE "raises"
           taken == [j EXCEPT !.got = Append(@, id)]
           after == IF Shown(j.tool, found) THEN taken ELSE Unread(j, id, found)
           reported == [j EXCEPT !.errors = Append(@, id)]
<1>1. DOMAIN k = Fields /\ k.pc = "reading" /\ k.todo # <<>>
  BY DEF ReadInv, Read, At
<1>2. Step(c, IF j.tool = "analyze" THEN [after EXCEPT !.pc = "fetching"] ELSE after)
  BY DEF Read
<1>c. /\ crossed' = (IF Alive(k.handle) THEN crossed ELSE crossed \cup {c})
      /\ owner' = owner /\ selected' = selected
  BY DEF Read, conn
<1> HIDE DEF k, id
<1>3. /\ DOMAIN j = Fields /\ j.pc = k.pc /\ j.tool = k.tool /\ j.asked = k.asked /\ j.todo = Tail(k.todo)
      /\ j.got = k.got /\ j.errors = k.errors /\ j.answer = k.answer /\ j.handle = k.handle
  BY <1>1, FieldNames
<1> HIDE DEF j, found
<1>4. /\ DOMAIN taken = Fields /\ taken.pc = k.pc /\ taken.tool = k.tool /\ taken.asked = k.asked
      /\ taken.todo = Tail(k.todo) /\ taken.got = Append(k.got, id) /\ taken.errors = k.errors
      /\ taken.answer = k.answer
  BY <1>3, FieldNames
<1>5. /\ DOMAIN reported = Fields /\ reported.pc = k.pc /\ reported.tool = k.tool
      /\ reported.asked = k.asked /\ reported.todo = Tail(k.todo)
      /\ reported.got = k.got /\ reported.errors = Append(k.errors, id) /\ reported.answer = k.answer
  BY <1>3, FieldNames
<1>6. /\ after = (IF Shown(k.tool, found) THEN taken ELSE Unread(j, id, found))
      /\ Unread(j, id, found) \in {reported, j}
      /\ k.tool = "dictionary" /\ found = "raises" => Unread(j, id, found) = reported
  BY <1>3 DEF Unread
<1>s. found = "raises" => ~Shown(k.tool, found)
  BY DEF Shown
<1> HIDE DEF taken, reported, after
<1>7. /\ DOMAIN after = Fields /\ after.pc = "reading"
      /\ after.tool = k.tool /\ after.asked = k.asked /\ after.todo = Tail(k.todo) /\ after.answer = k.answer
      /\ after.got = (IF Shown(k.tool, found) THEN Append(k.got, id) ELSE k.got)
      /\ after.errors = k.errors \/ after.errors = Append(k.errors, id)
      /\ k.tool = "dictionary" /\ found = "raises" => after.errors = Append(k.errors, id)
  BY <1>1, <1>3, <1>4, <1>5, <1>6, <1>s
<1> DEFINE fetching == [after EXCEPT !.pc = "fetching"]
<1>8. /\ fetching.pc = "fetching"
      /\ fetching.tool = after.tool /\ fetching.asked = after.asked /\ fetching.todo = after.todo
      /\ fetching.answer = after.answer /\ fetching.got = after.got /\ fetching.errors = after.errors
  BY <1>7, FieldNames
<1> HIDE DEF fetching
<1>9. call'[c] = (IF k.tool = "analyze" THEN fetching ELSE after)
  BY <1>2, <1>3, StepCall DEF fetching
<1>10. /\ call'[c].pc = (IF k.tool = "analyze" THEN "fetching" ELSE "reading")
       /\ call'[c].tool = k.tool /\ call'[c].asked = k.asked /\ call'[c].todo = Tail(k.todo)
       /\ call'[c].answer = k.answer
       /\ call'[c].got = (IF Shown(k.tool, found) THEN Append(k.got, id) ELSE k.got)
       /\ call'[c].errors = k.errors \/ call'[c].errors = Append(k.errors, id)
       /\ k.tool = "dictionary" /\ found = "raises" => call'[c].errors = Append(k.errors, id)
  BY <1>7, <1>8, <1>9
<1>11. found = (IF Alive(k.handle) THEN stored[id] ELSE "raises")
  BY <1>3 DEF found
<1>12. QED
  BY <1>1, <1>c, <1>10, <1>11 DEF k, id

-----------------------------------------------------------------------------
(* What the steps of a client leave of its own call.                       *)

LEMMA BeginTracked ==
  ASSUME ReadInv, NEW c \in Clients, NEW tool \in ToolsOf[c], Begin(c, tool)
  PROVE  Tracked(c)'
<1>1. PICK ids \in Requests(tool) :
        LET k == [NoCall EXCEPT !.pc = FirstStep(tool), !.tool = tool, !.asked = ids, !.todo = ids]
        IN  Step(c, IF Len(ids) > MaxRecords THEN Failed(k) ELSE k)
  BY DEF Begin
<1> DEFINE k == [NoCall EXCEPT !.pc = FirstStep(tool), !.tool = tool, !.asked = ids, !.todo = ids]
           j == call'[c]
<1>2. /\ k.pc = FirstStep(tool) /\ k.tool = tool /\ k.asked = ids /\ k.todo = ids
      /\ k.got = <<>> /\ k.errors = <<>>
  BY DEF NoCall
<1>3. j = Failed(k) \/ j = k
  BY <1>1, StepCall
<1> HIDE DEF k
<1>4. CASE j = Failed(k)
  <2>1. j.pc = "done" /\ j.answer = "error" /\ j.todo = <<>>
    BY <1>4, FailedFields
  <2>2. QED
    BY <2>1 DEF Tracked, Exporting, Analyzing, Describing, ListingItems, ListingFiles, Succeeds
<1>5. CASE j = k
  <2>1. Exporting(c)'
    <3>1. CASE tool = "export"
      <4>1. j.pc = "opening" /\ ids \in Seq(Names)
        BY <1>2, <1>5, <3>1, StoresAssumption DEF FirstStep, Requests
      <4>2. <<>> \in Seq(Names) /\ Kept(ids, Readable') \in Seq(Names)
        BY <4>1, KeptElements
      <4>3. <<>> \o Kept(ids, Readable') = Kept(ids, Readable')
        BY <4>2
      <4>4. QED
        BY <1>2, <1>5, <4>1, <4>2, <4>3 DEF Exporting, OnItsWay
    <3>2. CASE tool # "export"
      BY <1>2, <1>5, <3>2 DEF Exporting
    <3>3. QED
      BY <3>1, <3>2
  <2>2. Analyzing(c)'
    <3>1. tool = "analyze" => FirstStep(tool) = "opening"
      BY DEF FirstStep
    <3>2. QED
      BY <1>2, <1>5, <3>1 DEF Analyzing
  <2>3. Describing(c)'
    <3>1. tool = "describe" => FirstStep(tool) = "stat"
      BY DEF FirstStep
    <3>2. QED
      BY <1>2, <1>5, <3>1 DEF Describing
  <2>4. ListingItems(c)' /\ ListingFiles(c)'
    <3>1. tool \in {"dictionary", "files"} => FirstStep(tool) = "listing"
      BY DEF FirstStep
    <3>2. QED
      BY <1>2, <1>5, <3>1 DEF ListingItems, ListingFiles
  <2>5. QED
    BY <2>1, <2>2, <2>3, <2>4 DEF Tracked
<1>6. QED
  BY <1>3, <1>4, <1>5

\* A call that is none of these, and stays none.
LEMMA OthersTracked ==
  ASSUME NEW c \in Clients, call'[c].tool \notin Trackers
  PROVE  Tracked(c)'
BY DEF Tracked, Exporting, Analyzing, Describing, ListingItems, ListingFiles, Trackers

LEMMA DoneTracked == ASSUME ReadInv, NEW c \in Clients, Done(c) PROVE Tracked(c)'
<1>1. call'[c] = NoCall /\ NoCall.tool = "none"
  BY StepCall DEF Done, NoCall
<1>2. QED
  BY <1>1, OthersTracked DEF Trackers

LEMMA FailsTracked == ASSUME ReadInv, NEW c \in Clients, Fails(c) PROVE Tracked(c)'
<1>1. CASE Step(c, Failed(call[c]))
  <2>1. call'[c] = Failed(call[c])
    BY <1>1, StepCall
  <2>2. call'[c].pc = "done" /\ call'[c].answer = "error" /\ call'[c].todo = <<>>
    BY <2>1, FailedFields
  <2>3. QED
    BY <2>2 DEF Tracked, Exporting, Analyzing, Describing, ListingItems, ListingFiles, Succeeds
<1>2. CASE call[c].tool = "catalog" /\ Step(c, Answered(call[c], "success"))
  <2>1. call'[c].tool = "catalog"
    BY <1>2, StepCall, AnsweredFields DEF ReadInv
  <2>2. QED
    BY <2>1, OthersTracked DEF Trackers
<1>3. QED
  BY <1>1, <1>2 DEF Fails

LEMMA QueryTracked == ASSUME ReadInv, TrackInv, NEW c \in Clients, Query(c) PROVE Tracked(c)'
<1> DEFINE k == call[c]
<1>1. DOMAIN k = Fields /\ k.tool \notin Trackers
  BY DEF ReadInv, TrackInv, Tracked, Exporting, Analyzing, Describing, ListingItems, ListingFiles,
         Trackers, Query, At
<1> HIDE DEF k
<1>2. PICK rows \in Samples, verb \in {"LIST", "SELECT", "other"} :
        LET j == [k EXCEPT !.asked = rows]
        IN  Step(c, IF verb = "LIST"
                      THEN [Answered(j, "truncated") EXCEPT !.got =
                              SubSeq(rows, 1, IF Len(rows) > MaxRecords THEN MaxRecords ELSE Len(rows))]
                      ELSE [Answered(j, "complete") EXCEPT !.got = rows])
  BY DEF Query, k
<1> DEFINE j == [k EXCEPT !.asked = rows]
<1>3. DOMAIN j = Fields /\ j.tool = k.tool
  BY <1>1, FieldNames
<1>4. \E a, g : Step(c, [Answered(j, a) EXCEPT !.got = g])
  BY <1>2
<1> HIDE DEF j
<1>5. PICK a, g : Step(c, [Answered(j, a) EXCEPT !.got = g])
  BY <1>4
<1>6. DOMAIN Answered(j, a) = Fields /\ Answered(j, a).tool = k.tool
  BY <1>3, AnsweredFields
<1>7. call'[c].tool = k.tool
  <2>1. call'[c] = [Answered(j, a) EXCEPT !.got = g]
    BY <1>5, StepCall
  <2>2. QED
    BY <2>1, <1>6, FieldNames
<1>8. QED
  BY <1>1, <1>7, OthersTracked

LEMMA StatTracked == ASSUME ReadInv, TrackInv, NEW c \in Clients, Stat(c) PROVE Tracked(c)'
<1> DEFINE k == call[c]
           j == call'[c]
<1>1. DOMAIN k = Fields /\ Describing(c) /\ k.pc = "stat"
  BY DEF ReadInv, TrackInv, Tracked, Stat, At
<1>2. k.tool \notin {"export", "analyze", "dictionary", "files"}
  BY <1>1 DEF TrackInv, Tracked, Exporting, Analyzing, ListingItems, ListingFiles
<1>3. j = [k EXCEPT !.pc = "opening"]
  BY StepCall DEF Stat
<1> HIDE DEF k
<1>4. j.pc = "opening" /\ j.tool = k.tool /\ j.got = k.got
  BY <1>1, <1>3, FieldNames
<1>5. Describing(c)'
  BY <1>1, <1>4 DEF Describing, k
<1>6. QED
  BY <1>2, <1>4, <1>5 DEF Tracked, Exporting, Analyzing, ListingItems, ListingFiles

\* What is printed goes through the filter of the tool, and into its findings or
\* before its reads.
LEMMA ListTracked == ASSUME ReadInv, TrackInv, NEW c \in Clients, List(c) PROVE Tracked(c)'
<1> DEFINE k == call[c]
           j == call'[c]
<1>1. /\ DOMAIN k = Fields /\ k.pc = "listing" /\ k.tool \notin {"export", "analyze"}
      /\ k.tool = "describe" => k.got = <<>>
      /\ k.tool = "dictionary" => k.got = <<>> /\ k.errors = <<>>
  BY DEF ReadInv, TrackInv, Tracked, Exporting, Analyzing, Describing, ListingItems, List, At
<1>2. PICK names \in Samples : j = Listed(k, names)
  BY StepCall DEF List
<1>3. names \in Seq(Names)
  BY StoresAssumption
<1> HIDE DEF k, j
<1> DEFINE told == [k EXCEPT !.asked = names]
           lines == Printed(names)
<1>4. /\ DOMAIN told = Fields /\ told.tool = k.tool /\ told.asked = names
      /\ told.got = k.got /\ told.errors = k.errors
  BY <1>1, FieldNames
<1>5. j.tool = k.tool
  BY <1>1, <1>2, ListedFields
<1>6. /\ k.tool = "dictionary" => j = [told EXCEPT !.todo = DictionaryIds(lines), !.pc = "opening"]
      /\ k.tool = "describe" => j = [told EXCEPT !.todo = DescribedIds(lines), !.pc = "reading"]
      /\ k.tool = "files" => j = [Answered(told, "success") EXCEPT !.got = FileNames(lines)]
  BY <1>2 DEF Listed
<1>7. \A S : S \cap Names \cap Noise = {} /\ (S \subseteq Names => S \cap Noise = {})
  BY NamesAssumption
<1> HIDE DEF told, lines
<1>8. CASE k.tool = "dictionary"
  <2> DEFINE ids == Kept(names, Names \ (System \cup Verbs))
  <2>1. DictionaryIds(lines) = ids
    BY <1>3, <1>7, PrintedKept DEF DictionaryIds, lines
  <2>2. ids \in Seq(Names) /\ ToSet(ids) = ToSet(names) \cap (Names \ (System \cup Verbs))
    BY <1>3, KeptElements
  <2> HIDE DEF ids
  <2>3. j = [told EXCEPT !.todo = ids, !.pc = "opening"]
    BY <1>6, <1>8, <2>1
  <2>4. j.pc = "opening" /\ j.todo = ids /\ j.asked = names /\ j.got = <<>> /\ j.errors = <<>>
    BY <1>1, <1>4, <1>8, <2>3, FieldNames
  <2>5. ToSet(names) \subseteq Names
    BY <1>3 DEF ToSet
  <2>6. <<>> \in Seq(Names)
    OBVIOUS
  <2>7. ListingItems(c)'
    BY <1>3, <2>2, <2>4, <2>5, <2>6 DEF ListingItems, ItemsAccounted, j
  <2>8. QED
    BY <1>5, <1>8, <2>7 DEF Tracked, Exporting, Analyzing, Describing, ListingFiles, j
<1>9. CASE k.tool = "describe"
  <2> DEFINE S == Names \ (System \cup Listish)
             ids == Kept(names, S)
  <2>1. S \subseteq Names
    OBVIOUS
  <2>2. DescribedIds(lines) = ids
    BY <1>3, <1>7, <2>1, PrintedKept DEF DescribedIds, lines
  <2>3. ids \in Seq(Names)
    BY <1>3, KeptElements
  <2>4. S \cap Data' = Items'
    BY DEF Data, Items
  <2>5. Kept(ids, Data') = Kept(names, S \cap Data')
    BY <1>3, KeptKept
  <2>6. Kept(ids, Data') = Kept(names, Items')
    BY <2>4, <2>5
  <2> HIDE DEF ids, S
  <2>7. j = [told EXCEPT !.todo = ids, !.pc = "reading"]
    BY <1>6, <1>9, <2>2
  <2>8. j.pc = "reading" /\ j.todo = ids /\ j.asked = names /\ j.got = <<>>
    BY <1>1, <1>4, <1>9, <2>7, FieldNames
  <2> DEFINE q == Kept(ids, Data')
  <2>9. <<>> \in Seq(Names) /\ q \in Seq(Names)
    BY <2>3, KeptElements
  <2>10. <<>> \o q = q
    BY <2>9
  <2>11. OnItsWay(j, ids, Data', Items')
    BY <1>3, <2>3, <2>6, <2>8, <2>9, <2>10 DEF OnItsWay
  <2>12. Describing(c)'
    BY <2>8, <2>11 DEF Describing, j, OnItsWay
  <2>13. QED
    BY <1>5, <1>9, <2>12 DEF Tracked, Exporting, Analyzing, ListingItems, ListingFiles, j
<1>10. CASE k.tool = "files"
  <2> DEFINE got == Kept(names, Names \ (Numeric \cup Headings))
             a == Answered(told, "success")
  <2>1. FileNames(lines) = got
    BY <1>3, <1>7, PrintedKept DEF FileNames, lines
  <2>2. ToSet(got) = ToSet(names) \cap (Names \ (Numeric \cup Headings))
    BY <1>3, KeptElements
  <2>3. DOMAIN a = Fields /\ a.pc = "done" /\ a.asked = names
    BY <1>4, AnsweredFields
  <2> HIDE DEF got, a
  <2>4. j = [a EXCEPT !.got = got]
    BY <1>6, <1>10, <2>1 DEF a
  <2>5. j.pc = "done" /\ j.got = got /\ j.asked = names
    BY <2>3, <2>4, FieldNames
  <2>6. ToSet(names) \subseteq Names
    BY <1>3 DEF ToSet
  <2>7. ListingFiles(c)'
    BY <2>2, <2>5, <2>6 DEF ListingFiles, j
  <2>8. QED
    BY <1>5, <1>10, <2>7 DEF Tracked, Exporting, Analyzing, Describing, ListingItems, j
<1>11. CASE k.tool \notin {"dictionary", "describe", "files"}
  BY <1>1, <1>5, <1>11, OthersTracked DEF Trackers, j
<1>12. QED
  BY <1>8, <1>9, <1>10, <1>11

\* An analysis has its sample before it, on the session's list.
LEMMA SelectTracked == ASSUME ReadInv, TrackInv, NEW c \in Clients, Select(c) PROVE Tracked(c)'
<1> DEFINE k == call[c]
           j == call'[c]
<1>1. /\ DOMAIN k = Fields /\ k.tool \notin {"export", "describe", "dictionary", "files"}
      /\ k.tool = "analyze" => k.got = <<>>
  BY DEF ReadInv, TrackInv, Tracked, Exporting, Analyzing, Describing, ListingItems, ListingFiles, Select, At
<1>2. PICK ids \in Samples : selected' = ids /\ j = [k EXCEPT !.pc = "cursor", !.asked = ids]
  BY StepCall DEF Select
<1>3. ids \in Seq(Names)
  BY StoresAssumption
<1> HIDE DEF k, j
<1>4. j.pc = "cursor" /\ j.asked = ids /\ j.tool = k.tool /\ j.got = k.got
  BY <1>1, <1>2, FieldNames
<1>5. Analyzing(c)'
  BY <1>1, <1>2, <1>3, <1>4 DEF Analyzing, j
<1>6. QED
  BY <1>1, <1>4, <1>5 DEF Tracked, Exporting, Describing, ListingItems, ListingFiles, j

LEMMA CursorTracked == ASSUME ReadInv, TrackInv, NEW c \in Clients, Cursor(c) PROVE Tracked(c)'
<1> DEFINE k == call[c]
           j == call'[c]
<1>1. /\ DOMAIN k = Fields /\ k.tool \notin {"export", "describe", "dictionary", "files"}
      /\ k.tool = "analyze" => k.got = <<>> /\ (Own(c) => k.asked \in Seq(Names) /\ selected = k.asked)
  BY DEF ReadInv, TrackInv, Tracked, Exporting, Analyzing, Describing, ListingItems, ListingFiles, Cursor, At
<1>2. /\ j = [k EXCEPT !.pc = "fetching", !.cursor = session']
      /\ crossed' = crossed /\ owner' \in {owner, Nobody} /\ (owner' = c => selected' = selected)
  BY StepCall, ClientsAssumption DEF Cursor, KeepsList
<1> HIDE DEF k, j
<1>3. j.pc = "fetching" /\ j.asked = k.asked /\ j.tool = k.tool /\ j.got = k.got
  BY <1>1, <1>2, FieldNames
<1>4. Own(c)' => Own(c) /\ selected' = selected
  BY <1>2, ClientsAssumption DEF Own
<1>5. ASSUME k.tool = "analyze", Own(c)' PROVE OnItsWay(j, selected', Readable', Readable')
  <2> DEFINE q == Kept(k.asked, Readable')
  <2>1. k.asked \in Seq(Names) /\ selected' = k.asked /\ j.got = <<>>
    BY <1>1, <1>3, <1>4, <1>5
  <2>2. <<>> \in Seq(Names) /\ q \in Seq(Names)
    BY <2>1, KeptElements
  <2>3. <<>> \o q = q
    BY <2>2
  <2>4. QED
    BY <1>3, <2>1, <2>2, <2>3 DEF OnItsWay
<1>6. Analyzing(c)'
  BY <1>3, <1>5 DEF Analyzing, j, OnItsWay
<1>7. QED
  BY <1>1, <1>3, <1>6 DEF Tracked, Exporting, Describing, ListingItems, ListingFiles, j

LEMMA EndOfListTracked == ASSUME ReadInv, TrackInv, NEW c \in Clients, EndOfList(c) PROVE Tracked(c)'
<1> DEFINE k == call[c]
           j == call'[c]
           answer == IF k.tool = "select" THEN "complete" ELSE "success"
<1>1. /\ DOMAIN k = Fields /\ k.tool \notin {"export", "describe", "dictionary", "files"}
      /\ selected = <<>>
      /\ k.tool = "analyze" /\ Own(c) => OnItsWay(k, selected, Readable, Readable)
  BY DEF ReadInv, TrackInv, Tracked, Exporting, Analyzing, Describing, ListingItems, ListingFiles, EndOfList, At
<1>2. /\ j = Answered(k, answer) /\ stored' = stored
      /\ c \notin crossed' => Own(c)
  BY StepCall, ClientsAssumption DEF EndOfList, ReadsList, Own
<1> HIDE DEF k, j, answer
<1>3. j.pc = "done" /\ j.asked = k.asked /\ j.tool = k.tool /\ j.got = k.got
  BY <1>1, <1>2, AnsweredFields
<1>4. ASSUME k.tool = "analyze", c \notin crossed' PROVE k.got = Kept(k.asked, Readable')
  <2>1. OnItsWay(k, <<>>, Readable, Readable)
    BY <1>1, <1>2, <1>4
  <2>2. k.got \in Seq(Names) /\ k.got \o <<>> = Kept(k.asked, Readable)
    BY <2>1, KeptEmpty DEF OnItsWay
  <2>3. k.got \o <<>> = k.got
    BY <2>2
  <2>4. QED
    BY <1>2, <2>2, <2>3, StoredSame
<1>5. Analyzing(c)'
  BY <1>3, <1>4 DEF Analyzing, j
<1>6. QED
  BY <1>1, <1>3, <1>5 DEF Tracked, Exporting, Describing, ListingItems, ListingFiles, j

\* The id that is fetched goes from the list to those to be read.
LEMMA FetchTracked == ASSUME ReadInv, TrackInv, NEW c \in Clients, Fetch(c) PROVE Tracked(c)'
<1> DEFINE k == call[c]
           j == call'[c]
           id == Head(selected)
           taken == [k EXCEPT !.got = Append(@, id)]
<1>1. /\ DOMAIN k = Fields /\ k.tool \notin {"export", "describe", "dictionary", "files"}
      /\ selected # <<>> /\ selected \in Seq(Names)
      /\ k.tool = "analyze" /\ Own(c) => OnItsWay(k, selected, Readable, Readable)
  BY DEF ReadInv, TrackInv, Tracked, Exporting, Analyzing, Describing, ListingItems, ListingFiles, Fetch, At
<1>2. /\ j = Fetched(k, id) /\ stored' = stored /\ selected' = Tail(selected)
      /\ Own(c)' => Own(c)
  BY StepCall, ClientsAssumption DEF Fetch, ReadsList, Own
<1>3. id \in Names /\ Tail(selected) \in Seq(Names) /\ selected = <<id>> \o Tail(selected)
  BY <1>1, HeadTail
<1> HIDE DEF k, j, id
<1>4. CASE k.tool = "analyze"
  <2>1. j = [k EXCEPT !.todo = <<id>>, !.pc = "reading"]
    BY <1>2, <1>4 DEF Fetched
  <2>2. j.pc = "reading" /\ j.todo = <<id>> /\ j.asked = k.asked /\ j.tool = k.tool /\ j.got = k.got
    BY <1>1, <2>1, FieldNames
  <2>3. ASSUME Own(c)' PROVE OnItsWay(j, <<id>> \o selected', Readable', Readable')
    <3>1. OnItsWay(k, selected, Readable, Readable) /\ <<id>> \o selected' = selected /\ Readable' = Readable
      BY <1>1, <1>2, <1>3, <1>4, <2>3, StoredSame
    <3>2. QED
      BY <2>2, <3>1 DEF OnItsWay
  <2>4. Analyzing(c)'
    BY <1>3, <2>2, <2>3 DEF Analyzing, j, OnItsWay
  <2>5. QED
    BY <1>4, <2>2, <2>4 DEF Tracked, Exporting, Describing, ListingItems, ListingFiles, j
<1>5. CASE k.tool # "analyze"
  <2>1. DOMAIN taken = Fields /\ taken.tool = k.tool
    BY <1>1, FieldNames
  <2>2. j = Answered(taken, "truncated") \/ j = taken
    BY <1>2, <1>5 DEF Fetched
  <2> HIDE DEF taken
  <2>3. j.tool = k.tool
    BY <2>1, <2>2, AnsweredFields
  <2>4. QED
    BY <1>1, <1>5, <2>3, OthersTracked DEF Trackers, j
<1>6. QED
  BY <1>4, <1>5

LEMMA OpenTracked == ASSUME ReadInv, TrackInv, NEW c \in Clients, Open(c) PROVE Tracked(c)'
<1> DEFINE k == call[c]
           j == call'[c]
           pc == CASE k.tool = "analyze"  -> "selecting"
                   [] k.tool = "describe" -> "listing"
                   [] OTHER               -> "reading"
<1>1. DOMAIN k = Fields /\ k.pc = "opening" /\ Tracked(c) /\ k.tool # "files"
  BY DEF ReadInv, TrackInv, Tracked, ListingFiles, Open, At
<1>2. /\ j = [k EXCEPT !.handle = cached'[FileOf(k.tool)], !.pc = pc]
      /\ stored' = stored /\ crossed' = crossed
  BY StepCall DEF Open
<1>3. /\ k.tool = "analyze" => pc = "selecting"
      /\ k.tool = "describe" => pc = "listing"
      /\ k.tool \in {"export", "dictionary"} => pc = "reading"
  OBVIOUS
<1> HIDE DEF k, j, pc
<1>4. /\ j.pc = pc /\ j.tool = k.tool /\ j.asked = k.asked /\ j.todo = k.todo
      /\ j.got = k.got /\ j.errors = k.errors
  BY <1>1, <1>2, FieldNames
<1>5. Readable' = Readable /\ Items' = Items
  BY <1>2, StoredSame
<1>6. Exporting(c)'
  BY <1>1, <1>2, <1>3, <1>4, <1>5 DEF Tracked, Exporting, OnItsWay, Succeeds, k, j
<1>7. Analyzing(c)'
  BY <1>1, <1>3, <1>4 DEF Tracked, Analyzing, k, j
<1>8. Describing(c)'
  BY <1>1, <1>3, <1>4 DEF Tracked, Describing, k, j
<1>9. ListingItems(c)'
  BY <1>1, <1>2, <1>3, <1>4 DEF Tracked, ListingItems, ItemsAccounted, Succeeds, k, j
<1>10. QED
  BY <1>1, <1>4, <1>6, <1>7, <1>8, <1>9 DEF Tracked, ListingFiles, k, j

\* A read takes the first id before the call, or passes over it if it may.
LEMMA ReadTracked == ASSUME ReadInv, TrackInv, NEW c \in Clients, Read(c) PROVE Tracked(c)'
<1> DEFINE k == call[c]
           j == call'[c]
           id == Head(k.todo)
           found == IF Alive(k.handle) THEN stored[id] ELSE "raises"
<1>1. /\ k.pc = "reading" /\ k.todo # <<>>
      /\ j.pc = (IF k.tool = "analyze" THEN "fetching" ELSE "reading")
      /\ j.tool = k.tool /\ j.asked = k.asked /\ j.todo = Tail(k.todo) /\ j.answer = k.answer
      /\ j.got = (IF Shown(k.tool, found) THEN Append(k.got, id) ELSE k.got)
      /\ j.errors = k.errors \/ j.errors = Append(k.errors, id)
      /\ k.tool = "dictionary" /\ found = "raises" => j.errors = Append(k.errors, id)
      /\ crossed' = (IF Alive(k.handle) THEN crossed ELSE crossed \cup {c})
      /\ owner' = owner /\ selected' = selected
  BY ReadDoes
<1>2. Tracked(c) /\ stored' = stored /\ stored \in Stores /\ selected \in Seq(Names)
  BY DEF TrackInv, Read, ReadInv
<1>3. /\ Readable' = Readable /\ Data' = Data /\ Items' = Items
      /\ \A x \in Names : stored[x] \in Kinds
  BY <1>2, StoredSame, StoresAssumption
<1>4. c \notin crossed' => c \notin crossed /\ found = stored[id]
  BY <1>1
<1>5. k.tool # "files"
  BY <1>1, <1>2 DEF Tracked, ListingFiles
\* What it takes is what it should.
<1>6. ASSUME NEW S, NEW W, NEW rest \in Seq(Names), id \in Names,
             OnItsWay(k, <<id>> \o rest, S, W), Shown(k.tool, found) <=> id \in S
      PROVE  OnItsWay(j, rest, S, W)
  <2> HIDE DEF k, j, id, found
  <2>1. k.asked \in Seq(Names) /\ k.got \in Seq(Names) /\ k.got \o Kept(<<id>> \o rest, S) = Kept(k.asked, W)
    BY <1>6 DEF OnItsWay
  <2> DEFINE g == k.got
  <2>2. g \in Seq(Names) /\ Append(g, id) \in Seq(Names)
    BY <1>6, <2>1
  <2>3. /\ id \in S => Append(g, id) \o Kept(rest, S) = g \o Kept(<<id>> \o rest, S)
        /\ id \notin S => g \o Kept(rest, S) = g \o Kept(<<id>> \o rest, S)
    <3> HIDE DEF g
    <3>1. g \in Seq(Names) /\ id \in Names /\ rest \in Seq(Names)
      BY <1>6, <2>2
    <3>2. QED
      BY <3>1, OneTaken
  <2>4. j.got = (IF id \in S THEN Append(g, id) ELSE g)
    BY <1>1, <1>6
  <2>5. j.got \in Seq(Names) /\ j.got \o Kept(rest, S) = Kept(k.asked, W)
    BY <2>1, <2>2, <2>3, <2>4
  <2>6. QED
    BY <1>1, <1>6, <2>5 DEF OnItsWay
<1>7. ASSUME k.todo \in Seq(Names)
      PROVE  id \in Names /\ Tail(k.todo) \in Seq(Names) /\ k.todo = <<id>> \o Tail(k.todo)
  <2> DEFINE t == k.todo
  <2>1. t \in Seq(Names) /\ t # <<>>
    BY <1>1, <1>7
  <2> HIDE DEF t
  <2>2. Head(t) \in Names /\ Tail(t) \in Seq(Names) /\ t = <<Head(t)>> \o Tail(t)
    BY <2>1, HeadTail
  <2>3. QED
    BY <2>2 DEF t
<1>8. Exporting(c)'
  <2>1. ASSUME k.tool = "export", c \notin crossed' PROVE OnItsWay(j, Tail(k.todo), Readable, Readable)
    <3>1. OnItsWay(k, k.todo, Readable, Readable)
      BY <1>1, <1>2, <1>4, <2>1 DEF Tracked, Exporting, Succeeds
    <3>2. id \in Names /\ Tail(k.todo) \in Seq(Names) /\ k.todo = <<id>> \o Tail(k.todo)
      BY <3>1, <1>7 DEF OnItsWay
    <3>3. found \in Kinds /\ found = stored[id]
      BY <1>3, <1>4, <2>1, <3>2
    <3>4. Shown(k.tool, found) <=> id \in Readable
      BY <2>1, <3>2, <3>3 DEF Shown, Readable, Kinds
    <3>5. OnItsWay(k, <<id>> \o Tail(k.todo), Readable, Readable)
      BY <3>1, <3>2
    <3> HIDE DEF k, j, id, found
    <3>6. QED
      BY <1>6, <3>2, <3>4, <3>5
  <2> HIDE DEF id, found
  <2>2. QED
    BY <1>1, <1>3, <2>1 DEF Exporting, OnItsWay
<1>9. Describing(c)'
  <2>1. ASSUME k.tool = "describe", c \notin crossed' PROVE OnItsWay(j, Tail(k.todo), Data, Items)
    <3>1. OnItsWay(k, k.todo, Data, Items)
      BY <1>1, <1>2, <1>4, <2>1 DEF Tracked, Describing, Succeeds
    <3>2. id \in Names /\ Tail(k.todo) \in Seq(Names) /\ k.todo = <<id>> \o Tail(k.todo)
      BY <3>1, <1>7 DEF OnItsWay
    <3>3. found \in Kinds /\ found = stored[id]
      BY <1>3, <1>4, <2>1, <3>2
    <3>4. Shown(k.tool, found) <=> id \in Data
      BY <2>1, <3>2, <3>3 DEF Shown, Data, Kinds
    <3>5. OnItsWay(k, <<id>> \o Tail(k.todo), Data, Items)
      BY <3>1, <3>2
    <3> HIDE DEF k, j, id, found
    <3>6. QED
      BY <1>6, <3>2, <3>4, <3>5
  <2> HIDE DEF id, found
  <2>2. QED
    BY <1>1, <1>3, <2>1 DEF Describing, OnItsWay
<1>10. Analyzing(c)'
  <2>1. ASSUME k.tool = "analyze", Own(c)' PROVE OnItsWay(j, selected, Readable, Readable)
    <3>1. Own(c)
      BY <1>1, <1>4, <2>1 DEF Own
    <3>2. PICK x \in Names : k.todo = <<x>> /\ OnItsWay(k, <<x>> \o selected, Readable, Readable)
      BY <1>1, <1>2, <2>1, <3>1 DEF Tracked, Analyzing
    <3>3. id = x
      BY <3>2
    <3>4. found \in Kinds /\ found = stored[id]
      BY <1>3, <1>4, <2>1, <3>3 DEF Own
    <3>5. Shown(k.tool, found) <=> id \in Readable
      BY <2>1, <3>3, <3>4 DEF Shown, Readable, Kinds
    <3> HIDE DEF k, j, id, found
    <3>6. QED
      BY <1>2, <1>6, <3>2, <3>3, <3>5
  <2> HIDE DEF id, found
  <2>2. QED
    BY <1>1, <1>3, <2>1 DEF Analyzing, OnItsWay
<1>11. ListingItems(c)'
  <2>1. ASSUME k.tool = "dictionary" PROVE ItemsAccounted(call[c])'
    <3>1. ItemsAccounted(k)
      BY <1>1, <1>2, <2>1 DEF Tracked, ListingItems, Succeeds
    <3>2. k.todo \in Seq(Names)
      BY <3>1 DEF ItemsAccounted
    <3>3. id \in Names /\ Tail(k.todo) \in Seq(Names)
      BY <1>7, <3>2
    <3>4. k.asked \in Seq(Names) /\ k.got \in Seq(Names) /\ k.errors \in Seq(Names)
      BY <3>1 DEF ItemsAccounted
    <3>5. found \in Kinds /\ (found # "raises" => found = stored[id])
      BY <1>3, <3>3 DEF Kinds
    <3>6. Shown(k.tool, found) \/ found = "raises" \/ stored[id] = "empty"
      BY <2>1, <3>5 DEF Shown, Kinds
    <3>7. ToSet(k.todo) = {id} \cup ToSet(Tail(k.todo))
      <4> DEFINE t == k.todo
      <4>1. t \in Seq(Names) /\ t # <<>>
        BY <1>1, <3>2
      <4> HIDE DEF t
      <4>2. ToSet(t) = {Head(t)} \cup ToSet(Tail(t))
        BY <4>1, TailSet
      <4>3. QED
        BY <4>2 DEF t
    <3> HIDE DEF k, j, id, found
    <3>8. /\ \A s \in Seq(Names) : Append(s, id) \in Seq(Names) /\ ToSet(Append(s, id)) = ToSet(s) \cup {id}
      BY <3>3, AppendSet
    <3>9. /\ j.got \in Seq(Names) /\ j.errors \in Seq(Names)
          /\ ToSet(k.got) \subseteq ToSet(j.got) /\ ToSet(k.errors) \subseteq ToSet(j.errors)
          /\ id \in ToSet(j.got) \cup ToSet(j.errors) \/ stored[id] = "empty"
      BY <1>1, <2>1, <3>4, <3>6, <3>8
    <3>10. {x \in ToSet(j.asked) \ (System \cup Verbs) : stored[x] # "empty"}
             \subseteq ToSet(j.got) \cup ToSet(j.errors) \cup ToSet(j.todo)
      BY <1>1, <3>1, <3>7, <3>9 DEF ItemsAccounted
    <3>11. QED
      BY <1>1, <1>2, <3>3, <3>4, <3>9, <3>10 DEF ItemsAccounted, j
  <2> HIDE DEF id, found
  <2>2. QED
    BY <1>1, <2>1 DEF ListingItems, ItemsAccounted
<1>12. QED
  BY <1>1, <1>5, <1>8, <1>9, <1>10, <1>11 DEF Tracked, ListingFiles

LEMMA ReadsEndTracked == ASSUME ReadInv, TrackInv, NEW c \in Clients, ReadsEnd(c) PROVE Tracked(c)'
<1> DEFINE k == call[c]
           j == call'[c]
<1>1. /\ DOMAIN k = Fields /\ k.pc = "reading" /\ k.todo = <<>> /\ Tracked(c)
      /\ stored' = stored /\ crossed' = crossed
  BY DEF ReadInv, TrackInv, ReadsEnd, At
<1>2. k.tool # "analyze"
  <2>1. \A x : <<x>> # <<>>
    OBVIOUS
  <2>2. QED
    BY <1>1, <2>1 DEF Tracked, Analyzing
<1>3. j = Failed(k) \/ j = Answered(k, "success")
  BY StepCall DEF ReadsEnd
<1>4. Readable' = Readable /\ Data' = Data /\ Items' = Items
  BY <1>1, StoredSame
<1> HIDE DEF k, j
<1>5. CASE j = Failed(k)
  <2>1. j.pc = "done" /\ j.answer = "error" /\ j.todo = <<>>
    BY <1>5, FailedFields
  <2>2. QED
    BY <2>1 DEF Tracked, Exporting, Analyzing, Describing, ListingItems, ListingFiles, Succeeds, j
<1>6. CASE j = Answered(k, "success")
  <2>1. /\ j.pc = "done" /\ j.tool = k.tool /\ j.asked = k.asked /\ j.todo = k.todo /\ j.todo = <<>>
        /\ j.got = k.got /\ j.errors = k.errors
    BY <1>1, <1>6, AnsweredFields
  <2>2. Exporting(c)'
    BY <1>1, <1>4, <2>1 DEF Tracked, Exporting, OnItsWay, Succeeds, k, j
  <2>3. Describing(c)'
    BY <1>1, <1>4, <2>1 DEF Tracked, Describing, OnItsWay, Succeeds, k, j
  <2>4. ListingItems(c)'
    BY <1>1, <2>1 DEF Tracked, ListingItems, ItemsAccounted, Succeeds, k, j
  <2>5. ListingFiles(c)'
    BY <1>1, <2>1 DEF Tracked, ListingFiles, k, j
  <2>6. QED
    BY <1>2, <2>1, <2>2, <2>3, <2>4, <2>5 DEF Tracked, Analyzing, j
<1>7. QED
  BY <1>3, <1>5, <1>6

-----------------------------------------------------------------------------
LEMMA TrackInit == Init => TrackInv
<1> SUFFICES ASSUME Init PROVE TrackInv
  OBVIOUS
<1>1. stored \in Stores /\ \A c \in Clients : call[c].tool = "none"
  BY DEF Init, NoCall
<1>2. QED
  BY <1>1, NotTracked DEF TrackInv, Trackers

LEMMA TrackStep == ReadInv /\ TrackInv /\ [Next]_vars => TrackInv'
<1> SUFFICES ASSUME ReadInv, TrackInv, [Next]_vars PROVE TrackInv'
  OBVIOUS
<1>1. stored' = stored
  BY StoredNext
<1>2. stored' \in Stores
  BY <1>1 DEF TrackInv
<1>3. ASSUME NEW d \in Clients,
             \/ \E tool \in ToolsOf[d] : Begin(d, tool)
             \/ Done(d) \/ Fails(d)
             \/ Query(d) \/ Stat(d) \/ List(d) \/ Select(d) \/ Cursor(d)
             \/ EndOfList(d) \/ Fetch(d)
             \/ Open(d) \/ Read(d) \/ ReadsEnd(d)
      PROVE  TrackInv'
  <2>1. Tracked(d)'
    BY <1>3, BeginTracked, DoneTracked, FailsTracked, QueryTracked, StatTracked, ListTracked,
       SelectTracked, CursorTracked, EndOfListTracked, FetchTracked, OpenTracked, ReadTracked,
       ReadsEndTracked
  <2>2. ASSUME NEW c \in Clients, c # d PROVE Tracked(c)'
    BY <1>1, <1>3, <2>2, OthersLeave, LeavesTracked
  <2>3. QED
    BY <1>2, <2>1, <2>2 DEF TrackInv
<1>4. CASE SessionDrops
  <2>1. \A c \in Clients : Leaves(c)
    BY <1>1, <1>4, QuietLeaves
  <2>2. QED
    BY <1>1, <1>2, <2>1, LeavesTracked DEF TrackInv
<1>5. CASE UNCHANGED vars
  <2>1. \A c \in Clients : Leaves(c)
    BY <1>1, <1>5, QuietLeaves
  <2>2. QED
    BY <1>1, <1>2, <2>1, LeavesTracked DEF TrackInv
<1>6. QED
  BY <1>3, <1>4, <1>5 DEF Next

ToolInv == ReadInv /\ TrackInv

LEMMA ToolInvariant == Spec => []ToolInv
<1>1. Init => ToolInv
  BY ReadInit, TrackInit DEF ToolInv
<1>2. ToolInv /\ [Next]_vars => ToolInv'
  BY ReadStep, TrackStep DEF ToolInv
<1>3. QED
  BY <1>1, <1>2, PTL DEF Spec

\* A batch read returns or reports each id it was asked for, once for each time it
\* was asked, whatever happens to the session meanwhile.
THEOREM BatchesAccount == Spec => [](\A c \in Clients : BatchAccounted(c))
<1>1. ReadInv => \A c \in Clients : BatchAccounted(c)
  BY BatchIsAccounted
<1>2. QED
  BY <1>1, ReadInit, ReadStep, PTL DEF Spec

\* A batch read and a dictionary listing return or report all they were asked for,
\* less empty items and those named like a listing verb, and a file listing has all
\* names but numbers and its own headings, whatever happens meanwhile.
THEOREM AllAccounted == Spec => []NothingDisappears
<1>1. ASSUME ToolInv, NEW c \in Clients PROVE BatchAccounted(c) /\ ListingAccounted(c)
  <2>1. BatchAccounted(c)
    BY <1>1, BatchIsAccounted DEF ToolInv
  <2>2. ASSUME Gives(c, "dictionary", "success")
        PROVE  {x \in ToSet(call[c].asked) \ (System \cup Verbs) : stored[x] # "empty"}
                 \subseteq ToSet(call[c].got) \cup ToSet(call[c].errors)
    <3>1. ItemsAccounted(call[c]) /\ call[c].todo = <<>>
      BY <1>1, <2>2 DEF ToolInv, TrackInv, Tracked, ListingItems, Succeeds, Gives, At
    <3>2. ToSet(call[c].todo) = {}
      BY <3>1 DEF ToSet
    <3>3. QED
      BY <3>1, <3>2 DEF ItemsAccounted
  <2>3. Gives(c, "files", "success") => ToSet(call[c].got) = ToSet(call[c].asked) \ (Numeric \cup Headings)
    BY <1>1 DEF ToolInv, TrackInv, Tracked, ListingFiles, Gives, At
  <2>4. QED
    BY <2>1, <2>2, <2>3 DEF ListingAccounted
<1>2. ToolInv => NothingDisappears
  BY <1>1 DEF NothingDisappears
<1>3. QED
  BY <1>2, ToolInvariant, PTL

\* An export has every record that can be read, an analysis every one of its sample,
\* and a description every item it shows, in their order, unless the list or the
\* handle of the call was lost on the way.
THEOREM SkipsOnlyUnreadable == Spec => []OnlyUnreadableSkipped
<1>1. ASSUME ToolInv, NEW c \in Clients \ crossed
      PROVE  /\ Gives(c, "export", "success") => call[c].got = Kept(call[c].asked, Readable)
             /\ Gives(c, "analyze", "success") => call[c].got = Kept(call[c].asked, Readable)
             /\ Gives(c, "describe", "success") => call[c].got = Kept(call[c].asked, Items)
  <2> DEFINE k == call[c]
  <2>1. ASSUME NEW S, NEW W, OnItsWay(k, <<>>, S, W) PROVE k.got = Kept(k.asked, W)
    <3>1. k.got \in Seq(Names) /\ k.got \o <<>> = Kept(k.asked, W)
      BY <2>1, KeptEmpty DEF OnItsWay
    <3> HIDE DEF k
    <3>2. QED
      BY <3>1
  <2>2. Tracked(c)
    BY <1>1 DEF ToolInv, TrackInv
  <2>3. ASSUME Gives(c, "export", "success") PROVE k.got = Kept(k.asked, Readable)
    <3>1. OnItsWay(k, <<>>, Readable, Readable)
      BY <1>1, <2>2, <2>3 DEF Tracked, Exporting, Succeeds, Gives, At
    <3>2. QED
      BY <2>1, <3>1
  <2>4. ASSUME Gives(c, "describe", "success") PROVE k.got = Kept(k.asked, Items)
    <3>1. OnItsWay(k, <<>>, Data, Items)
      BY <1>1, <2>2, <2>4 DEF Tracked, Describing, Succeeds, Gives, At
    <3>2. QED
      BY <2>1, <3>1
  <2>5. Gives(c, "analyze", "success") => k.got = Kept(k.asked, Readable)
    BY <1>1, <2>2 DEF Tracked, Analyzing, Gives, At
  <2>6. QED
    BY <2>3, <2>4, <2>5
<1>2. ToolInv => OnlyUnreadableSkipped
  BY <1>1 DEF OnlyUnreadableSkipped, Items
<1>3. QED
  BY <1>2, ToolInvariant, PTL
=============================================================================
