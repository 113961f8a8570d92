----------------------- MODULE KnowledgeStoreProofs -----------------------
(***************************************************************************)
(* However many servers share the file and whichever of them are killed,   *)
(* no topic comes from a header line that save_topic escapes, and no topic *)
(* gets two sections but one that content may have forged; and servers     *)
(* that take turns keep what each other saved and find it again by the     *)
(* name it was saved under.                                                *)
(*                                                                         *)
(* Every operation writes the file it read with one section replaced by    *)
(* none, one or two others, or with one or two more at its end.  What such *)
(* a splice does to the order of the sections is shown first; then what it *)
(* does to topics, to notes and to the topic a name resolves to.           *)
(***************************************************************************)
EXTENDS KnowledgeStore, SequenceTheorems, WellFoundedInduction, TLAPS

-----------------------------------------------------------------------------
(* Looking sections up.                                                    *)

LEMMA MinExists ==
  ASSUME NEW S, S \subseteq Nat, S # {}
  PROVE  Min(S) \in S /\ \A y \in S : Min(S) <= y
<1> DEFINE R == OpToRel(<, Nat)
<1>1. PICK x \in S : \A y \in S : ~(<<y, x>> \in R)
  <2> HIDE DEF R
  <2>1. IsWellFoundedOn(R, Nat)
    BY NatLessThanWellFounded DEF R
  <2> QED
    BY <2>1, WFMin
<1>2. \A y \in S : x <= y
  <2> SUFFICES ASSUME NEW y \in S PROVE x <= y
    OBVIOUS
  <2>1. x \in Nat /\ y \in Nat
    OBVIOUS
  <2>2. ~(y < x)
    BY <1>1, <2>1 DEF OpToRel
  <2> QED
    BY <2>1, <2>2
<1> QED
  BY <1>2 DEF Min

\* IndexOf finds a section of the topic, and is 0 if there is none.
LEMMA Indexed ==
  ASSUME NEW f \in Seq(SectionSet), NEW t
  PROVE  /\ t \in TopicsOf(f) => IndexOf(f, t) \in DOMAIN f /\ f[IndexOf(f, t)].topic = t
                                /\ IndexOf(f, t) # 0
         /\ t \notin TopicsOf(f) => IndexOf(f, t) = 0
<1> DEFINE S == {i \in DOMAIN f : f[i].topic = t}
<1>1. t \in TopicsOf(f) => S \subseteq Nat /\ S # {}
  BY DEF TopicsOf
<1>2. t \in TopicsOf(f) => Min(S) \in S
  <2> HIDE DEF S
  <2> QED
    BY <1>1, MinExists
<1>3. \A i \in DOMAIN f : i # 0
  OBVIOUS
<1> QED
  BY <1>2, <1>3 DEF IndexOf

\* The first section whose topic starts with the first word of n.
First(f, n, i) ==
  /\ i \in DOMAIN f
  /\ <<f[i].topic, n>> \in Starts
  /\ \A j \in DOMAIN f : <<f[j].topic, n>> \in Starts => i <= j

\* The name n is resolved to t, which has a section.
Settles(f, n, t) ==
  /\ t \in TopicsOf(f)
  /\ t = n \/ (n \notin TopicsOf(f) /\ \E i : First(f, n, i) /\ f[i].topic = t)

LEMMA Resolved ==
  ASSUME NEW f \in Seq(SectionSet), NEW n
  PROVE  /\ Resolve(f, n) \in TopicsOf(f) => Settles(f, n, Resolve(f, n))
         /\ Resolve(f, n) \notin TopicsOf(f) => Resolve(f, n) = n
         /\ \A t : Settles(f, n, t) => Resolve(f, n) = t
<1> DEFINE S == {i \in DOMAIN f : <<f[i].topic, n>> \in Starts}
<1>1. S \subseteq Nat /\ S \subseteq DOMAIN f
  OBVIOUS
<1>2. Resolve(f, n) = IF n \in TopicsOf(f) \/ S = {} THEN n ELSE f[Min(S)].topic
  BY DEF Resolve
<1>3. \A i : First(f, n, i) <=> i \in S /\ \A j \in S : i <= j
  BY DEF First
<1> HIDE DEF S
<1>4. S # {} => First(f, n, Min(S)) /\ Min(S) \in DOMAIN f
  BY <1>1, <1>3, MinExists
<1>5. \A i : First(f, n, i) => S # {} /\ i = Min(S)
  <2> SUFFICES ASSUME NEW i, First(f, n, i) PROVE S # {} /\ i = Min(S)
    OBVIOUS
  <2>1. i \in S /\ i <= Min(S) /\ Min(S) <= i /\ Min(S) \in S
    BY <1>1, <1>3, MinExists
  <2>2. i \in Nat /\ Min(S) \in Nat
    BY <1>1, <2>1
  <2> QED
    BY <2>1, <2>2
<1>6. S # {} => f[Min(S)].topic \in TopicsOf(f)
  BY <1>4 DEF TopicsOf
<1> QED
  BY <1>2, <1>4, <1>5, <1>6 DEF Settles

-----------------------------------------------------------------------------
(* Sections in the place of one, or at the end.                            *)

\* Where the entries of three concatenated sequences go.
Joins(S, a, m, b, g) ==
  /\ g \in Seq(S) /\ Len(g) = Len(a) + Len(m) + Len(b)
  /\ \A k \in 1..Len(a) : g[k] = a[k]
  /\ \A k \in 1..Len(m) : g[Len(a) + k] = m[k]
  /\ \A k \in 1..Len(b) : g[Len(a) + Len(m) + k] = b[k]

Join(a, m, b) == a \o m \o b

LEMMA Concatenated ==
  ASSUME NEW S, NEW a \in Seq(S), NEW m \in Seq(S), NEW b \in Seq(S)
  PROVE  Joins(S, a, m, b, Join(a, m, b))
<1> DEFINE g == Join(a, m, b)
<1> DEFINE h == a \o m
<1>1. /\ h \in Seq(S) /\ Len(h) = Len(a) + Len(m)
      /\ \A k \in 1..Len(a) + Len(m) : h[k] = IF k <= Len(a) THEN a[k] ELSE m[k - Len(a)]
  BY ConcatProperties
<1>2. g = h \o b
  BY DEF Join
<1>3. Len(a) \in Nat /\ Len(m) \in Nat /\ Len(b) \in Nat
  OBVIOUS
<1> HIDE DEF h, g
<1>4. /\ g \in Seq(S) /\ Len(g) = Len(h) + Len(b)
      /\ \A k \in 1..Len(h) + Len(b) : g[k] = IF k <= Len(h) THEN h[k] ELSE b[k - Len(h)]
  <2>1. h \in Seq(S)
    BY <1>1
  <2>2. /\ h \o b \in Seq(S) /\ Len(h \o b) = Len(h) + Len(b)
        /\ \A k \in 1..Len(h) + Len(b) : (h \o b)[k] = IF k <= Len(h) THEN h[k] ELSE b[k - Len(h)]
    BY <2>1, ConcatProperties
  <2> QED
    BY <1>2, <2>2
<1>5. \A k \in 1..Len(a) : g[k] = a[k]
  BY <1>1, <1>3, <1>4
<1>6. \A k \in 1..Len(m) : g[Len(a) + k] = m[k]
  <2> SUFFICES ASSUME NEW k \in 1..Len(m) PROVE g[Len(a) + k] = m[k]
    OBVIOUS
  <2> DEFINE j == Len(a) + k
  <2>1. j \in 1..Len(a) + Len(m) /\ ~(j <= Len(a)) /\ j - Len(a) = k /\ j <= Len(h)
        /\ j \in 1..Len(h) + Len(b)
    BY <1>1, <1>3
  <2> HIDE DEF j
  <2>2. h[j] = m[k] /\ g[j] = h[j]
    BY <1>1, <1>4, <2>1
  <2> QED
    BY <2>2 DEF j
<1>7. \A k \in 1..Len(b) : g[Len(a) + Len(m) + k] = b[k]
  <2> SUFFICES ASSUME NEW k \in 1..Len(b) PROVE g[Len(a) + Len(m) + k] = b[k]
    OBVIOUS
  <2> DEFINE j == Len(a) + Len(m) + k
  <2>1. j \in 1..Len(h) + Len(b) /\ ~(j <= Len(h)) /\ j - Len(h) = k
    BY <1>1, <1>3
  <2> HIDE DEF j
  <2>2. g[j] = b[k]
    BY <1>4, <2>1
  <2> QED
    BY <2>2 DEF j
<1> QED
  BY <1>1, <1>4, <1>5, <1>6, <1>7 DEF Joins, g

\* The two ends of a sequence around one of its entries.
LEMMA Ends ==
  ASSUME NEW S, NEW f \in Seq(S), NEW i \in 1..Len(f)
  PROVE  /\ SubSeq(f, 1, i - 1) \in Seq(S) /\ Len(SubSeq(f, 1, i - 1)) = i - 1
         /\ \A k \in 1..(i - 1) : SubSeq(f, 1, i - 1)[k] = f[k]
         /\ SubSeq(f, i + 1, Len(f)) \in Seq(S) /\ Len(SubSeq(f, i + 1, Len(f))) = Len(f) - i
         /\ \A k \in 1..(Len(f) - i) : SubSeq(f, i + 1, Len(f))[k] = f[k + i]
OBVIOUS

\* The file with sections m for section i, or at the end if i is 0.
Splice(f, i, m) == IF i = 0 THEN f \o m ELSE Replaced(f, i, m)

\* Where the sections of f but i, and those of m, stand in g.
Moved(f, i, m, g, new, at) ==
  /\ \A k \in DOMAIN f \ {i} : new[k] \in DOMAIN g /\ g[new[k]] = f[k]
  /\ \A k \in DOMAIN m : at[k] \in DOMAIN g /\ g[at[k]] = m[k]
  /\ \A k \in DOMAIN g :
       (\E j \in DOMAIN f \ {i} : k = new[j]) \/ (\E j \in DOMAIN m : k = at[j])
  /\ \A j, k \in DOMAIN f \ {i} : j < k => new[j] < new[k]
  /\ \A j \in DOMAIN f \ {i}, k \in DOMAIN m :
       IF i = 0 \/ j < i THEN new[j] < at[k] ELSE at[k] < new[j]

LEMMA SpliceMoves ==
  ASSUME NEW f \in Seq(SectionSet), NEW m \in Seq(SectionSet),
         NEW i, i = 0 \/ i \in DOMAIN f, NEW g, g = Splice(f, i, m)
  PROVE  g \in Seq(SectionSet) /\ \E new, at : Moved(f, i, m, g, new, at)
<1> DEFINE p == IF i = 0 THEN Len(f) + 1 ELSE i
           d == IF i = 0 THEN 0 ELSE 1
<1>1. /\ Len(f) \in Nat /\ Len(m) \in Nat /\ DOMAIN f = 1..Len(f) /\ DOMAIN m = 1..Len(m)
      /\ p \in 1..(Len(f) + 1) /\ i \in Nat
      /\ i # 0 => i \in 1..Len(f)
  OBVIOUS
<1>2. /\ g \in Seq(SectionSet) /\ Len(g) = Len(f) - d + Len(m)
      /\ \A k \in 1..(p - 1) : g[k] = f[k]
      /\ \A k \in 1..Len(m) : g[p - 1 + k] = m[k]
      /\ \A k \in (p + d)..Len(f) : g[k - d + Len(m)] = f[k]
  <2>1. CASE i = 0
    <3>1. /\ f \o m \in Seq(SectionSet) /\ Len(f \o m) = Len(f) + Len(m)
          /\ \A k \in 1..(Len(f) + Len(m)) : (f \o m)[k] = IF k <= Len(f) THEN f[k] ELSE m[k - Len(f)]
      BY ConcatProperties
    <3>2. g = f \o m /\ p = Len(f) + 1 /\ d = 0
      BY <2>1 DEF Splice
    <3>3. \A k \in 1..Len(m) : /\ Len(f) + k \in 1..(Len(f) + Len(m)) /\ ~(Len(f) + k <= Len(f))
                               /\ (Len(f) + k) - Len(f) = k /\ p - 1 + k = Len(f) + k
      BY <1>1, <3>2
    <3> QED
      BY <1>1, <3>1, <3>2, <3>3
  <2>2. CASE i # 0
    <3> DEFINE a == SubSeq(f, 1, i - 1)
               b == SubSeq(f, i + 1, Len(f))
    <3>1. /\ a \in Seq(SectionSet) /\ Len(a) = i - 1 /\ \A k \in 1..(i - 1) : a[k] = f[k]
          /\ b \in Seq(SectionSet) /\ Len(b) = Len(f) - i
          /\ \A k \in 1..(Len(f) - i) : b[k] = f[k + i]
      BY <1>1, <2>2, Ends
    <3>2. g = Join(a, m, b) /\ p = i /\ d = 1
      BY <2>2 DEF Splice, Replaced, Join
    <3> HIDE DEF a, b, p, d
    <3>3. Joins(SectionSet, a, m, b, Join(a, m, b))
      BY <3>1, Concatenated, Zenon
    <3>4. /\ g \in Seq(SectionSet) /\ Len(g) = Len(a) + Len(m) + Len(b)
          /\ \A k \in 1..Len(a) : g[k] = a[k]
          /\ \A k \in 1..Len(m) : g[Len(a) + k] = m[k]
          /\ \A k \in 1..Len(b) : g[Len(a) + Len(m) + k] = b[k]
      BY <3>2, <3>3 DEF Joins
    <3>5. ASSUME NEW k \in (i + 1)..Len(f) PROVE g[k - 1 + Len(m)] = f[k]
      <4> DEFINE l == k - i
      <4>1. l \in 1..(Len(f) - i) /\ l + i = k /\ Len(a) + Len(m) + l = k - 1 + Len(m)
        BY <1>1, <2>2, <3>1
      <4> HIDE DEF l
      <4> QED
        BY <3>1, <3>4, <4>1
    <3>6. \A k \in 1..(i - 1) : g[k] = f[k]
      BY <3>1, <3>4
    <3>7. \A k \in 1..Len(m) : g[i - 1 + k] = m[k]
      BY <3>1, <3>4
    <3>8. Len(g) = Len(f) - 1 + Len(m)
      BY <1>1, <2>2, <3>1, <3>4
    <3> QED
      BY <3>2, <3>4, <3>5, <3>6, <3>7, <3>8
  <2> QED
    BY <2>1, <2>2
<1> DEFINE new == [k \in DOMAIN f \ {i} |-> IF k < p THEN k ELSE k - d + Len(m)]
           at == [k \in DOMAIN m |-> p - 1 + k]
<1>3. DOMAIN g = 1..(Len(f) - d + Len(m)) /\ d \in {0, 1} /\ p + d \in 1..(Len(f) + 1)
      /\ (i = 0 => p = Len(f) + 1 /\ d = 0) /\ (i # 0 => p = i /\ d = 1)
  BY <1>1, <1>2
<1> HIDE DEF p, d
<1>4. ASSUME NEW k \in DOMAIN f \ {i} PROVE new[k] \in DOMAIN g /\ g[new[k]] = f[k]
  <2>1. CASE k < p
    BY <1>1, <1>2, <1>3, <2>1
  <2>2. CASE ~(k < p)
    <3>1. k \in (p + d)..Len(f) /\ new[k] = k - d + Len(m)
      BY <1>1, <1>3, <2>2
    <3> QED
      BY <1>1, <1>2, <1>3, <3>1
  <2> QED
    BY <2>1, <2>2
<1>5. ASSUME NEW k \in DOMAIN m PROVE at[k] \in DOMAIN g /\ g[at[k]] = m[k]
  BY <1>1, <1>2, <1>3
<1>6. ASSUME NEW k \in DOMAIN g
      PROVE  (\E j \in DOMAIN f \ {i} : k = new[j]) \/ (\E j \in DOMAIN m : k = at[j])
  <2>0. k \in 1..(Len(f) - d + Len(m)) /\ k \in Nat
    BY <1>1, <1>3
  <2>1. CASE k < p
    <3>1. k \in DOMAIN f \ {i} /\ new[k] = k
      BY <1>1, <1>3, <2>0, <2>1
    <3> QED
      BY <3>1
  <2>2. CASE p <= k /\ k < p + Len(m)
    <3>1. k - p + 1 \in DOMAIN m /\ at[k - p + 1] = k
      BY <1>1, <2>0, <2>2
    <3> QED
      BY <3>1
  <2>3. CASE p + Len(m) <= k
    <3> DEFINE j == k - Len(m) + d
    <3>1. j \in (p + d)..Len(f)
      BY <1>1, <1>3, <2>0, <2>3
    <3>2. j \in DOMAIN f \ {i} /\ ~(j < p) /\ j - d + Len(m) = k
      BY <1>1, <1>3, <2>0, <3>1
    <3> HIDE DEF j
    <3>3. new[j] = k
      BY <3>2
    <3> QED
      BY <3>2, <3>3
  <2> QED
    BY <1>1, <1>3, <2>0, <2>1, <2>2, <2>3
<1>7. \A j, k \in DOMAIN f \ {i} : j < k => new[j] < new[k]
  BY <1>1, <1>3
<1>8. \A j \in DOMAIN f \ {i}, k \in DOMAIN m :
        IF i = 0 \/ j < i THEN new[j] < at[k] ELSE at[k] < new[j]
  BY <1>1, <1>3
<1> HIDE DEF new, at
<1>9. Moved(f, i, m, g, new, at)
  <2>1. \A k \in DOMAIN f \ {i} : new[k] \in DOMAIN g /\ g[new[k]] = f[k]
    BY <1>4, Zenon
  <2>2. \A k \in DOMAIN m : at[k] \in DOMAIN g /\ g[at[k]] = m[k]
    BY <1>5, Zenon
  <2>3. \A k \in DOMAIN g :
         (\E j \in DOMAIN f \ {i} : k = new[j]) \/ (\E j \in DOMAIN m : k = at[j])
    BY <1>6, Zenon
  <2> QED
    BY <1>7, <1>8, <2>1, <2>2, <2>3, Zenon DEF Moved
<1> QED
  BY <1>2, <1>9

-----------------------------------------------------------------------------
(* What a splice does to topics, to notes and to what a name resolves to.  *)

\* The topics of f are among N or F, and those not in F have one section.
Sound(f, N, F) ==
  /\ TopicsOf(f) \subseteq N \cup F
  /\ \A i, j \in DOMAIN f : f[i].topic = f[j].topic /\ f[i].topic \notin F => i = j

\* Sections m are about t, but for a second one about a topic of F.
Inserts(m, t, F) ==
  /\ m \in Seq(SectionSet)
  /\ \A k \in DOMAIN m : m[k].topic \in F \/ (k = 1 /\ m[k].topic = t)

\* Section i of f is about t, or i is 0 and no section is.
Finds(f, t, i) ==
  /\ i = 0 => t \notin TopicsOf(f)
  /\ i # 0 => i \in DOMAIN f /\ f[i].topic = t

LEMMA SpliceSound ==
  ASSUME NEW N, NEW F, NEW f \in Seq(SectionSet), Sound(f, N, F),
         NEW t \in N \cup F, NEW i, Finds(f, t, i), NEW m, Inserts(m, t, F),
         NEW g, g = Splice(f, i, m)
  PROVE  Sound(g, N, F)
<1>1. PICK new, at : Moved(f, i, m, g, new, at)
  BY SpliceMoves DEF Finds, Inserts
<1>2. \A k \in DOMAIN f : f[k].topic \in N \cup F
  BY DEF Sound, TopicsOf
<1>3. ASSUME NEW k \in DOMAIN g PROVE g[k].topic \in N \cup F
  BY <1>1, <1>2 DEF Moved, Inserts
<1>4. ASSUME NEW k \in DOMAIN g, NEW l \in DOMAIN g,
             g[k].topic = g[l].topic, g[k].topic \notin F
      PROVE  k = l
  <2>1. ASSUME NEW j \in DOMAIN f \ {i} PROVE f[j].topic # t \/ t \in F
    <3>1. i # 0 => i \in DOMAIN f /\ f[i].topic = t
      BY DEF Finds
    <3>2. i = 0 => f[j].topic # t
      BY DEF Finds, TopicsOf
    <3> QED
      BY <3>1, <3>2 DEF Sound
  <2>2. ASSUME NEW x \in DOMAIN g, g[x].topic \notin F
        PROVE  \/ \E j \in DOMAIN f \ {i} : x = new[j] /\ g[x] = f[j]
               \/ 1 \in DOMAIN m /\ x = at[1] /\ g[x].topic = t
    BY <1>1, <2>2 DEF Moved, Inserts
  <2>3. CASE 1 \in DOMAIN m /\ k = at[1] /\ g[k].topic = t
    BY <1>4, <2>1, <2>2, <2>3
  <2>4. CASE \E j \in DOMAIN f \ {i} : k = new[j] /\ g[k] = f[j]
    <3>1. PICK j \in DOMAIN f \ {i} : k = new[j] /\ g[k] = f[j]
      BY <2>4
    <3>2. PICK h \in DOMAIN f \ {i} : l = new[h] /\ g[l] = f[h]
      BY <1>4, <2>1, <2>2, <3>1
    <3>3. j = h
      BY <1>4, <3>1, <3>2 DEF Sound
    <3> QED
      BY <3>1, <3>2, <3>3
  <2> QED
    BY <1>4, <2>2, <2>3, <2>4
<1> QED
  BY <1>3, <1>4 DEF Sound, TopicsOf

\* The file has note k[2] under topic k[1].
Has(f, k) == \E i \in DOMAIN f : f[i].topic = k[1] /\ k[2] \in f[i].notes

\* Other topics keep their notes, and t has those of its new section.
LEMMA SpliceHas ==
  ASSUME NEW f \in Seq(SectionSet), NEW t, NEW i, Finds(f, t, i), NEW m \in Seq(SectionSet),
         NEW g, g = Splice(f, i, m)
  PROVE  /\ \A k : /\ Has(f, k)
                  /\ \/ k[1] # t
                     \/ 1 \in DOMAIN m /\ m[1].topic = t /\ (i # 0 => f[i].notes \subseteq m[1].notes)
                  => Has(g, k)
         /\ \A x : 1 \in DOMAIN m /\ m[1].topic = t /\ x \in m[1].notes => Has(g, <<t, x>>)
<1>1. PICK new, at : Moved(f, i, m, g, new, at)
  BY SpliceMoves DEF Finds
<1>2. 1 \in DOMAIN m => at[1] \in DOMAIN g /\ g[at[1]] = m[1]
  BY <1>1 DEF Moved
<1>3. ASSUME NEW x, 1 \in DOMAIN m, m[1].topic = t, x \in m[1].notes
      PROVE  Has(g, <<t, x>>)
  BY <1>2, <1>3 DEF Has
<1>4. ASSUME NEW k, Has(f, k),
             \/ k[1] # t
             \/ 1 \in DOMAIN m /\ m[1].topic = t /\ (i # 0 => f[i].notes \subseteq m[1].notes)
      PROVE  Has(g, k)
  <2>1. PICK j \in DOMAIN f : f[j].topic = k[1] /\ k[2] \in f[j].notes
    BY <1>4 DEF Has
  <2>2. CASE j # i
    <3>1. new[j] \in DOMAIN g /\ g[new[j]] = f[j]
      BY <1>1, <2>2 DEF Moved
    <3> QED
      BY <2>1, <3>1 DEF Has
  <2>3. CASE j = i
    <3>1. i # 0 /\ f[i].topic = t
      BY <2>3 DEF Finds
    <3> QED
      BY <1>2, <1>4, <2>1, <2>3, <3>1 DEF Has
  <2> QED
    BY <2>2, <2>3
<1> QED
  BY <1>3, <1>4

\* No topic of F is taken for what is called n.
Clear(F, n) == \A h \in F : h # n /\ <<h, n>> \notin Starts

\* A name keeps its topic while the topic has a section.
LEMMA SpliceSettles ==
  ASSUME NEW F, NEW f \in Seq(SectionSet), NEW t, NEW i, Finds(f, t, i),
         NEW m, Inserts(m, t, F), NEW g, g = Splice(f, i, m),
         NEW n, Clear(F, n), NEW u, Settles(f, n, u), i = 0 => n # t,
         u # t \/ (1 \in DOMAIN m /\ m[1].topic = t)
  PROVE  Settles(g, n, u)
<1>1. PICK new, at : Moved(f, i, m, g, new, at)
  BY SpliceMoves DEF Finds, Inserts
<1>2. u \in TopicsOf(g)
  <2>1. PICK j \in DOMAIN f : f[j].topic = u
    BY DEF Settles, TopicsOf
  <2>2. CASE j # i
    <3>1. new[j] \in DOMAIN g /\ g[new[j]] = f[j]
      BY <1>1, <2>2 DEF Moved
    <3> QED
      BY <2>1, <3>1 DEF TopicsOf
  <2>3. CASE j = i
    <3>1. u = t
      BY <2>1, <2>3 DEF Finds
    <3>2. at[1] \in DOMAIN g /\ g[at[1]] = m[1]
      BY <1>1, <3>1 DEF Moved
    <3> QED
      BY <3>1, <3>2 DEF TopicsOf
  <2> QED
    BY <2>2, <2>3
<1>3. CASE u = n
  BY <1>2, <1>3 DEF Settles
<1>4. CASE u # n
  <2>1. n \notin TopicsOf(f)
    BY <1>4 DEF Settles
  <2>2. PICK p : First(f, n, p) /\ f[p].topic = u
    BY <1>4 DEF Settles
  <2>3. n \notin TopicsOf(g)
    <3> SUFFICES ASSUME NEW k \in DOMAIN g, g[k].topic = n PROVE FALSE
      BY DEF TopicsOf
    <3>1. n # t
      BY <2>1 DEF Finds, TopicsOf
    <3>2. \A j \in DOMAIN m : m[j].topic # n
      BY <3>1 DEF Inserts, Clear
    <3>3. \A j \in DOMAIN f : f[j].topic # n
      BY <2>1 DEF TopicsOf
    <3> QED
      BY <1>1, <3>2, <3>3 DEF Moved
  <2> DEFINE q == IF p = i THEN at[1] ELSE new[p]
  <2>4. q \in DOMAIN g /\ g[q].topic = u
    <3>1. CASE p = i
      <4>1. u = t
        BY <2>2, <3>1 DEF First, Finds
      <4> QED
        BY <1>1, <3>1, <4>1 DEF Moved
    <3>2. CASE p # i
      BY <1>1, <2>2, <3>2 DEF Moved, First
    <3> QED
      BY <3>1, <3>2
  <2>5. <<u, n>> \in Starts
    BY <2>2 DEF First
  <2>6. g \in Seq(SectionSet) /\ DOMAIN g \subseteq Nat /\ DOMAIN f \subseteq Nat
    BY SpliceMoves DEF Finds, Inserts
  <2>7. ASSUME NEW k \in DOMAIN g, <<g[k].topic, n>> \in Starts
        PROVE  q <= k
    <3>1. CASE \E j \in DOMAIN f \ {i} : k = new[j]
      <4>1. PICK j \in DOMAIN f \ {i} : k = new[j]
        BY <3>1
      <4>2. g[k] = f[j]
        BY <1>1, <4>1 DEF Moved
      <4>3. p <= j /\ p \in DOMAIN f
        BY <2>2, <2>7, <4>2 DEF First
      <4>4. CASE p = j
        BY <2>6, <4>1, <4>4
      <4>5. CASE p < j /\ p # i
        <5>1. new[p] < new[j]
          BY <1>1, <4>1, <4>3, <4>5 DEF Moved
        <5> QED
          BY <2>4, <2>6, <4>1, <4>5, <5>1
      <4>6. CASE p < j /\ p = i
        <5>1. 1 \in DOMAIN m /\ i # 0 /\ ~(j < i)
          BY <2>2, <2>6, <4>1, <4>3, <4>6 DEF Finds
        <5>2. at[1] < new[j]
          BY <1>1, <4>1, <5>1 DEF Moved
        <5> QED
          BY <2>4, <2>6, <4>1, <4>6, <5>2
      <4> QED
        BY <2>6, <4>1, <4>3, <4>4, <4>5, <4>6
    <3>2. CASE \E j \in DOMAIN m : k = at[j]
      <4>1. PICK j \in DOMAIN m : k = at[j]
        BY <3>2
      <4>2. g[k] = m[j]
        BY <1>1, <4>1 DEF Moved
      <4>3. j = 1 /\ m[1].topic = t
        BY <2>7, <4>1, <4>2 DEF Inserts, Clear
      <4>4. CASE p = i
        BY <2>4, <2>6, <4>1, <4>3, <4>4
      <4>5. CASE p # i
        <5>1. i # 0 => p <= i
          BY <2>2, <2>7, <4>2, <4>3 DEF Finds, First
        <5>2. p \in DOMAIN f /\ (i # 0 => i \in DOMAIN f)
          BY <2>2 DEF First, Finds
        <5>3. i = 0 \/ p < i
          BY <2>6, <4>5, <5>1, <5>2
        <5>4. new[p] < at[1]
          BY <1>1, <4>1, <4>3, <4>5, <5>2, <5>3 DEF Moved
        <5> QED
          BY <2>4, <2>6, <4>1, <4>3, <4>5, <5>4
      <4> QED
        BY <4>4, <4>5
    <3> QED
      BY <1>1, <3>1, <3>2 DEF Moved
  <2> HIDE DEF q
  <2>8. First(g, n, q)
    BY <2>4, <2>5, <2>7 DEF First
  <2> QED
    BY <1>2, <2>3, <2>4, <2>8 DEF Settles
<1> QED
  BY <1>3, <1>4

-----------------------------------------------------------------------------
(* What the callers hold has its type.                                     *)

Saving(c) == op[c] \in {"save", "append"}

\* A header line that is not escaped is among those that may become topics.
Declared(o, x, F) == x.header = None \/ x.header \in F \/ (o = "save" /\ ~x.bare)

Fits(c) ==
  /\ pc[c] = "idle" => op[c] = "none"
  /\ pc[c] # "idle" => op[c] # "none" /\ name[c] \in Names
  /\ Saving(c) => /\ content[c] \in Contents
                  /\ Declared(op[c], content[c], forgeable)
                  /\ name[c] \in named
  /\ pc[c] \in {"opening", "writing"} =>
       /\ Saving(c) \/ (op[c] = "delete" /\ IndexOf(existing[c], target[c]) # 0)
       /\ target[c] \in Names

TypedInv == TypeOK /\ \A c \in Callers : Fits(c)

LEMMA EntryTyped ==
  ASSUME NEW f \in Seq(SectionSet)
  PROVE  /\ TopicsOf(f) \subseteq Names
         /\ \A i \in DOMAIN f : f[i] \in SectionSet /\ f[i].topic \in Names /\ f[i].notes \in SUBSET Notes
<1>1. \A i \in DOMAIN f : f[i] \in SectionSet
  OBVIOUS
<1>2. \A s \in SectionSet : s.topic \in Names /\ s.notes \in SUBSET Notes
  BY DEF SectionSet
<1> QED
  BY <1>1, <1>2 DEF TopicsOf

LEMMA IndexFinds ==
  ASSUME NEW f \in Seq(SectionSet), NEW t
  PROVE  Finds(f, t, IndexOf(f, t)) /\ (IndexOf(f, t) # 0 => t \in TopicsOf(f))
BY Indexed DEF Finds

\* Content makes one section of the topic, or two.
LEMMA SectionsInsert ==
  ASSUME NEW t \in Names, NEW ns \in SUBSET Notes, NEW x \in Contents,
         NEW F, x.header \in F \cup {None}
  PROVE  /\ Inserts(Sections(t, ns, x), t, F)
         /\ 1 \in DOMAIN Sections(t, ns, x)
         /\ Sections(t, ns, x)[1].topic = t
         /\ Sections(t, ns, x)[1].notes = ns \cup {x.note}
<1> DEFINE s == [topic |-> t, notes |-> ns \cup {x.note}]
           h == [topic |-> x.header, notes |-> {x.note}]
<1>1. s \in SectionSet /\ x.note \in Notes /\ x.header \in Names \cup {None}
  BY DEF SectionSet, Contents
<1>2. x.header # None => h \in SectionSet /\ h.topic \in F
  BY <1>1 DEF SectionSet
<1>3. Sections(t, ns, x) = IF x.header = None THEN <<s>> ELSE <<s, h>>
  BY DEF Sections
<1>4. s.topic = t /\ s.notes = ns \cup {x.note}
  OBVIOUS
<1> HIDE DEF s, h
<1>5. CASE x.header = None
  <2>1. Sections(t, ns, x) = <<s>>
    BY <1>3, <1>5
  <2> QED
    BY <1>1, <1>4, <2>1 DEF Inserts
<1>6. CASE x.header # None
  <2>1. Sections(t, ns, x) = <<s, h>>
    BY <1>3, <1>6
  <2>2. DOMAIN <<s, h>> = {1, 2} /\ <<s, h>>[1] = s /\ <<s, h>>[2] = h
    OBVIOUS
  <2>3. <<s, h>> \in Seq(SectionSet)
    BY <1>1, <1>2, <1>6
  <2> QED
    BY <1>1, <1>2, <1>4, <1>6, <2>1, <2>2, <2>3 DEF Inserts
<1> QED
  BY <1>5, <1>6

LEMMA NeutralizedFits ==
  ASSUME NEW x \in Contents
  PROVE  /\ Neutralized(x) \in Contents /\ Neutralized(x).note = x.note /\ x.note \in Notes
         /\ Neutralized(x).header = None \/ (Neutralized(x).header = x.header /\ x.bare)
BY DEF Contents, Neutralized

\* Sections m, written in the place of section i, are what c's operation makes of
\* its topic.
Writes(c, i, m) ==
  /\ NewFile(c) = Splice(existing[c], i, m)
  /\ Finds(existing[c], target[c], i)
  /\ Inserts(m, target[c], forgeable)
  /\ op[c] = "delete" => i # 0
  /\ Saving(c) => /\ 1 \in DOMAIN m /\ m[1].topic = target[c]
                  /\ content[c].note \in m[1].notes /\ content[c].note \in Notes
  /\ op[c] = "append" /\ i # 0 => existing[c][i].notes \subseteq m[1].notes

LEMMA NewFileWrites ==
  ASSUME TypedInv, NEW c \in Callers, pc[c] \in {"opening", "writing"}
  PROVE  \E i, m : Writes(c, i, m)
<1> DEFINE f == existing[c]
           t == target[c]
           x == content[c]
           i == IndexOf(f, t)
<1>1. /\ f \in Seq(SectionSet) /\ t \in Names
      /\ Saving(c) => x \in Contents /\ Declared(op[c], x, forgeable)
      /\ op[c] \in {"save", "append", "delete"}
      /\ op[c] = "delete" => i # 0
  BY DEF TypedInv, TypeOK, Fits, Saving
<1>2. Finds(f, t, i)
  BY <1>1, IndexFinds
<1>3. i # 0 => f[i].notes \in SUBSET Notes
  BY <1>1, <1>2, EntryTyped DEF Finds
<1>4. CASE op[c] = "delete"
  <2> DEFINE m == <<>>
  <2>1. NewFile(c) = Splice(f, i, m)
    BY <1>1, <1>4 DEF NewFile, Deleted, Splice
  <2>2. Inserts(m, t, forgeable)
    BY DEF Inserts
  <2> HIDE DEF m, i
  <2>3. Writes(c, i, m)
    BY <1>1, <1>2, <1>4, <2>1, <2>2 DEF Writes, Saving
  <2> QED
    BY <2>3
<1>5. CASE Saving(c)
  <2> DEFINE y == IF op[c] = "save" \/ i = 0 THEN Neutralized(x) ELSE x
             ns == IF op[c] = "save" \/ i = 0 THEN {} ELSE f[i].notes
             m == Sections(t, ns, y)
  <2>1. NewFile(c) = Splice(f, i, m)
    BY <1>5 DEF NewFile, Saved, Appended, Splice, Saving
  <2>2. y \in Contents /\ y.note = x.note /\ y.note \in Notes /\ y.header \in forgeable \cup {None}
    <3>1. Neutralized(x).header \in forgeable \cup {None}
      BY <1>1, <1>5, NeutralizedFits DEF Declared
    <3>2. op[c] # "save" => x.header \in forgeable \cup {None}
      BY <1>1, <1>5 DEF Declared
    <3> QED
      BY <1>1, <1>5, <3>1, <3>2, NeutralizedFits
  <2>3. ns \in SUBSET Notes /\ (op[c] = "append" /\ i # 0 => ns = f[i].notes)
    BY <1>3
  <2>a. t \in Names /\ m = Sections(t, ns, y)
    BY <1>1
  <2> HIDE DEF y, ns, i, t, m
  <2>4. /\ Inserts(m, t, forgeable) /\ 1 \in DOMAIN m /\ m[1].topic = t
        /\ m[1].notes = ns \cup {y.note}
    BY <2>a, <2>2, <2>3, SectionsInsert
  <2>5. Writes(c, i, m)
    BY <1>2, <1>5, <2>1, <2>2, <2>3, <2>4 DEF Writes, Saving, t
  <2> QED
    BY <2>5
<1> QED
  BY <1>1, <1>4, <1>5 DEF Saving

LEMMA InitTyped == Init => TypedInv
<1> SUFFICES ASSUME Init PROVE TypedInv
  OBVIOUS
<1>1. <<>> \in Seq(SectionSet)
  OBVIOUS
<1>2. TypeOK
  BY <1>1 DEF Init, TypeOK
<1>3. \A c \in Callers : Fits(c)
  BY DEF Init, Fits, Saving
<1> QED
  BY <1>2, <1>3 DEF TypedInv

LEMMA BeginTyped ==
  ASSUME TypedInv, NEW c \in Callers, NEW o \in {"save", "append", "delete", "get"},
         NEW n \in Names, NEW x \in Contents \cup {None}, Begin(c, o, n, x),
         named \subseteq named', named' \subseteq Names,
         forgeable \subseteq forgeable', forgeable' \subseteq Names,
         o \in {"save", "append"} =>
           x \in Contents /\ n \in named' /\ Declared(o, x, forgeable')
  PROVE  TypedInv'
<1>1. /\ pc' = [pc EXCEPT ![c] = "matching"] /\ op' = [op EXCEPT ![c] = o]
      /\ name' = [name EXCEPT ![c] = n] /\ content' = [content EXCEPT ![c] = x]
      /\ existing' = [existing EXCEPT ![c] = file] /\ result' = [result EXCEPT ![c] = {}]
      /\ raced' = (raced \/ \E d \in Callers \ {c} : pc[d] # "idle")
      /\ known' = (IF raced' THEN {} ELSE known)
      /\ told' = (IF raced' THEN {} ELSE told)
      /\ file' = file /\ target' = target
  BY DEF Begin
<1>2. TypeOK'
  BY <1>1 DEF TypedInv, TypeOK
<1>3. ASSUME NEW d \in Callers PROVE Fits(d)'
  <2>1. CASE d = c
    <3>1. pc'[d] = "matching" /\ op'[d] = o /\ name'[d] = n /\ content'[d] = x
      BY <1>1, <2>1 DEF TypedInv, TypeOK
    <3> QED
      BY <3>1 DEF Fits, Saving, Declared
  <2>2. CASE d # c
    <3>1. /\ pc'[d] = pc[d] /\ op'[d] = op[d] /\ name'[d] = name[d] /\ content'[d] = content[d]
          /\ existing'[d] = existing[d] /\ target'[d] = target[d]
      BY <1>1, <2>2 DEF TypedInv, TypeOK
    <3> QED
      BY <3>1 DEF TypedInv, Fits, Saving, Declared, IndexOf, TopicsOf
  <2> QED
    BY <2>1, <2>2
<1> QED
  BY <1>2, <1>3 DEF TypedInv

LEMMA ReturnTyped ==
  ASSUME TypedInv, NEW c \in Callers, Return(c), asked' = asked,
         file' \in Seq(SectionSet), result' \in [Callers -> SUBSET Notes],
         known' \subseteq Names \X Notes, told' \subseteq Names \X Names, raced' \in BOOLEAN
  PROVE  TypedInv'
<1>1. /\ pc' = [pc EXCEPT ![c] = "idle"] /\ op' = [op EXCEPT ![c] = "none"]
      /\ name' = [name EXCEPT ![c] = None] /\ content' = [content EXCEPT ![c] = None]
      /\ existing' = [existing EXCEPT ![c] = <<>>]
      /\ target' = [target EXCEPT ![c] = None]
      /\ named' = named /\ forgeable' = forgeable
  BY DEF Return, asked
<1>2. <<>> \in Seq(SectionSet)
  OBVIOUS
<1>3. TypeOK'
  BY <1>1, <1>2 DEF TypedInv, TypeOK
<1>4. ASSUME NEW d \in Callers PROVE Fits(d)'
  <2>1. CASE d = c
    <3>1. pc'[d] = "idle" /\ op'[d] = "none"
      BY <1>1, <2>1 DEF TypedInv, TypeOK
    <3> QED
      BY <3>1 DEF Fits, Saving
  <2>2. CASE d # c
    <3>1. /\ pc'[d] = pc[d] /\ op'[d] = op[d] /\ name'[d] = name[d] /\ content'[d] = content[d]
          /\ existing'[d] = existing[d] /\ target'[d] = target[d]
      BY <1>1, <2>2 DEF TypedInv, TypeOK
    <3>2. IndexOf(existing[d], target[d])' = IndexOf(existing[d], target[d])
      BY <3>1 DEF IndexOf, TopicsOf
    <3>3. Saving(d)' <=> Saving(d)
      BY <3>1 DEF Saving
    <3>4. Declared(op[d], content[d], forgeable)' <=> Declared(op[d], content[d], forgeable)
      BY <1>1, <3>1 DEF Declared
    <3> QED
      BY <1>1, <3>1, <3>2, <3>3, <3>4 DEF TypedInv, Fits
  <2> QED
    BY <2>1, <2>2
<1> QED
  BY <1>3, <1>4 DEF TypedInv

\* What a caller is told is that a topic has a note, and which topic a name has.
LEMMA AnswerTyped ==
  ASSUME TypedInv, NEW c \in Callers, pc[c] = "writing"
  PROVE  KnownAfter(c) \subseteq Names \X Notes /\ ToldAfter(c) \subseteq Names \X Names
<1>1. /\ known \subseteq Names \X Notes /\ told \subseteq Names \X Names
      /\ name[c] \in Names /\ target[c] \in Names
      /\ op[c] \in {"save", "append", "delete"}
  BY DEF TypedInv, TypeOK, Fits, Saving
<1>2. Saving(c) => content[c].note \in Notes
  BY NeutralizedFits DEF TypedInv, Fits
<1> QED
  BY <1>1, <1>2 DEF KnownAfter, ToldAfter, Saving

LEMMA StepTyped ==
  ASSUME TypedInv, [Next]_vars
  PROVE  TypedInv'
<1>1. ASSUME NEW c \in Callers, NEW n \in Names, NEW x \in SavedContent, SaveTopic(c, n, x)
      PROVE  TypedInv'
  <2>1. x \in Contents /\ (x.bare => x.header \in Names)
    BY ContentAssumption DEF Contents
  <2>2. /\ named \subseteq named' /\ named' \subseteq Names /\ n \in named'
        /\ forgeable \subseteq forgeable' /\ forgeable' \subseteq Names
        /\ x.bare => x.header \in forgeable'
    BY <1>1, <2>1 DEF SaveTopic, TypedInv, TypeOK
  <2> QED
    BY <1>1, <2>1, <2>2, BeginTyped DEF SaveTopic, Declared
<1>2. ASSUME NEW c \in Callers, NEW n \in Names, NEW x \in AppendedContent, AppendTopic(c, n, x)
      PROVE  TypedInv'
  <2>1. x \in Contents /\ x.header \in Names \cup {None}
    BY ContentAssumption DEF Contents
  <2>2. /\ named \subseteq named' /\ named' \subseteq Names /\ n \in named'
        /\ forgeable \subseteq forgeable' /\ forgeable' \subseteq Names
        /\ x.header # None => x.header \in forgeable'
    BY <1>2, <2>1 DEF AppendTopic, TypedInv, TypeOK
  <2> QED
    BY <1>2, <2>1, <2>2, BeginTyped DEF AppendTopic, Declared
<1>3. ASSUME NEW c \in Callers, NEW n \in Names, DeleteTopic(c, n) \/ GetTopic(c, n)
      PROVE  TypedInv'
  <2>1. named' = named /\ forgeable' = forgeable /\ named \subseteq Names /\ forgeable \subseteq Names
    BY <1>3 DEF DeleteTopic, GetTopic, asked, TypedInv, TypeOK
  <2> QED
    BY <1>3, <2>1, BeginTyped DEF DeleteTopic, GetTopic
<1>4. ASSUME NEW c \in Callers, MatchTopic(c) PROVE TypedInv'
  <2> DEFINE t == Resolve(file, name[c])
             i == IndexOf(existing[c], t)
  <2>1. /\ file' = file /\ asked' = asked /\ known' = known /\ told' = told /\ raced' = raced
        /\ pc[c] = "matching"
    BY <1>4 DEF MatchTopic, answers
  <2>2. existing[c] \in Seq(SectionSet) /\ file \in Seq(SectionSet) /\ name[c] \in Names
    BY <2>1 DEF TypedInv, TypeOK, Fits
  <2>3. t \in Names
    BY <2>2, Resolved, EntryTyped
  <2>4. i # 0 => existing[c][i].notes \in SUBSET Notes
    BY <2>2, IndexFinds, EntryTyped DEF Finds
  <2> HIDE DEF t, i
  <2>5. CASE Return(c)
    <3>1. result' \in [Callers -> SUBSET Notes]
      BY <1>4, <2>4 DEF MatchTopic, Found, TypedInv, TypeOK, t, i
    <3> QED
      BY <2>1, <2>2, <2>5, <3>1, ReturnTyped DEF TypedInv, TypeOK
  <2>6. CASE ~Return(c)
    <3>1. /\ op[c] \in {"save", "append", "delete"} /\ (op[c] = "delete" => i # 0)
          /\ target' = [target EXCEPT ![c] = t] /\ pc' = [pc EXCEPT ![c] = "opening"]
          /\ op' = op /\ name' = name /\ content' = content /\ existing' = existing
          /\ result' = result /\ named' = named /\ forgeable' = forgeable
      BY <1>4, <2>1, <2>6 DEF MatchTopic, call, asked, t, i
    <3>2. TypeOK'
      BY <2>1, <2>3, <3>1 DEF TypedInv, TypeOK
    <3>3. ASSUME NEW d \in Callers PROVE Fits(d)'
      <4>1. CASE d = c
        <5>1. /\ pc'[d] = "opening" /\ target'[d] = t /\ op'[d] = op[d] /\ name'[d] = name[d]
              /\ content'[d] = content[d] /\ existing'[d] = existing[d]
          BY <3>1, <4>1 DEF TypedInv, TypeOK
        <5>2. op[d] = "delete" => IndexOf(existing'[d], target'[d]) # 0
          BY <3>1, <4>1, <5>1 DEF i
        <5>3. /\ Saving(d)' = Saving(d) /\ (Saving(d) \/ op[d] = "delete")
              /\ Fits(d) /\ pc[d] = "matching"
          BY <2>1, <3>1, <4>1, <5>1 DEF Saving, TypedInv
        <5>4. IndexOf(existing[d], target[d])' = IndexOf(existing'[d], target'[d])
          BY DEF IndexOf, TopicsOf
        <5>5. Declared(op[d], content[d], forgeable)' = Declared(op[d], content[d], forgeable)
          BY <3>1 DEF Declared
        <5> QED
          BY <2>3, <3>1, <5>1, <5>2, <5>3, <5>4, <5>5 DEF Fits
      <4>2. CASE d # c
        <5>1. /\ pc'[d] = pc[d] /\ op'[d] = op[d] /\ name'[d] = name[d] /\ content'[d] = content[d]
              /\ existing'[d] = existing[d] /\ target'[d] = target[d]
          BY <3>1, <4>2 DEF TypedInv, TypeOK
        <5> QED
          BY <3>1, <5>1 DEF TypedInv, Fits, Saving, Declared, IndexOf, TopicsOf
      <4> QED
        BY <4>1, <4>2
    <3> QED
      BY <3>2, <3>3 DEF TypedInv
  <2> QED
    BY <2>5, <2>6
<1>5. ASSUME NEW c \in Callers, OpenFile(c) PROVE TypedInv'
  <2>1. /\ file' = <<>> /\ pc' = [pc EXCEPT ![c] = "writing"] /\ pc[c] = "opening"
        /\ op' = op /\ name' = name /\ content' = content /\ existing' = existing
        /\ target' = target /\ named' = named /\ forgeable' = forgeable
        /\ result' = result /\ known' = known /\ told' = told /\ raced' = raced
    BY <1>5 DEF OpenFile, call, asked, answers
  <2>2. <<>> \in Seq(SectionSet)
    OBVIOUS
  <2>3. TypeOK'
    BY <2>1, <2>2 DEF TypedInv, TypeOK
  <2>4. ASSUME NEW d \in Callers PROVE Fits(d)'
    <3>1. /\ pc'[d] = (IF d = c THEN "writing" ELSE pc[d]) /\ op'[d] = op[d] /\ name'[d] = name[d]
          /\ content'[d] = content[d] /\ existing'[d] = existing[d] /\ target'[d] = target[d]
      BY <2>1 DEF TypedInv, TypeOK
    <3>2. IndexOf(existing[d], target[d])' = IndexOf(existing[d], target[d])
      BY <3>1 DEF IndexOf, TopicsOf
    <3> QED
      BY <2>1, <3>1, <3>2 DEF TypedInv, Fits, Saving, Declared
  <2> QED
    BY <2>3, <2>4 DEF TypedInv
<1>6. ASSUME NEW c \in Callers, WriteFile(c) PROVE TypedInv'
  <2>1. /\ file' = NewFile(c) /\ pc[c] = "writing" /\ Return(c) /\ asked' = asked
        /\ known' = KnownAfter(c) /\ told' = ToldAfter(c) /\ result' = result /\ raced' = raced
    BY <1>6 DEF WriteFile
  <2>2. PICK i, m : Writes(c, i, m)
    BY <2>1, NewFileWrites
  <2>3. existing[c] \in Seq(SectionSet)
    BY DEF TypedInv, TypeOK
  <2>4. file' \in Seq(SectionSet)
    BY <2>1, <2>2, <2>3, SpliceMoves DEF Writes, Finds, Inserts
  <2> QED
    BY <2>1, <2>4, AnswerTyped, ReturnTyped DEF TypedInv, TypeOK
<1>7. ASSUME NEW c \in Callers, Crash(c) PROVE TypedInv'
  <2>1. file' = file /\ Return(c) /\ asked' = asked /\ known' = {} /\ told' = {}
        /\ result' = result /\ raced' = TRUE
    BY <1>7 DEF Crash
  <2> QED
    BY <2>1, ReturnTyped DEF TypedInv, TypeOK
<1>8. CASE UNCHANGED vars
  BY <1>8 DEF vars, call, asked, answers, TypedInv, TypeOK, Fits, Saving, Declared, IndexOf, TopicsOf
<1> QED
  BY <1>1, <1>2, <1>3, <1>4, <1>5, <1>6, <1>7, <1>8 DEF Next

\* Every read finds a file of topics with sets of notes, every result is a set
\* of notes and every operation about to write has a topic, whatever header
\* lines content has and whoever is killed in the middle.
THEOREM KnowledgeTypeOK == Spec => []TypeOK
<1>1. TypedInv => TypeOK
  BY DEF TypedInv
<1> QED
  BY <1>1, InitTyped, StepTyped, PTL DEF Spec

-----------------------------------------------------------------------------
(* Topics: the file, and every copy of it a caller still works from, has   *)
(* only topics that were asked for or may be forged, and each of the       *)
(* others once.                                                            *)

SoundInv ==
  /\ TypedInv
  /\ Sound(file, named, forgeable)
  /\ \A c \in Callers :
       /\ Sound(existing[c], named, forgeable)
       /\ pc[c] \in {"opening", "writing"} => target[c] \in named \cup forgeable

\* More names and more header lines make no file less sound.
LEMMA SoundMonotone ==
  ASSUME NEW f, NEW N, NEW F, NEW NN, NEW FF, Sound(f, N, F), N \subseteq NN, F \subseteq FF
  PROVE  Sound(f, NN, FF)
BY DEF Sound

LEMMA EmptySound == \A N, F : Sound(<<>>, N, F)
BY DEF Sound, TopicsOf

LEMMA InitSound == Init => SoundInv
<1> SUFFICES ASSUME Init PROVE SoundInv
  OBVIOUS
<1>1. /\ file = <<>> /\ \A c \in Callers : existing[c] = <<>> /\ pc[c] = "idle"
  BY DEF Init
<1> QED
  BY <1>1, InitTyped, EmptySound DEF SoundInv

\* A step that gives no caller a new topic keeps the copies sound if each is what
\* it was, the file, or empty.
LEMMA CopiesSound ==
  ASSUME SoundInv, TypedInv', named \subseteq named', forgeable \subseteq forgeable',
         Sound(file', named', forgeable'),
         \A d \in Callers : existing'[d] \in {existing[d], file, <<>>},
         \A d \in Callers : pc'[d] \in {"opening", "writing"} =>
           \/ pc[d] \in {"opening", "writing"} /\ target'[d] = target[d]
           \/ target'[d] \in named \cup forgeable
  PROVE  SoundInv'
<1>1. ASSUME NEW d \in Callers PROVE Sound(existing'[d], named', forgeable')
  <2>1. Sound(existing[d], named', forgeable')
    BY SoundMonotone DEF SoundInv
  <2>2. Sound(file, named', forgeable')
    BY SoundMonotone DEF SoundInv
  <2>3. existing'[d] = existing[d] \/ existing'[d] = file \/ existing'[d] = <<>>
    OBVIOUS
  <2> QED
    BY <2>1, <2>2, <2>3, EmptySound
<1>2. ASSUME NEW d \in Callers, pc'[d] \in {"opening", "writing"}
      PROVE  target'[d] \in named' \cup forgeable'
  BY <1>2 DEF SoundInv
<1>3. Sound(file, named, forgeable)'
  BY DEF Sound, TopicsOf
<1>4. \A d \in Callers : Sound(existing[d], named, forgeable)'
  BY <1>1 DEF Sound, TopicsOf
<1> QED
  BY <1>2, <1>3, <1>4 DEF SoundInv

\* A caller that goes idle forgets its copy.
LEMMA ReturnSound ==
  ASSUME SoundInv, TypedInv', NEW c \in Callers, Return(c), asked' = asked,
         Sound(file', named, forgeable)
  PROVE  SoundInv'
<1>1. /\ \A d \in Callers : existing'[d] = IF d = c THEN <<>> ELSE existing[d]
      /\ \A d \in Callers : pc'[d] = IF d = c THEN "idle" ELSE pc[d]
      /\ \A d \in Callers : d # c => target'[d] = target[d]
  BY DEF Return, SoundInv, TypedInv, TypeOK
<1>2. named' = named /\ forgeable' = forgeable
  BY DEF asked
<1>3. Sound(file', named', forgeable')
  BY <1>2
<1> QED
  BY <1>1, <1>2, <1>3, CopiesSound

LEMMA BeginSound ==
  ASSUME SoundInv, TypedInv', NEW c \in Callers, NEW o, NEW n, NEW x, Begin(c, o, n, x),
         named \subseteq named', forgeable \subseteq forgeable'
  PROVE  SoundInv'
<1>1. /\ \A d \in Callers : existing'[d] = IF d = c THEN file ELSE existing[d]
      /\ \A d \in Callers : pc'[d] = IF d = c THEN "matching" ELSE pc[d]
      /\ target' = target /\ file' = file
  BY DEF Begin, SoundInv, TypedInv, TypeOK
<1>2. Sound(file', named', forgeable')
  BY <1>1, SoundMonotone DEF SoundInv
<1> QED
  BY <1>1, <1>2, CopiesSound

LEMMA StepSound ==
  ASSUME SoundInv, [Next]_vars
  PROVE  SoundInv'
<1>0. TypedInv /\ TypedInv'
  BY StepTyped DEF SoundInv
<1>1. ASSUME NEW c \in Callers, NEW n \in Names, NEW x \in SavedContent, SaveTopic(c, n, x)
      PROVE  SoundInv'
  BY <1>0, <1>1, BeginSound DEF SaveTopic
<1>2. ASSUME NEW c \in Callers, NEW n \in Names, NEW x \in AppendedContent, AppendTopic(c, n, x)
      PROVE  SoundInv'
  BY <1>0, <1>2, BeginSound DEF AppendTopic
<1>3. ASSUME NEW c \in Callers, NEW n \in Names, DeleteTopic(c, n) \/ GetTopic(c, n)
      PROVE  SoundInv'
  BY <1>0, <1>3, BeginSound DEF DeleteTopic, GetTopic, asked
<1>4. ASSUME NEW c \in Callers, MatchTopic(c) PROVE SoundInv'
  <2> DEFINE t == Resolve(file, name[c])
             i == IndexOf(existing[c], t)
  <2>1. file' = file /\ asked' = asked /\ Sound(file', named, forgeable)
    BY <1>4 DEF MatchTopic, SoundInv
  <2>2. CASE Return(c)
    BY <1>0, <2>1, <2>2, ReturnSound
  <2>3. CASE ~Return(c)
    <3>1. /\ op[c] \in {"save", "append", "delete"} /\ (op[c] = "delete" => i # 0)
          /\ target' = [target EXCEPT ![c] = t] /\ pc' = [pc EXCEPT ![c] = "opening"]
          /\ existing' = existing /\ named' = named /\ forgeable' = forgeable
      BY <1>4, <2>1, <2>3 DEF MatchTopic, call, asked
    <3>2. /\ existing[c] \in Seq(SectionSet) /\ file \in Seq(SectionSet)
          /\ TopicsOf(existing[c]) \subseteq named \cup forgeable
          /\ TopicsOf(file) \subseteq named \cup forgeable
      BY DEF SoundInv, TypedInv, TypeOK, Sound
    <3>3. t \in named \cup forgeable
      <4>1. t \in TopicsOf(file) \/ t = name[c]
        BY <3>2, Resolved
      <4>2. op[c] = "delete" => t \in TopicsOf(existing[c])
        BY <3>1, <3>2, IndexFinds
      <4>3. op[c] # "delete" => name[c] \in named
        BY <3>1 DEF SoundInv, TypedInv, Fits, Saving
      <4> QED
        BY <3>2, <4>1, <4>2, <4>3
    <3> HIDE DEF t, i
    <3>4. \A d \in Callers : pc'[d] \in {"opening", "writing"} =>
            \/ pc[d] \in {"opening", "writing"} /\ target'[d] = target[d]
            \/ target'[d] \in named \cup forgeable
      BY <3>1, <3>3 DEF SoundInv, TypedInv, TypeOK
    <3>5. Sound(file', named', forgeable')
      BY <2>1, <3>1
    <3> QED
      BY <1>0, <3>1, <3>4, <3>5, CopiesSound
  <2> QED
    BY <2>2, <2>3
<1>5. ASSUME NEW c \in Callers, OpenFile(c) PROVE SoundInv'
  <2>1. /\ file' = <<>> /\ pc' = [pc EXCEPT ![c] = "writing"] /\ pc[c] = "opening"
        /\ existing' = existing /\ target' = target /\ named' = named /\ forgeable' = forgeable
    BY <1>5 DEF OpenFile, call, asked
  <2>2. Sound(file', named', forgeable')
    BY <2>1, EmptySound
  <2>3. \A d \in Callers : pc'[d] \in {"opening", "writing"} => pc[d] \in {"opening", "writing"}
    BY <2>1 DEF SoundInv, TypedInv, TypeOK
  <2> QED
    BY <1>0, <2>1, <2>2, <2>3, CopiesSound
<1>6. ASSUME NEW c \in Callers, WriteFile(c) PROVE SoundInv'
  <2>1. file' = NewFile(c) /\ pc[c] = "writing" /\ Return(c) /\ asked' = asked
    BY <1>6 DEF WriteFile
  <2>2. PICK i, m : Writes(c, i, m)
    BY <1>0, <2>1, NewFileWrites
  <2>3. /\ existing[c] \in Seq(SectionSet) /\ Sound(existing[c], named, forgeable)
        /\ target[c] \in named \cup forgeable
    BY <2>1 DEF SoundInv, TypedInv, TypeOK
  <2>4. Sound(file', named, forgeable)
    BY <2>1, <2>2, <2>3, SpliceSound DEF Writes
  <2> QED
    BY <1>0, <2>1, <2>4, ReturnSound
<1>7. ASSUME NEW c \in Callers, Crash(c) PROVE SoundInv'
  <2>1. file' = file /\ Return(c) /\ asked' = asked
    BY <1>7 DEF Crash
  <2> QED
    BY <1>0, <2>1, ReturnSound DEF SoundInv
<1>8. CASE UNCHANGED vars
  <2>1. /\ file' = file /\ existing' = existing /\ pc' = pc /\ target' = target
        /\ named' = named /\ forgeable' = forgeable
    BY <1>8 DEF vars, call, asked
  <2>2. Sound(file', named', forgeable')
    BY <2>1 DEF SoundInv
  <2> QED
    BY <1>0, <2>1, <2>2, CopiesSound
<1> QED
  BY <1>1, <1>2, <1>3, <1>4, <1>5, <1>6, <1>7, <1>8 DEF Next

\* However many servers write and whichever are killed, every topic of the file is
\* one that somebody asked to save, or one whose header stood in content where
\* save_topic does not escape it.
THEOREM NoForgedTopic == Spec => []NothingForged
<1>1. SoundInv => NothingForged
  BY DEF SoundInv, Sound, NothingForged
<1> QED
  BY <1>1, InitSound, StepSound, PTL DEF Spec

\* No other topic ever has two sections (save_topic replaces the section it finds,
\* and otherwise adds the only one of its name).
THEOREM NoDuplicateTopic == Spec => []TopicsUnique
<1>1. SoundInv => TopicsUnique
  BY DEF SoundInv, Sound, TopicsUnique
<1> QED
  BY <1>1, InitSound, StepSound, PTL DEF Spec

-----------------------------------------------------------------------------
(* What callers were told, as long as they take turns: the notes are in    *)
(* the file, or in the copy the only busy caller has read, and a name has  *)
(* the topic they were told it has.                                        *)

\* The file f bears out what callers were told, K of notes and T of names.
Good(f, K, T, F) ==
  /\ \A k \in K : Has(f, k)
  /\ \A p \in T : Clear(F, p[1]) => Settles(f, p[1], p[2])

TurnsInv ==
  /\ \A c, d \in Callers : pc[c] # "idle" /\ pc[d] # "idle" => c = d
  /\ (\A c \in Callers : pc[c] # "writing") => Good(file, known, told, forgeable)
  /\ \A c \in Callers :
       /\ pc[c] # "idle" => Good(existing[c], known, told, forgeable)
       /\ pc[c] \in {"matching", "opening"} => existing[c] = file
       /\ pc[c] \in {"opening", "writing"} => target[c] = Resolve(existing[c], name[c])

KeptInv == SoundInv /\ (~raced => TurnsInv)

LEMMA GoodMonotone ==
  ASSUME NEW f, NEW K, NEW T, NEW F, NEW FF, Good(f, K, T, F), F \subseteq FF
  PROVE  Good(f, K, T, FF)
BY DEF Good, Clear

\* The file an operation writes bears out what its caller is told, and what callers
\* were told before of other topics.
LEMMA NewFileGood ==
  ASSUME TypedInv, NEW c \in Callers, pc[c] = "writing", ~raced,
         Good(existing[c], known, told, forgeable), target[c] = Resolve(existing[c], name[c])
  PROVE  Good(NewFile(c), KnownAfter(c), ToldAfter(c), forgeable)
<1> DEFINE f == existing[c]
           t == target[c]
           g == NewFile(c)
<1>1. f \in Seq(SectionSet) /\ op[c] \in {"save", "append", "delete"} /\ told \subseteq Names \X Names
  BY DEF TypedInv, TypeOK, Fits, Saving
<1>2. PICK i, m : Writes(c, i, m)
  BY NewFileWrites
<1>3. /\ g = Splice(f, i, m) /\ Finds(f, t, i) /\ Inserts(m, t, forgeable) /\ m \in Seq(SectionSet)
      /\ op[c] = "delete" => i # 0
      /\ Saving(c) => 1 \in DOMAIN m /\ m[1].topic = t /\ content[c].note \in m[1].notes
      /\ op[c] = "append" /\ i # 0 => f[i].notes \subseteq m[1].notes
  BY <1>2 DEF Writes, Inserts
<1>4. /\ \A k \in known : Has(f, k)
      /\ \A p \in told : Clear(forgeable, p[1]) => Settles(f, p[1], p[2])
      /\ t = Resolve(f, name[c])
  BY DEF Good
<1> HIDE DEF f, t, g
<1>5. /\ \A k : Has(f, k) /\ k[1] # t => Has(g, k)
      /\ op[c] = "append" => \A k : Has(f, k) => Has(g, k)
      /\ Saving(c) => Has(g, <<t, content[c].note>>)
  <2>1. \A k : /\ Has(f, k)
               /\ \/ k[1] # t
                  \/ 1 \in DOMAIN m /\ m[1].topic = t /\ (i # 0 => f[i].notes \subseteq m[1].notes)
               => Has(g, k)
    BY <1>1, <1>3, SpliceHas
  <2>2. \A x : 1 \in DOMAIN m /\ m[1].topic = t /\ x \in m[1].notes => Has(g, <<t, x>>)
    BY <1>1, <1>3, SpliceHas
  <2> QED
    BY <1>3, <2>1, <2>2 DEF Saving
<1>6. ASSUME NEW k \in KnownAfter(c) PROVE Has(g, k)
  <2>1. CASE op[c] = "save"
    BY <1>4, <1>5, <1>6, <2>1 DEF KnownAfter, Saving, t
  <2>2. CASE op[c] = "append"
    BY <1>4, <1>5, <1>6, <2>2 DEF KnownAfter, Saving, t
  <2>3. CASE op[c] = "delete"
    BY <1>4, <1>5, <1>6, <2>3 DEF KnownAfter, t
  <2> QED
    BY <1>1, <2>1, <2>2, <2>3
\* A name that is told its topic does not stand for a new section.
<1>7. ASSUME NEW n, NEW u, Settles(f, n, u), i = 0 PROVE n # t
  <2>1. t \notin TopicsOf(f)
    BY <1>3, <1>7 DEF Finds
  <2>2. t = name[c]
    BY <1>1, <1>4, <2>1, Resolved
  <2>3. u \in TopicsOf(f) /\ Resolve(f, n) = u
    BY <1>1, <1>7, Resolved DEF Settles
  <2>4. n = t => u = t
    BY <1>4, <2>2, <2>3
  <2> QED
    BY <2>1, <2>3, <2>4
<1>8. ASSUME NEW n, NEW u, Settles(f, n, u), Clear(forgeable, n), Saving(c) \/ u # t
      PROVE  Settles(g, n, u)
  BY <1>1, <1>3, <1>7, <1>8, SpliceSettles
<1>9. ASSUME Saving(c), Clear(forgeable, name[c]) PROVE Settles(g, name[c], t)
  <2>1. CASE i = 0
    <3>1. t \notin TopicsOf(f)
      BY <1>3, <2>1 DEF Finds
    <3>2. t = name[c]
      BY <1>1, <1>4, <3>1, Resolved
    <3>3. t \in TopicsOf(g)
      BY <1>5, <1>9 DEF Has, TopicsOf
    <3> QED
      BY <3>2, <3>3 DEF Settles
  <2>2. CASE i # 0
    <3>1. t \in TopicsOf(f)
      BY <1>3, <2>2 DEF Finds, TopicsOf
    <3>2. Settles(f, name[c], t)
      BY <1>1, <1>4, <3>1, Resolved
    <3> QED
      BY <1>8, <1>9, <3>2
  <2> QED
    BY <2>1, <2>2
<1>10. ASSUME NEW p \in ToldAfter(c), Clear(forgeable, p[1]) PROVE Settles(g, p[1], p[2])
  <2>1. CASE Saving(c)
    <3>1. p \in told \/ p = <<name[c], t>>
      BY <1>10, <2>1 DEF ToldAfter, Saving, t
    <3> QED
      BY <1>4, <1>8, <1>9, <1>10, <2>1, <3>1
  <2>2. CASE op[c] = "delete"
    <3>1. p \in told /\ p[2] # t
      BY <1>10, <2>2 DEF ToldAfter, t
    <3> QED
      BY <1>4, <1>8, <1>10, <3>1
  <2> QED
    BY <1>1, <2>1, <2>2 DEF Saving
<1> QED
  BY <1>6, <1>10 DEF Good, g

LEMMA BeginTurns ==
  ASSUME KeptInv, NEW c \in Callers, NEW o, NEW n, NEW x, Begin(c, o, n, x), ~raced',
         forgeable \subseteq forgeable'
  PROVE  TurnsInv'
<1>1. /\ pc[c] = "idle" /\ pc' = [pc EXCEPT ![c] = "matching"]
      /\ existing' = [existing EXCEPT ![c] = file]
      /\ ~raced /\ \A d \in Callers : d # c => pc[d] = "idle"
      /\ known' = known /\ told' = told /\ file' = file
  BY DEF Begin
<1>2. /\ \A d \in Callers : pc'[d] = IF d = c THEN "matching" ELSE "idle"
      /\ existing'[c] = file
  BY <1>1 DEF KeptInv, SoundInv, TypedInv, TypeOK
<1>3. Good(file, known, told, forgeable)
  <2>1. \A d \in Callers : pc[d] # "writing"
    BY <1>1
  <2> QED
    BY <1>1, <2>1 DEF KeptInv, TurnsInv
<1>4. Good(file, known, told, forgeable')
  BY <1>3, GoodMonotone
<1>5. Good(file, known, told, forgeable)' /\ Good(existing[c], known, told, forgeable)'
  BY <1>1, <1>2, <1>4 DEF Good, Has, Clear, Settles, First, TopicsOf
<1> QED
  BY <1>1, <1>2, <1>5 DEF TurnsInv

\* Once the only busy caller returns, all that is left to show is the file.
LEMMA ReturnTurns ==
  ASSUME KeptInv, ~raced, NEW c \in Callers, pc[c] # "idle", Return(c),
         Good(file, known, told, forgeable)'
  PROVE  TurnsInv'
<1>1. \A d \in Callers : pc'[d] = "idle"
  BY DEF Return, KeptInv, SoundInv, TypedInv, TypeOK, TurnsInv
<1> QED
  BY <1>1 DEF TurnsInv

LEMMA StepTurns ==
  ASSUME KeptInv, [Next]_vars, ~raced'
  PROVE  TurnsInv'
<1>1. ASSUME NEW c \in Callers, NEW n \in Names, NEW x \in SavedContent, SaveTopic(c, n, x)
      PROVE  TurnsInv'
  BY <1>1, BeginTurns DEF SaveTopic
<1>2. ASSUME NEW c \in Callers, NEW n \in Names, NEW x \in AppendedContent, AppendTopic(c, n, x)
      PROVE  TurnsInv'
  BY <1>2, BeginTurns DEF AppendTopic
<1>3. ASSUME NEW c \in Callers, NEW n \in Names, DeleteTopic(c, n) \/ GetTopic(c, n)
      PROVE  TurnsInv'
  BY <1>3, BeginTurns DEF DeleteTopic, GetTopic, asked
<1>4. ASSUME NEW c \in Callers, MatchTopic(c) PROVE TurnsInv'
  <2> DEFINE t == Resolve(file, name[c])
  <2>1. /\ file' = file /\ known' = known /\ told' = told /\ forgeable' = forgeable
        /\ raced' = raced /\ pc[c] = "matching" /\ ~raced
    BY <1>4 DEF MatchTopic, answers, asked
  <2>2. /\ \A d \in Callers : d # c => pc[d] = "idle"
        /\ Good(file, known, told, forgeable) /\ existing[c] = file
    BY <2>1 DEF KeptInv, TurnsInv
  <2>3. Good(file, known, told, forgeable)'
    BY <2>1, <2>2 DEF Good, Has, Clear, Settles, First, TopicsOf
  <2>4. CASE Return(c)
    BY <2>1, <2>3, <2>4, ReturnTurns
  <2>5. CASE ~Return(c)
    <3>1. /\ target' = [target EXCEPT ![c] = t] /\ pc' = [pc EXCEPT ![c] = "opening"]
          /\ name' = name /\ existing' = existing
      BY <1>4, <2>5 DEF MatchTopic, call
    <3>2. /\ \A d \in Callers : pc'[d] = IF d = c THEN "opening" ELSE "idle"
          /\ target'[c] = t
      BY <2>2, <3>1 DEF KeptInv, SoundInv, TypedInv, TypeOK
    <3>3. Good(existing[c], known, told, forgeable)'
      BY <2>1, <2>2, <3>1 DEF Good, Has, Clear, Settles, First, TopicsOf
    <3>4. existing'[c] = file' /\ target'[c] = Resolve(existing'[c], name'[c])
      BY <2>1, <2>2, <3>1, <3>2
    <3>5. Resolve(existing[c], name[c])' = Resolve(existing'[c], name'[c])
      BY DEF Resolve, TopicsOf
    <3> HIDE DEF t
    <3> QED
      BY <2>3, <3>2, <3>3, <3>4, <3>5 DEF TurnsInv
  <2> QED
    BY <2>4, <2>5
<1>5. ASSUME NEW c \in Callers, OpenFile(c) PROVE TurnsInv'
  <2>1. /\ pc' = [pc EXCEPT ![c] = "writing"] /\ pc[c] = "opening" /\ ~raced
        /\ name' = name /\ existing' = existing /\ target' = target
        /\ known' = known /\ told' = told /\ forgeable' = forgeable
    BY <1>5 DEF OpenFile, call, answers, asked
  <2>2. \A d \in Callers : pc'[d] = IF d = c THEN "writing" ELSE "idle"
    BY <2>1 DEF KeptInv, SoundInv, TypedInv, TypeOK, TurnsInv
  <2>3. Good(existing[c], known, told, forgeable) /\ target[c] = Resolve(existing[c], name[c])
    BY <2>1 DEF KeptInv, TurnsInv
  <2>4. Good(existing[c], known, told, forgeable)'
    BY <2>1, <2>3 DEF Good, Has, Clear, Settles, First, TopicsOf
  <2>5. target'[c] = Resolve(existing[c], name[c])'
    BY <2>1, <2>3 DEF Resolve, TopicsOf
  <2> QED
    BY <2>2, <2>4, <2>5 DEF TurnsInv
<1>6. ASSUME NEW c \in Callers, WriteFile(c) PROVE TurnsInv'
  <2>1. /\ file' = NewFile(c) /\ pc[c] = "writing" /\ Return(c) /\ ~raced
        /\ known' = KnownAfter(c) /\ told' = ToldAfter(c) /\ forgeable' = forgeable
    BY <1>6 DEF WriteFile, asked
  <2>2. Good(existing[c], known, told, forgeable) /\ target[c] = Resolve(existing[c], name[c])
    BY <2>1 DEF KeptInv, TurnsInv
  <2>3. Good(NewFile(c), KnownAfter(c), ToldAfter(c), forgeable)
    BY <2>1, <2>2, NewFileGood DEF KeptInv, SoundInv
  <2>4. Good(file', known', told', forgeable')
    BY <2>1, <2>3
  <2>5. Good(file, known, told, forgeable)'
    BY <2>4 DEF Good, Has, Clear, Settles, First, TopicsOf
  <2> QED
    BY <2>1, <2>5, ReturnTurns
<1>7. ASSUME NEW c \in Callers, Crash(c) PROVE FALSE
  BY <1>7 DEF Crash
<1>8. CASE UNCHANGED vars
  <2>1. /\ file' = file /\ existing' = existing /\ pc' = pc /\ target' = target /\ name' = name
        /\ known' = known /\ told' = told /\ forgeable' = forgeable /\ ~raced
    BY <1>8 DEF vars, call, asked, answers
  <2>2. TurnsInv
    BY <2>1 DEF KeptInv
  <2>3. /\ Good(file, known, told, forgeable)' <=> Good(file, known, told, forgeable)
        /\ \A c \in Callers :
             /\ Good(existing[c], known, told, forgeable)' <=> Good(existing[c], known, told, forgeable)
             /\ Resolve(existing[c], name[c])' = Resolve(existing[c], name[c])
    BY <2>1 DEF Good, Has, Clear, Settles, First, Resolve, TopicsOf
  <2> QED
    BY <2>1, <2>2, <2>3 DEF TurnsInv
<1> QED
  BY <1>1, <1>2, <1>3, <1>4, <1>5, <1>6, <1>7, <1>8 DEF Next

LEMMA InitKept == Init => KeptInv
<1> SUFFICES ASSUME Init PROVE KeptInv
  OBVIOUS
<1>1. /\ known = {} /\ told = {} /\ \A c \in Callers : pc[c] = "idle"
  BY DEF Init
<1>2. TurnsInv
  BY <1>1 DEF TurnsInv, Good
<1> QED
  BY <1>2, InitSound DEF KeptInv

LEMMA StepKept ==
  ASSUME KeptInv, [Next]_vars
  PROVE  KeptInv'
<1>1. SoundInv'
  BY StepSound DEF KeptInv
<1>2. ~raced' => TurnsInv'
  BY StepTurns
<1> QED
  BY <1>1, <1>2 DEF KeptInv

\* Servers that take turns lose nothing of each other's: save_topic, append and
\* delete write back the whole file, and take from it no note of another topic,
\* whatever the names and whatever header lines content has.
THEOREM KnowledgeIsKept == Spec => []KnowledgeKept
<1>1. KeptInv => KnowledgeKept
  <2> SUFFICES ASSUME KeptInv, Quiet, ~raced
               PROVE  \A k \in known : Has(file, k)
    BY DEF KnowledgeKept, Has
  <2>1. \A c \in Callers : pc[c] # "writing"
    BY DEF Quiet
  <2> QED
    BY <2>1 DEF KeptInv, TurnsInv, Good
<1> QED
  BY <1>1, InitKept, StepKept, PTL DEF Spec

-----------------------------------------------------------------------------
(* A topic is found again by the names that callers were told it has.      *)

GetFinds ==
  \A c \in Callers :
    op[c] = "get" /\ pc'[c] = "idle" /\ ~raced' /\ Unforged(name[c]) =>
      \A k \in known : <<name[c], k[1]>> \in told => k[2] \in result'[c]

\* The section get_topic looks up is the one with what is known of the topic.
LEMMA MatchReturns ==
  ASSUME KeptInv, ~raced, NEW c \in Callers, pc[c] = "matching", Unforged(name[c]),
         NEW k \in known, <<name[c], k[1]>> \in told,
         NEW t, t = Resolve(file, name[c])
  PROVE  IndexOf(existing[c], t) # 0 /\ k[2] \in existing[c][IndexOf(existing[c], t)].notes
<1> DEFINE i == IndexOf(file, t)
           n == name[c]
<1>1. /\ existing[c] = file /\ file \in Seq(SectionSet) /\ Sound(file, named, forgeable)
      /\ Has(file, k) /\ Clear(forgeable, n)
      /\ \A p \in told : Clear(forgeable, p[1]) => Settles(file, p[1], p[2])
  BY DEF KeptInv, TurnsInv, SoundInv, TypedInv, TypeOK, Good, Unforged, Clear
<1>2. Settles(file, n, k[1])
  <2> DEFINE p == <<n, k[1]>>
  <2>1. p \in told /\ p[1] = n /\ p[2] = k[1]
    OBVIOUS
  <2> HIDE DEF p
  <2> QED
    BY <1>1, <2>1
<1>3. t = k[1] /\ t \in TopicsOf(file)
  BY <1>1, <1>2, Resolved DEF Settles
<1>4. t \notin forgeable
  BY <1>1, <1>2, <1>3 DEF Settles, First, Clear
<1>5. PICK j \in DOMAIN file : file[j].topic = k[1] /\ k[2] \in file[j].notes
  BY <1>1 DEF Has
<1>6. i \in DOMAIN file /\ file[i].topic = t /\ i # 0
  BY <1>1, <1>3, Indexed
<1> HIDE DEF i
<1>7. i = j
  BY <1>1, <1>3, <1>4, <1>5, <1>6 DEF Sound
<1> QED
  BY <1>1, <1>5, <1>6, <1>7 DEF i

LEMMA StepGets ==
  ASSUME KeptInv, [Next]_vars
  PROVE  GetFinds
<1> SUFFICES ASSUME NEW c \in Callers, op[c] = "get", pc'[c] = "idle", ~raced', Unforged(name[c]),
                    NEW k \in known, <<name[c], k[1]>> \in told
             PROVE  k[2] \in result'[c]
  BY DEF GetFinds
<1>0. TypedInv
  BY DEF KeptInv, SoundInv
<1>1. pc[c] = "matching"
  BY <1>0 DEF TypedInv, TypeOK, Fits, Saving
<1>2. MatchTopic(c)
  <2>1. ASSUME NEW d \in Callers, NEW o, NEW n, NEW x, Begin(d, o, n, x) PROVE FALSE
    BY <1>0, <1>1, <2>1 DEF Begin, TypedInv, TypeOK
  <2>2. ASSUME NEW d \in Callers, d # c, MatchTopic(d) \/ OpenFile(d) \/ WriteFile(d) PROVE FALSE
    <3>1. pc'[c] = pc[c]
      BY <1>0, <2>2 DEF MatchTopic, OpenFile, WriteFile, Return, TypedInv, TypeOK
    <3> QED
      BY <1>1, <3>1
  <2>3. ASSUME NEW d \in Callers, Crash(d) PROVE FALSE
    BY <2>3 DEF Crash
  <2>4. ~OpenFile(c) /\ ~WriteFile(c)
    BY <1>1 DEF OpenFile, WriteFile
  <2>5. ~UNCHANGED vars
    BY <1>1 DEF vars
  <2> QED
    BY <2>1, <2>2, <2>3, <2>4, <2>5 DEF Next, SaveTopic, AppendTopic, DeleteTopic, GetTopic
<1>3. ~raced
  BY <1>2 DEF MatchTopic
<1> DEFINE t == Resolve(file, name[c])
           i == IndexOf(existing[c], t)
<1>4. i # 0 /\ k[2] \in existing[c][i].notes
  BY <1>1, <1>3, MatchReturns
<1>5. result' = [result EXCEPT ![c] = Found(c, i)]
  BY <1>2 DEF MatchTopic
<1>6. Found(c, i) = existing[c][i].notes
  BY <1>3, <1>4 DEF Found
<1> HIDE DEF i, t
<1>7. result'[c] = existing[c][i].notes
  BY <1>0, <1>5, <1>6 DEF TypedInv, TypeOK
<1> QED
  BY <1>4, <1>7

\* A topic is found again by every name that callers, in turn, were told it has, with
\* every note they were told is saved there (_find_similar_topic, get_topic), as long
\* as no header line that nothing escaped is taken for what the name stands for.
THEOREM SavedIsFound == Spec => GetReturnsKnown
<1>1. KeptInv /\ [Next]_vars => GetFinds
  BY StepGets
<1>2. KeptInv /\ [Next]_vars => KeptInv'
  BY StepKept
<1>3. Spec => [][GetFinds]_vars
  BY <1>1, <1>2, InitKept, PTL DEF Spec
<1> QED
  BY <1>3 DEF GetReturnsKnown, GetFinds
=============================================================================
