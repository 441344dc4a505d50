---------------------------- MODULE LibraryProofs ----------------------------
(***************************************************************************)
(* Theorems about the library (Library), for any number of contexts,       *)
(* groups, statistics and hints and any hierarchy: what a context owns is  *)
(* in its lists, no thread reads what was freed, the values are minima,    *)
(* groups are sets in order, and the log of the hints is open.             *)
(*                                                                         *)
(* The invariant speaks of the work list of the running call (main) as     *)
(* well as of the tables: it says which item is still to come for what the *)
(* tables do not yet, or no longer, hold.                                  *)
(***************************************************************************)
EXTENDS Library, FiniteSetTheorems, SequenceTheorems, WellFoundedInduction, TLAPS

\* Every nonempty set of numbers has a least element.
LEMMA Least ==
    ASSUME NEW T \in SUBSET Nat, T # {}
    PROVE  \E x \in T : \A y \in T : x <= y
<1> DEFINE R == {ss \in Nat \X Nat : ss[1] < ss[2]}
<1>1. IsWellFoundedOn(R, Nat)
  BY NatLessThanWellFounded, Zenon DEF OpToRel
<1>2. \A x, y \in Nat : y < x => <<y, x>> \in R
  OBVIOUS
<1> HIDE DEF R
<1>3. PICK x \in T : \A y \in T : ~ (<<y, x>> \in R)
  BY <1>1, WFMin
<1>4. ASSUME NEW y \in T PROVE x <= y
  <2>1. x \in Nat /\ y \in Nat
    OBVIOUS
  <2>2. ~ (y < x)
    BY <2>1, <1>2, <1>3
  <2> QED BY <2>1, <2>2
<1> QED BY <1>4

\* Min gives the least element of a nonempty set of numbers.
LEMMA MinOf == ASSUME NEW T \in SUBSET Nat, T # {}
  PROVE /\ Min(T) \in T /\ \A y \in T : Min(T) <= y
BY Least DEF Min

-------------------------------------------------------------------------------
(* Sequences                                                                   *)

\* Induction over the numbers, on the set of those that have the property.
LEMMA Induction ==
    ASSUME NEW T, 0 \in T, \A n \in Nat : n \in T => n + 1 \in T
    PROVE  \A n \in Nat : n \in T
<1> SUFFICES ASSUME NEW n \in Nat, n \notin T PROVE FALSE
  OBVIOUS
<1> DEFINE R == {m \in Nat : m \notin T}
<1>1. PICK x \in R : \A y \in R : x <= y
  BY Least
<1>2. x # 0 /\ x - 1 \in Nat
  OBVIOUS
<1>3. x - 1 \in T
  BY <1>1, <1>2
<1> QED BY <1>2, <1>3

\* The sequences of ss follow one another in w, ss[k] behind position off[k].
Blocks(ss, n, w, off) ==
    /\ \A k \in 1..n :
          /\ off[k] + Len(ss[k]) <= Len(w)
          /\ \A q \in 1..Len(ss[k]) : w[off[k] + q] = ss[k][q]
    /\ \A p \in 1..Len(w) : \E k \in 1..n : off[k] < p /\ p <= off[k] + Len(ss[k])

\* A position of a part, counted in the whole.
LEMMA Within ==
    ASSUME NEW a \in Nat, NEW b \in Nat, NEW c \in Nat, NEW q \in 1..b, a + b <= c
    PROVE  a + q \in 1..c
OBVIOUS

\* The elements of a concatenation.
LEMMA ConcatAt ==
    ASSUME NEW S, NEW v \in Seq(S), NEW w \in Seq(S)
    PROVE  /\ v \o w \in Seq(S) /\ Len(v \o w) = Len(v) + Len(w)
           /\ \A k \in 1..Len(v) : (v \o w)[k] = v[k]
           /\ \A k \in 1..Len(w) : (v \o w)[Len(v) + k] = w[k]
           /\ \A k \in 1..Len(v \o w) : \/ k \in 1..Len(v)
                                        \/ k - Len(v) \in 1..Len(w) /\ (v \o w)[k] = w[k - Len(v)]
OBVIOUS

\* A flattened sequence is made of the sequences it flattens, one behind the other.
LEMMA FlattenBlocks ==
    ASSUME NEW S, NEW ss \in Seq(Seq(S))
    PROVE  /\ FlattenSeq(ss) \in Seq(S)
           /\ \E off \in [1..Len(ss) -> Nat] : Blocks(ss, Len(ss), FlattenSeq(ss), off)
<1> DEFINE n == Len(ss)
           Body(f, i) == IF i = 1 THEN ss[i] ELSE f[i - 1] \o ss[i]
           Good(m) == \E f : f = [i \in 1..m |-> Body(f, i)]
           T == {m \in Nat : Good(m)}
<1>0. n \in Nat /\ \A k \in 1..n : ss[k] \in Seq(S)
  OBVIOUS
<1>1. CASE n = 0
  <2>1. ss = <<>>
    BY <1>1
  <2>2. FlattenSeq(ss) = <<>>
    BY <2>1 DEF FlattenSeq
  <2> DEFINE off == [k \in {} |-> 0]
  <2>3. off \in [1..Len(ss) -> Nat]
    BY <2>1
  <2> HIDE DEF off
  <2>4. Blocks(ss, Len(ss), FlattenSeq(ss), off)
    BY <2>1, <2>2 DEF Blocks
  <2>5. FlattenSeq(ss) \in Seq(S)
    BY <2>2
  <2> QED BY <2>3, <2>4, <2>5
<1>2. CASE n # 0
  <2>1. 0 \in T
    <3>1. [i \in 1..0 |-> Body(<<>>, i)] = <<>>
      OBVIOUS
    <3> QED BY <3>1
  <2>2. ASSUME NEW m \in Nat, m \in T PROVE m + 1 \in T
    <3>1. PICK f : f = [i \in 1..m |-> Body(f, i)]
      BY <2>2
    <3> DEFINE g == [i \in 1..m + 1 |-> Body(f, i)]
    <3>2. ASSUME NEW i \in 1..m + 1 PROVE g[i] = Body(g, i)
      <4> HIDE DEF Body
      <4>1. \A k \in 1..m : f[k] = Body(f, k)
        BY <3>1, Zenon
      <4>2. \A k \in 1..m + 1 : g[k] = Body(f, k)
        BY Zenon
      <4>3. CASE i = 1
        BY <4>2, <4>3 DEF Body
      <4>4. CASE i # 1
        <5>1. i - 1 \in 1..m /\ i - 1 \in 1..m + 1
          BY <4>4
        <5>2. f[i - 1] = g[i - 1]
          BY <4>1, <4>2, <5>1, Zenon
        <5>3. g[i] = f[i - 1] \o ss[i]
          BY <4>2, <4>4, Zenon DEF Body
        <5> HIDE DEF g
        <5>4. Body(g, i) = g[i - 1] \o ss[i]
          BY <4>4, Zenon DEF Body
        <5> QED BY <5>2, <5>3, <5>4, Zenon
      <4> QED BY <4>3, <4>4
    <3>3. g = [i \in 1..m + 1 |-> Body(g, i)]
      <4> HIDE DEF Body
      <4> QED BY <3>2, Zenon
    <3> QED
      <4> HIDE DEF Body, g
      <4> QED BY <3>3
  <2>3. Good(n)
    <3> HIDE DEF T
    <3>1. n \in T
      BY <2>1, <2>2, <1>0, Induction
    <3> QED BY <3>1 DEF T
  <2> DEFINE f == CHOOSE f : f = [i \in 1..n |-> Body(f, i)]
  <2>4. f = [i \in 1..n |-> Body(f, i)]
    <3> HIDE DEF Body
    <3> QED BY <2>3, Zenon
  <2>5. FlattenSeq(ss) = f[n]
    BY <1>2 DEF FlattenSeq
  <2> HIDE DEF f
  <2>6. f[1] = ss[1] /\ \A i \in 1..n : i # 1 => f[i] = f[i - 1] \o ss[i]
    <3>1. \A i \in 1..n : f[i] = Body(f, i)
      <4> HIDE DEF Body
      <4> QED BY <2>4, Zenon
    <3>2. 1 \in 1..n
      BY <1>0, <1>2
    <3> QED BY <3>1, <3>2, Zenon
  <2> DEFINE Fine(i) == f[i] \in Seq(S) /\ \E off \in [1..i -> Nat] : Blocks(ss, i, f[i], off)
             U == {i \in Nat : i + 1 \in 1..n => Fine(i + 1)}
  <2>7. 0 \in U
    <3> DEFINE off == [k \in 1..1 |-> 0]
    <3>1. f[1] \in Seq(S) /\ f[1] = ss[1] /\ 1 \in 1..n
      BY <2>6, <1>0, <1>2
    <3>2. off \in [1..1 -> Nat] /\ off[1] = 0
      OBVIOUS
    <3> HIDE DEF off
    <3>3. Blocks(ss, 1, f[1], off)
      BY <3>1, <3>2 DEF Blocks
    <3>4. Fine(1)
      BY <3>1, <3>2, <3>3
    <3> HIDE DEF Fine
    <3> QED BY <3>4
  <2>8. ASSUME NEW i \in Nat, i \in U PROVE i + 1 \in U
    <3>1. SUFFICES ASSUME i + 2 \in 1..n PROVE Fine(i + 2)
      <4> HIDE DEF Fine
      <4>1. (i + 1) + 1 = i + 2
        OBVIOUS
      <4> QED BY <4>1
    <3>2. i + 1 \in 1..n /\ Fine(i + 1)
      <4> HIDE DEF Fine
      <4> QED BY <3>1, <2>8, <1>0
    <3>3. PICK off \in [1..i + 1 -> Nat] : Blocks(ss, i + 1, f[i + 1], off)
      BY <3>2
    <3>4. f[i + 2] = f[i + 1] \o ss[i + 2]
      <4>1. i + 2 # 1 /\ (i + 2) - 1 = i + 1
        OBVIOUS
      <4> QED BY <2>6, <3>1, <4>1
    <3>5. /\ f[i + 2] \in Seq(S) /\ Len(f[i + 2]) = Len(f[i + 1]) + Len(ss[i + 2])
          /\ Len(f[i + 1]) \in Nat /\ Len(ss[i + 2]) \in Nat
          /\ \A k \in 1..Len(f[i + 1]) : f[i + 2][k] = f[i + 1][k]
          /\ \A k \in 1..Len(ss[i + 2]) : f[i + 2][Len(f[i + 1]) + k] = ss[i + 2][k]
      <4> DEFINE v == f[i + 1]  w == ss[i + 2]
      <4>1. v \in Seq(S) /\ w \in Seq(S) /\ f[i + 2] = v \o w
        BY <3>1, <3>2, <3>4, <1>0
      <4> HIDE DEF v, w
      <4>2. /\ f[i + 2] \in Seq(S) /\ Len(f[i + 2]) = Len(v) + Len(w)
            /\ Len(v) \in Nat /\ Len(w) \in Nat
            /\ \A k \in 1..Len(v) : f[i + 2][k] = v[k]
            /\ \A k \in 1..Len(w) : f[i + 2][Len(v) + k] = w[k]
        BY <4>1, ConcatAt
      <4> QED BY <4>2 DEF v, w
    <3> DEFINE off2 == [k \in 1..i + 2 |-> IF k = i + 2 THEN Len(f[i + 1]) ELSE off[k]]
    <3>6. /\ off2 \in [1..i + 2 -> Nat] /\ off2[i + 2] = Len(f[i + 1])
          /\ \A k \in 1..i + 1 : off2[k] = off[k]
      BY <3>5
    <3> HIDE DEF off2
    <3>7. Blocks(ss, i + 2, f[i + 2], off2)
      <4>1. ASSUME NEW k \in 1..i + 2
            PROVE  /\ off2[k] + Len(ss[k]) <= Len(f[i + 2])
                   /\ \A q \in 1..Len(ss[k]) : f[i + 2][off2[k] + q] = ss[k][q]
        <5>1. CASE k = i + 2
          BY <5>1, <3>5, <3>6
        <5>2. CASE k # i + 2
          <6>1. k \in 1..i + 1 /\ off2[k] = off[k] /\ off[k] \in Nat /\ k \in 1..n
            BY <5>2, <3>1, <3>6
          <6>2. Len(ss[k]) \in Nat
            BY <6>1, <1>0
          <6>3. off[k] + Len(ss[k]) <= Len(f[i + 1])
            BY <6>1, <3>3 DEF Blocks
          <6>4. ASSUME NEW q \in 1..Len(ss[k]) PROVE f[i + 2][off2[k] + q] = ss[k][q]
            <7>1. f[i + 1][off[k] + q] = ss[k][q]
              BY <6>1, <3>3 DEF Blocks
            <7>2. off[k] + q \in 1..Len(f[i + 1])
              BY <6>1, <6>2, <6>3, <3>5, Within
            <7> QED BY <7>1, <7>2, <6>1, <3>5
          <6>5. off2[k] + Len(ss[k]) <= Len(f[i + 2])
            <7>1. \A a, b, c, e \in Nat : a + b <= c => a + b <= c + e
              OBVIOUS
            <7> QED BY <7>1, <6>1, <6>2, <6>3, <3>5
          <6> QED BY <6>4, <6>5
        <5> QED BY <5>1, <5>2
      <4>2. ASSUME NEW p \in 1..Len(f[i + 2])
            PROVE  \E k \in 1..i + 2 : off2[k] < p /\ p <= off2[k] + Len(ss[k])
        <5>1. CASE p \in 1..Len(f[i + 1])
          <6>1. PICK k \in 1..i + 1 : off[k] < p /\ p <= off[k] + Len(ss[k])
            BY <5>1, <3>3 DEF Blocks
          <6>2. k \in 1..i + 2 /\ off2[k] = off[k]
            BY <3>6
          <6> QED BY <6>1, <6>2
        <5>2. CASE p \notin 1..Len(f[i + 1])
          <6>1. i + 2 \in 1..i + 2 /\ off2[i + 2] = Len(f[i + 1])
            BY <3>6
          <6>2. \A a, b \in Nat : p \in 1..a + b /\ p \notin 1..a => a < p /\ p <= a + b
            OBVIOUS
          <6> QED BY <6>1, <6>2, <5>2, <3>5
        <5> QED BY <5>1, <5>2
      <4> QED BY <4>1, <4>2 DEF Blocks
    <3> QED BY <3>5, <3>6, <3>7
  <2>9. Fine(n)
    <3> HIDE DEF U
    <3>1. n - 1 \in Nat /\ (n - 1) + 1 = n
      BY <1>0, <1>2
    <3>2. n - 1 \in U
      BY <2>7, <2>8, <3>1, Induction
    <3> QED BY <3>1, <3>2, <1>0, <1>2 DEF U
  <2> QED BY <2>5, <2>9
<1> QED BY <1>1, <1>2

\* v lies in w behind position a.
Lies(v, w, a) ==
    /\ a \in Nat /\ a + Len(v) <= Len(w)
    /\ \A q \in 1..Len(v) : w[a + q] = v[q]

\* In a flattened sequence every part lies somewhere and nothing else does.
LEMMA FlattenParts ==
    ASSUME NEW S, NEW ss \in Seq(Seq(S)), NEW w, w = FlattenSeq(ss)
    PROVE  /\ w \in Seq(S)
           /\ \A k \in 1..Len(ss) : \E a \in Nat : Lies(ss[k], w, a)
           /\ \A p \in 1..Len(w) : \E k \in 1..Len(ss) : \E a \in Nat :
                 Lies(ss[k], w, a) /\ p - a \in 1..Len(ss[k])
<1>0. w \in Seq(S) /\ Len(w) \in Nat
  BY FlattenBlocks
<1>1. PICK off \in [1..Len(ss) -> Nat] : Blocks(ss, Len(ss), w, off)
  BY FlattenBlocks
<1>2. ASSUME NEW k \in 1..Len(ss)
      PROVE  off[k] \in Nat /\ Lies(ss[k], w, off[k]) /\ Len(ss[k]) \in Nat
  <2>1. ss[k] \in Seq(S)
    OBVIOUS
  <2>2. off[k] \in Nat
    OBVIOUS
  <2>3. Lies(ss[k], w, off[k])
    BY <1>1, <2>2 DEF Blocks, Lies
  <2> QED BY <2>1, <2>2, <2>3
<1>3. ASSUME NEW p \in 1..Len(w)
      PROVE  \E k \in 1..Len(ss) : \E a \in Nat : Lies(ss[k], w, a) /\ p - a \in 1..Len(ss[k])
  <2>1. PICK k \in 1..Len(ss) : off[k] < p /\ p <= off[k] + Len(ss[k])
    BY <1>1 DEF Blocks
  <2>2. p - off[k] \in 1..Len(ss[k])
    BY <2>1, <1>2
  <2> QED BY <2>2, <1>2
<1> QED BY <1>0, <1>2, <1>3

\* Both parts lie in their concatenation.
LEMMA ConcatLies ==
    ASSUME NEW S, NEW v \in Seq(S), NEW w \in Seq(S)
    PROVE  /\ v \o w \in Seq(S) /\ Len(v \o w) = Len(v) + Len(w)
           /\ Len(v) \in Nat /\ Len(w) \in Nat
           /\ Lies(v, v \o w, 0) /\ Lies(w, v \o w, Len(v))
           /\ \A k \in 1..Len(v \o w) : k \in 1..Len(v) \/ k - Len(v) \in 1..Len(w)
BY ConcatAt DEF Lies

\* The positions of a part.
LEMMA LiesAt ==
    ASSUME NEW v, NEW w, NEW a, Lies(v, w, a), Len(v) \in Nat, Len(w) \in Nat
    PROVE  /\ a \in Nat
           /\ \A q \in 1..Len(v) : a + q \in 1..Len(w) /\ w[a + q] = v[q]
           /\ \A p \in Int : p - a \in 1..Len(v) => p \in 1..Len(w) /\ w[p] = v[p - a]
<1>1. a \in Nat /\ a + Len(v) <= Len(w)
  BY DEF Lies
<1>2. \A q \in 1..Len(v) : a + q \in 1..Len(w) /\ w[a + q] = v[q]
  BY <1>1, Within DEF Lies
<1>3. ASSUME NEW p \in Int, p - a \in 1..Len(v)
      PROVE  p \in 1..Len(w) /\ w[p] = v[p - a]
  <2>1. a + (p - a) = p
    BY <1>1
  <2> QED BY <1>2, <1>3, <2>1
<1> QED BY <1>1, <1>2, <1>3

\* A part of a part is a part.
LEMMA LiesWithin ==
    ASSUME NEW u, NEW v, NEW w, NEW a, NEW b, Lies(u, v, a), Lies(v, w, b),
           Len(u) \in Nat, Len(v) \in Nat, Len(w) \in Nat
    PROVE  Lies(u, w, a + b)
<1>1. a \in Nat /\ b \in Nat /\ a + Len(u) <= Len(v) /\ b + Len(v) <= Len(w)
  BY DEF Lies
<1>2. ASSUME NEW q \in 1..Len(u) PROVE w[(a + b) + q] = u[q]
  <2>1. a + q \in 1..Len(v) /\ v[a + q] = u[q]
    BY LiesAt
  <2>2. w[b + (a + q)] = v[a + q]
    BY <2>1, LiesAt
  <2>3. b + (a + q) = (a + b) + q
    BY <1>1
  <2> QED BY <2>1, <2>2, <2>3
<1> QED BY <1>1, <1>2 DEF Lies

-------------------------------------------------------------------------------
(* Work lists                                                                  *)

\* The items of work lists.
Entries == [do : Items, on : Ctxs \cup Grps \cup Stats, obj : Objs \cup {0}]

\* An item is in the list; before, or behind, its k-th.
Has(w, do, x) == \E j \in 1..Len(w) : w[j].do = do /\ w[j].on = x
Prior(w, k, do, x) == \E j \in 1..Len(w) : j < k /\ w[j].do = do /\ w[j].on = x
Later(w, k, do, x) == \E j \in 1..Len(w) : k < j /\ w[j].do = do /\ w[j].on = x

\* What is in a part, or before or behind its k-th item, is so in the whole.
LEMMA LiesHas ==
    ASSUME NEW v, NEW w, NEW a, Lies(v, w, a), Len(v) \in Nat, Len(w) \in Nat,
           NEW do, NEW x
    PROVE  /\ Has(v, do, x) => Has(w, do, x)
           /\ \A k \in Int : Prior(v, k - a, do, x) => Prior(w, k, do, x)
           /\ \A k \in Int : Later(v, k - a, do, x) => Later(w, k, do, x)
<1>1. a \in Nat /\ \A q \in 1..Len(v) : a + q \in 1..Len(w) /\ w[a + q] = v[q]
  BY LiesAt
<1>2. ASSUME NEW j \in 1..Len(v), NEW k \in Int
      PROVE  /\ j < k - a => a + j < k
             /\ k - a < j => k < a + j
  BY <1>1
<1>3. Has(v, do, x) => Has(w, do, x)
  BY <1>1 DEF Has
<1>4. ASSUME NEW k \in Int, Prior(v, k - a, do, x) PROVE Prior(w, k, do, x)
  BY <1>1, <1>2, <1>4 DEF Prior
<1>5. ASSUME NEW k \in Int, Later(v, k - a, do, x) PROVE Later(w, k, do, x)
  BY <1>1, <1>2, <1>5 DEF Later
<1> QED BY <1>3, <1>4, <1>5

\* An item and its fields.
LEMMA ItemEntry ==
    ASSUME NEW do \in Items, NEW x \in Ctxs \cup Grps \cup Stats, NEW o \in Objs \cup {0}
    PROVE  /\ Item(do, x, o) \in Entries
           /\ Item(do, x, o).do = do /\ Item(do, x, o).on = x /\ Item(do, x, o).obj = o
BY DEF Item, Entries

\* StopThenDetach and DelStat are pairs.
LEMMA PairItems ==
    ASSUME NEW s \in Stats, NEW do \in {"detach", "stat"}, NEW v,
           v = <<Item("stop", s, 0), Item(do, s, 0)>>
    PROVE  /\ v \in Seq(Entries) /\ Len(v) = 2
           /\ v[1].do = "stop" /\ v[1].on = s /\ v[2].do = do /\ v[2].on = s
           /\ \A k \in 1..2 : v[k].do \in {"stop", do} /\ v[k].on = s
<1>1. Item("stop", s, 0) \in Entries /\ Item(do, s, 0) \in Entries
  BY ItemEntry DEF Items
<1>2. /\ Item("stop", s, 0).do = "stop" /\ Item("stop", s, 0).on = s
      /\ Item(do, s, 0).do = do /\ Item(do, s, 0).on = s
  BY DEF Item
<1>3. v \in Seq(Entries) /\ Len(v) = 2 /\ v[1] = Item("stop", s, 0) /\ v[2] = Item(do, s, 0)
  BY <1>1
<1> QED BY <1>2, <1>3

\* A flattened list of pairs: nothing but stops and the other item, each of the
\* others behind a stop.
PairsOf(w, l, do) ==
    /\ w \in Seq(Entries)
    /\ \A k \in 1..Len(w) :
          /\ w[k].do \in {"stop", do} /\ w[k].on \in ToSet(l)
          /\ w[k].do = do => Prior(w, k, "stop", w[k].on)
    /\ \A s \in ToSet(l) : Has(w, do, s)

\* A list of pairs, flattened: a stop for each statistic and what follows it.
LEMMA PairsAt ==
    ASSUME NEW l \in Seq(Stats), NEW do \in {"detach", "stat"},
           NEW ss \in Seq(Seq(Entries)), Len(ss) = Len(l),
           \A k \in 1..Len(l) : /\ Len(ss[k]) = 2
                                /\ ss[k][1].do = "stop" /\ ss[k][1].on = l[k]
                                /\ ss[k][2].do = do /\ ss[k][2].on = l[k],
           NEW w, w = FlattenSeq(ss)
    PROVE  PairsOf(w, l, do)
<1>1. Len(l) \in Nat /\ DOMAIN l = 1..Len(l)
  OBVIOUS
<1>2. /\ w \in Seq(Entries) /\ Len(w) \in Nat
      /\ \A k \in 1..Len(ss) : \E a \in Nat : Lies(ss[k], w, a)
      /\ \A p \in 1..Len(w) : \E k \in 1..Len(ss) : \E a \in Nat :
             Lies(ss[k], w, a) /\ p - a \in 1..Len(ss[k])
  BY FlattenParts
<1>3. ASSUME NEW k \in 1..Len(l), NEW a \in Nat, Lies(ss[k], w, a)
      PROVE  /\ a + 1 \in 1..Len(w) /\ w[a + 1].do = "stop" /\ w[a + 1].on = l[k]
             /\ a + 2 \in 1..Len(w) /\ w[a + 2].do = do /\ w[a + 2].on = l[k]
  <2>1. Len(ss[k]) = 2 /\ Len(ss[k]) \in Nat
    OBVIOUS
  <2>2. \A q \in 1..Len(ss[k]) : a + q \in 1..Len(w) /\ w[a + q] = ss[k][q]
    <3> DEFINE v == ss[k]
    <3>1. Lies(v, w, a) /\ Len(v) \in Nat /\ Len(w) \in Nat
      BY <2>1, <1>2, <1>3
    <3> HIDE DEF v
    <3>2. \A q \in 1..Len(v) : a + q \in 1..Len(w) /\ w[a + q] = v[q]
      BY <3>1, LiesAt
    <3> QED BY <3>2 DEF v
  <2>3. 1 \in 1..Len(ss[k]) /\ 2 \in 1..Len(ss[k])
    BY <2>1
  <2> QED BY <2>2, <2>3
<1>4. ASSUME NEW p \in 1..Len(w)
      PROVE  /\ w[p].do \in {"stop", do} /\ w[p].on \in ToSet(l)
             /\ w[p].do = do => Prior(w, p, "stop", w[p].on)
  <2>1. PICK k \in 1..Len(ss) : \E a \in Nat : Lies(ss[k], w, a) /\ p - a \in 1..Len(ss[k])
    BY <1>2
  <2>2. PICK a \in Nat : Lies(ss[k], w, a) /\ p - a \in 1..Len(ss[k])
    BY <2>1
  <2>3. k \in 1..Len(l) /\ (p = a + 1 \/ p = a + 2)
    <3>1. k \in 1..Len(l)
      OBVIOUS
    <3>2. Len(ss[k]) = 2
      BY <3>1
    <3>3. p - a \in 1..2
      BY <2>2, <3>2
    <3> QED BY <3>1, <3>3
  <2>4. l[k] \in ToSet(l)
    BY <2>3, <1>1 DEF ToSet
  <2>5. /\ a + 1 \in 1..Len(w) /\ w[a + 1].do = "stop" /\ w[a + 1].on = l[k]
        /\ a + 2 \in 1..Len(w) /\ w[a + 2].do = do /\ w[a + 2].on = l[k]
    BY <2>2, <2>3, <1>3
  <2>6. ASSUME w[p].do = do PROVE Prior(w, p, "stop", w[p].on)
    <3>1. p = a + 2
      BY <2>3, <2>5, <2>6
    <3>2. a + 1 < p
      BY <3>1
    <3>3. w[a + 1].on = w[p].on
      BY <2>5, <3>1
    <3> QED BY <2>5, <3>2, <3>3 DEF Prior
  <2> QED BY <2>3, <2>4, <2>5, <2>6
<1>5. ASSUME NEW s \in ToSet(l) PROVE Has(w, do, s)
  <2>1. PICK k \in 1..Len(l) : l[k] = s
    BY <1>1 DEF ToSet
  <2>2. PICK a \in Nat : Lies(ss[k], w, a)
    BY <1>2, <2>1
  <2>3. a + 2 \in 1..Len(w) /\ w[a + 2].do = do /\ w[a + 2].on = l[k]
    BY <2>2, <1>3
  <2> QED BY <2>1, <2>3 DEF Has
<1> QED BY <1>2, <1>4, <1>5 DEF PairsOf

\* The list of StopThenDetach or of DelStat for several statistics.
LEMMA Pairs ==
    ASSUME NEW l \in Seq(Stats), NEW do \in {"detach", "stat"}, NEW ss,
           ss = [k \in DOMAIN l |-> <<Item("stop", l[k], 0), Item(do, l[k], 0)>>]
    PROVE  PairsOf(FlattenSeq(ss), l, do)
<1>1. /\ Len(l) \in Nat /\ DOMAIN l = 1..Len(l)
      /\ \A k \in 1..Len(l) : l[k] \in Stats
  OBVIOUS
<1>2. ASSUME NEW k \in 1..Len(l)
      PROVE  /\ ss[k] \in Seq(Entries) /\ Len(ss[k]) = 2
             /\ ss[k][1].do = "stop" /\ ss[k][1].on = l[k]
             /\ ss[k][2].do = do /\ ss[k][2].on = l[k]
  BY <1>1, PairItems
<1>3. ss \in Seq(Seq(Entries)) /\ Len(ss) = Len(l)
  <2>1. DOMAIN ss = 1..Len(l)
    BY <1>1
  <2>2. ss = [k \in 1..Len(l) |-> ss[k]]
    BY <1>1
  <2> QED BY <1>1, <1>2, <2>1, <2>2
<1> QED BY <1>2, <1>3, PairsAt

\* What group_invalidate_statistics puts before item number n: the statistics
\* of the group are stopped and detached, then its list is freed.
Invalidates(w, n, g) ==
    /\ \A k \in 1..Len(w) : k < n =>
          /\ w[k].do \in {"stop", "detach", "freelist"}
          /\ w[k].do \in {"stop", "detach"} => w[k].on \in ToSet(grp[g].stats)
          /\ w[k].do = "freelist" => w[k].on = g
          /\ w[k].do = "detach" =>
                Prior(w, k, "stop", w[k].on) /\ Later(w, k, "freelist", g)
    /\ \A s \in ToSet(grp[g].stats) : Prior(w, n, "detach", s)
    /\ ToSet(grp[g].stats) # {} => Has(w, "freelist", g)

\* Only the empty list has no elements.
LEMMA EmptySet ==
    ASSUME NEW S, NEW l \in Seq(S)
    PROVE  l = <<>> <=> ToSet(l) = {}
<1>1. ASSUME l # <<>> PROVE ToSet(l) # {}
  <2>1. 1 \in DOMAIN l
    BY <1>1
  <2>2. l[1] \in ToSet(l)
    BY <2>1 DEF ToSet
  <2> QED BY <2>2
<1>2. ASSUME l = <<>> PROVE ToSet(l) = {}
  BY <1>2 DEF ToSet
<1> QED BY <1>1, <1>2

\* The list of group_invalidate_statistics, with the item the caller adds.
LEMMA InvalidateList ==
    ASSUME NEW g \in Grps, grp[g].stats \in Seq(Stats), NEW e \in Entries, NEW w,
           w = Invalidate(g) \o <<e>>
    PROVE  /\ w \in Seq(Entries) /\ Len(w) \in Nat \ {0} /\ w[Len(w)] = e
           /\ Invalidates(w, Len(w), g)
<1> DEFINE l == grp[g].stats
           ss == [k \in DOMAIN l |-> <<Item("stop", l[k], 0), Item("detach", l[k], 0)>>]
           v == FlattenSeq(ss)
           f == Item("freelist", g, 0)
           t == IF l = <<>> THEN <<>> ELSE <<f>>
<1>1. Invalidate(g) = v \o t
  BY DEF Invalidate, InvalidateWith, StopThenDetach
<1>2. PairsOf(v, l, "detach")
  <2> HIDE DEF l
  <2>1. l \in Seq(Stats)
    BY DEF l
  <2> QED BY <2>1, Pairs
<1>3. f \in Entries /\ f.do = "freelist" /\ f.on = g
  BY ItemEntry DEF Items
<1>4. l \in Seq(Stats) /\ (l = <<>> <=> ToSet(l) = {})
  BY EmptySet
<1> HIDE DEF v, f, ss
<1>5. v \in Seq(Entries) /\ Len(v) \in Nat
  BY <1>2 DEF PairsOf
<1>6. CASE l = <<>>
  <2>1. v = <<>>
    <3>1. ToSet(l) = {}
      BY <1>4, <1>6
    <3>2. \A k \in 1..Len(v) : FALSE
      BY <1>2, <3>1 DEF PairsOf
    <3> QED BY <3>2, <1>5
  <2>2. w = <<e>>
    BY <1>1, <1>6, <2>1
  <2>3. w \in Seq(Entries) /\ Len(w) = 1 /\ w[1] = e
    <3>1. <<e>> \in Seq(Entries) /\ Len(<<e>>) = 1 /\ <<e>>[1] = e
      OBVIOUS
    <3> QED BY <2>2, <3>1, Zenon
  <2>4. Invalidates(w, 1, g)
    BY <1>4, <1>6, <2>3 DEF Invalidates
  <2> QED BY <2>3, <2>4
<1>7. CASE l # <<>>
  <2> DEFINE n == Len(v)
  <2>1. w = (v \o <<f>>) \o <<e>>
    BY <1>1, <1>7
  <2>2. /\ w \in Seq(Entries) /\ Len(w) = n + 2 /\ w[n + 2] = e /\ w[n + 1] = f
        /\ \A k \in 1..n : w[k] = v[k]
    <3>1. /\ (v \o <<f>>) \o <<e>> \in Seq(Entries)
          /\ Len((v \o <<f>>) \o <<e>>) = Len(v) + 2
          /\ ((v \o <<f>>) \o <<e>>)[Len(v) + 1] = f
          /\ ((v \o <<f>>) \o <<e>>)[Len(v) + 2] = e
          /\ \A k \in 1..Len(v) : ((v \o <<f>>) \o <<e>>)[k] = v[k]
      BY <1>3, <1>5
    <3> QED BY <2>1, <3>1, Zenon
  <2>4. Has(w, "freelist", g)
    BY <2>2, <1>3, <1>5 DEF Has
  <2>5. ASSUME NEW k \in 1..Len(w), k < n + 2
        PROVE  /\ w[k].do \in {"stop", "detach", "freelist"}
               /\ w[k].do \in {"stop", "detach"} => w[k].on \in ToSet(l)
               /\ w[k].do = "freelist" => w[k].on = g
               /\ w[k].do = "detach" =>
                     Prior(w, k, "stop", w[k].on) /\ Later(w, k, "freelist", g)
    <3>1. CASE k = n + 1
      BY <3>1, <2>2, <1>3
    <3>2. CASE k # n + 1
      <4>1. k \in 1..n /\ w[k] = v[k]
        BY <3>2, <2>2, <2>5, <1>5
      <4>2. /\ w[k].do \in {"stop", "detach"} /\ w[k].on \in ToSet(l)
            /\ w[k].do = "detach" => Prior(v, k, "stop", w[k].on)
        BY <4>1, <1>2 DEF PairsOf
      <4>3. Prior(v, k, "stop", w[k].on) => Prior(w, k, "stop", w[k].on)
        <5>1. \A j \in 1..n : j < k => j \in 1..Len(w) /\ w[j] = v[j]
          BY <2>2, <1>5
        <5> QED BY <5>1 DEF Prior
      <4>4. Later(w, k, "freelist", g)
        <5>1. n + 1 \in 1..Len(w) /\ k < n + 1
          BY <4>1, <2>2, <1>5
        <5> QED BY <5>1, <2>2, <1>3 DEF Later
      <4> QED BY <4>2, <4>3, <4>4
    <3> QED BY <3>1, <3>2
  <2>6. ASSUME NEW s \in ToSet(l) PROVE Prior(w, n + 2, "detach", s)
    <3>1. PICK j \in 1..Len(v) : v[j].do = "detach" /\ v[j].on = s
      BY <1>2 DEF PairsOf, Has
    <3>2. j \in 1..Len(w) /\ j < n + 2 /\ w[j] = v[j]
      BY <2>2, <1>5
    <3> QED BY <3>1, <3>2 DEF Prior
  <2> QED BY <2>2, <2>4, <2>5, <2>6, <1>5 DEF Invalidates
<1> QED BY <1>6, <1>7

\* The list of del_group.
LEMMA DelGroupList ==
    ASSUME NEW g \in Grps, grp[g].stats \in Seq(Stats), NEW w, w = DelGroup(g)
    PROVE  /\ w \in Seq(Entries) /\ Len(w) \in Nat \ {0}
           /\ w[Len(w)].do = "group" /\ w[Len(w)].on = g
           /\ Invalidates(w, Len(w), g)
<1>1. /\ Item("group", g, 0) \in Entries
      /\ Item("group", g, 0).do = "group" /\ Item("group", g, 0).on = g
  BY ItemEntry DEF Items
<1>2. w = Invalidate(g) \o <<Item("group", g, 0)>>
  BY DEF DelGroup
<1> QED
  <2> DEFINE e == Item("group", g, 0)
  <2>1. e \in Entries /\ e.do = "group" /\ e.on = g /\ w = Invalidate(g) \o <<e>>
    BY <1>1, <1>2
  <2> HIDE DEF e
  <2>2. /\ w \in Seq(Entries) /\ Len(w) \in Nat \ {0} /\ w[Len(w)] = e
        /\ Invalidates(w, Len(w), g)
    BY <2>1, InvalidateList, Zenon
  <2> QED BY <2>1, <2>2

\* The lists of del_group for the groups of gs, one behind the other: what
\* holds of item k, and what is somewhere in the list.
DeletesAtItem(w, k, gs) ==
    /\ w[k].do \in {"stop", "detach", "freelist", "group"}
    /\ w[k].do \in {"freelist", "group"} => w[k].on \in ToSet(gs)
    /\ w[k].do \in {"stop", "detach"} =>
          \E g \in ToSet(gs) : w[k].on \in ToSet(grp[g].stats)
    /\ w[k].do = "group" =>
          \A s \in ToSet(grp[w[k].on].stats) : Prior(w, k, "detach", s)
    /\ w[k].do = "detach" =>
          /\ Prior(w, k, "stop", w[k].on)
          /\ \E g \in ToSet(gs) : /\ w[k].on \in ToSet(grp[g].stats)
                                  /\ Later(w, k, "freelist", g)
Deletes(w, gs) ==
    /\ \A k \in 1..Len(w) : DeletesAtItem(w, k, gs)
    /\ \A g \in ToSet(gs) :
          /\ Has(w, "group", g)
          /\ ToSet(grp[g].stats) # {} => Has(w, "freelist", g)

\* An item of a part that deletes one group.
LEMMA DeletesItem ==
    ASSUME NEW gs, NEW g \in ToSet(gs), NEW v, NEW w, NEW a,
           Len(v) \in Nat \ {0}, Len(w) \in Nat, Lies(v, w, a),
           v[Len(v)].do = "group", v[Len(v)].on = g, Invalidates(v, Len(v), g),
           NEW p \in 1..Len(w), p - a \in 1..Len(v)
    PROVE  DeletesAtItem(w, p, gs)
<1>1. p \in Int /\ w[p] = v[p - a]
  BY LiesAt
<1>2. \A do, x : /\ Prior(v, p - a, do, x) => Prior(w, p, do, x)
                 /\ Later(v, p - a, do, x) => Later(w, p, do, x)
  BY <1>1, LiesHas
<1>3. CASE p - a = Len(v)
  BY <1>1, <1>2, <1>3 DEF Invalidates, DeletesAtItem
<1>4. CASE p - a # Len(v)
  <2>1. p - a < Len(v)
    BY <1>4
  <2>2. /\ v[p - a].do \in {"stop", "detach", "freelist"}
        /\ v[p - a].do \in {"stop", "detach"} => v[p - a].on \in ToSet(grp[g].stats)
        /\ v[p - a].do = "freelist" => v[p - a].on = g
        /\ v[p - a].do = "detach" => /\ Prior(v, p - a, "stop", v[p - a].on)
                                     /\ Later(v, p - a, "freelist", g)
    BY <2>1 DEF Invalidates
  <2> QED BY <2>2, <1>1, <1>2 DEF DeletesAtItem
<1> QED BY <1>3, <1>4

\* A list of parts each of which deletes one group.
LEMMA DeletesAt ==
    ASSUME NEW gs \in Seq(Grps),
           NEW ss \in Seq(Seq(Entries)), Len(ss) = Len(gs),
           \A k \in 1..Len(gs) : /\ Len(ss[k]) \in Nat \ {0}
                                 /\ ss[k][Len(ss[k])].do = "group"
                                 /\ ss[k][Len(ss[k])].on = gs[k]
                                 /\ Invalidates(ss[k], Len(ss[k]), gs[k]),
           NEW w, w = FlattenSeq(ss)
    PROVE  w \in Seq(Entries) /\ Deletes(w, gs)
<1>1. /\ w \in Seq(Entries) /\ Len(w) \in Nat
      /\ \A k \in 1..Len(ss) : \E a \in Nat : Lies(ss[k], w, a)
      /\ \A p \in 1..Len(w) : \E k \in 1..Len(ss) : \E a \in Nat :
             Lies(ss[k], w, a) /\ p - a \in 1..Len(ss[k])
  <2>1. /\ w \in Seq(Entries)
        /\ \A k \in 1..Len(ss) : \E a \in Nat : Lies(ss[k], w, a)
        /\ \A p \in 1..Len(w) : \E k \in 1..Len(ss) : \E a \in Nat :
               Lies(ss[k], w, a) /\ p - a \in 1..Len(ss[k])
    BY FlattenParts, Zenon
  <2>2. Len(w) \in Nat
    BY <2>1
  <2> QED BY <2>1, <2>2, Zenon
<1>2. Len(gs) \in Nat /\ DOMAIN gs = 1..Len(gs)
  OBVIOUS
<1>3. ASSUME NEW p \in 1..Len(w) PROVE DeletesAtItem(w, p, gs)
  <2>1. PICK k \in 1..Len(ss) : \E a \in Nat : Lies(ss[k], w, a) /\ p - a \in 1..Len(ss[k])
    BY <1>1
  <2>2. PICK a \in Nat : Lies(ss[k], w, a) /\ p - a \in 1..Len(ss[k])
    BY <2>1
  <2> DEFINE v == ss[k]
             g == gs[k]
  <2>3. /\ Len(v) \in Nat \ {0} /\ v[Len(v)].do = "group" /\ v[Len(v)].on = g
        /\ Invalidates(v, Len(v), g)
        /\ g \in ToSet(gs) /\ Lies(v, w, a) /\ p - a \in 1..Len(v)
    <3>1. k \in 1..Len(gs)
      OBVIOUS
    <3> QED BY <3>1, <1>2, <2>2 DEF ToSet
  <2> HIDE DEF v, g
  <2> QED BY <2>3, <1>1, DeletesItem, Zenon
<1>4. ASSUME NEW g \in ToSet(gs)
      PROVE  /\ Has(w, "group", g)
             /\ ToSet(grp[g].stats) # {} => Has(w, "freelist", g)
  <2>1. PICK k \in 1..Len(gs) : gs[k] = g
    BY <1>2 DEF ToSet
  <2>2. PICK a \in Nat : Lies(ss[k], w, a)
    BY <1>1, <2>1
  <2> DEFINE v == ss[k]
  <2>3. /\ Len(v) \in Nat \ {0} /\ v[Len(v)].do = "group" /\ v[Len(v)].on = g
        /\ Invalidates(v, Len(v), g) /\ Lies(v, w, a) /\ Len(v) \in Nat
    BY <2>1, <2>2
  <2> HIDE DEF v
  <2>4. Has(v, "group", g)
    BY <2>3 DEF Has
  <2>5. ToSet(grp[g].stats) # {} => Has(v, "freelist", g)
    BY <2>3 DEF Invalidates
  <2>6. \A do, x : Has(v, do, x) => Has(w, do, x)
    BY <2>3, <1>1, LiesHas
  <2> QED BY <2>4, <2>5, <2>6
<1> QED BY <1>1, <1>3, <1>4 DEF Deletes

\* The part of del_context's list that deletes the groups.
LEMMA DelGroups ==
    ASSUME NEW gs \in Seq(Grps), \A g \in ToSet(gs) : grp[g].stats \in Seq(Stats),
           NEW w, w = FlattenSeq([k \in DOMAIN gs |-> DelGroup(gs[k])])
    PROVE  w \in Seq(Entries) /\ Deletes(w, gs)
<1> DEFINE ss == [k \in DOMAIN gs |-> DelGroup(gs[k])]
<1>1. Len(gs) \in Nat /\ DOMAIN gs = 1..Len(gs)
  OBVIOUS
<1>2. ASSUME NEW k \in 1..Len(gs)
      PROVE  /\ ss[k] \in Seq(Entries) /\ Len(ss[k]) \in Nat \ {0}
             /\ ss[k][Len(ss[k])].do = "group" /\ ss[k][Len(ss[k])].on = gs[k]
             /\ Invalidates(ss[k], Len(ss[k]), gs[k])
  <2> DEFINE v == ss[k]
             g == gs[k]
  <2>1. g \in Grps /\ grp[g].stats \in Seq(Stats) /\ v = DelGroup(g)
    BY <1>1 DEF ToSet
  <2> HIDE DEF v, g
  <2>2. /\ v \in Seq(Entries) /\ Len(v) \in Nat \ {0}
        /\ v[Len(v)].do = "group" /\ v[Len(v)].on = g
        /\ Invalidates(v, Len(v), g)
    BY <2>1, DelGroupList
  <2> QED BY <2>2 DEF v, g
<1>3. ss \in Seq(Seq(Entries)) /\ Len(ss) = Len(gs)
  <2>1. ss = [k \in 1..Len(gs) |-> ss[k]]
    BY <1>1
  <2>2. DOMAIN ss = 1..Len(gs)
    BY <1>1
  <2> HIDE DEF ss
  <2> QED BY <1>1, <1>2, <2>1, <2>2
<1>4. w = FlattenSeq(ss)
  OBVIOUS
<1> HIDE DEF ss
<1> QED BY <1>2, <1>3, <1>4, DeletesAt

\* The list of del_context: item k, and what is somewhere in the list.
DeletesContextAt(w, k, c) ==
    /\ w[k].do \in {"objects", "stop", "detach", "freelist", "group", "stat", "context"}
    /\ w[k].do = "objects" => w[k].on = c
    /\ w[k].do = "context" => w[k].on = c /\ k = Len(w)
    /\ w[k].do \in {"freelist", "group"} => w[k].on \in ToSet(ctx[c].groups)
    /\ w[k].do = "stop" => \/ w[k].on \in ToSet(ctx[c].stats)
                           \/ \E g \in ToSet(ctx[c].groups) : w[k].on \in ToSet(grp[g].stats)
    /\ w[k].do = "group" =>
          \A s \in ToSet(grp[w[k].on].stats) : Prior(w, k, "detach", s)
    /\ w[k].do = "detach" =>
          /\ Prior(w, k, "stop", w[k].on)
          /\ \E g \in ToSet(ctx[c].groups) : /\ w[k].on \in ToSet(grp[g].stats)
                                             /\ Later(w, k, "freelist", g)
          /\ \A j \in 1..Len(w) : w[j].do = "stat" => k < j
    /\ w[k].do = "stat" => /\ w[k].on \in ToSet(ctx[c].stats)
                           /\ Prior(w, k, "stop", w[k].on)
DeletesContext(w, c) ==
    /\ \A k \in 1..Len(w) : DeletesContextAt(w, k, c)
    /\ Has(w, "objects", c) /\ Has(w, "context", c)
    /\ \A g \in ToSet(ctx[c].groups) :
          /\ Has(w, "group", g)
          /\ ToSet(grp[g].stats) # {} => Has(w, "freelist", g)
    /\ \A s \in ToSet(ctx[c].stats) : Has(w, "stat", s)

\* An item in front of a list.
LEMMA ConsSeq ==
    ASSUME NEW S, NEW o \in S, NEW a \in Seq(S)
    PROVE  /\ <<o>> \o a \in Seq(S) /\ Len(<<o>> \o a) = 1 + Len(a)
           /\ (<<o>> \o a)[1] = o
           /\ \A q \in 1..Len(a) : (<<o>> \o a)[1 + q] = a[q]
<1>1. <<o>> \o a \in Seq(S) /\ Len(<<o>> \o a) = 1 + Len(a)
  OBVIOUS
<1>2. (<<o>> \o a)[1] = o
  OBVIOUS
<1>3. ASSUME NEW q \in 1..Len(a) PROVE (<<o>> \o a)[1 + q] = a[q]
  OBVIOUS
<1> QED BY <1>1, <1>2, <1>3

\* An item and two lists.
LEMMA ConsConcat ==
    ASSUME NEW S, NEW a \in Seq(S), NEW b \in Seq(S), NEW o \in S, NEW x, x = <<o>> \o a
    PROVE  /\ x \o b \in Seq(S) /\ Len(x \o b) = (1 + Len(a)) + Len(b)
           /\ (x \o b)[1] = o
           /\ \A q \in 1..Len(a) : (x \o b)[1 + q] = a[q]
           /\ \A q \in 1..Len(b) : (x \o b)[(1 + Len(a)) + q] = b[q]
<1>1. /\ x \in Seq(S) /\ Len(x) = 1 + Len(a) /\ x[1] = o
      /\ \A q \in 1..Len(a) : x[1 + q] = a[q]
  BY ConsSeq
<1>2. /\ x \o b \in Seq(S) /\ Len(x \o b) = Len(x) + Len(b)
      /\ \A k \in 1..Len(x) : (x \o b)[k] = x[k]
      /\ \A k \in 1..Len(b) : (x \o b)[Len(x) + k] = b[k]
  BY <1>1, ConcatAt
<1> QED BY <1>1, <1>2

\* An item, two lists and an item.
FourIn(w, o, a, b, e, S) ==
    /\ w \in Seq(S) /\ Len(w) = Len(a) + Len(b) + 2
    /\ Len(a) \in Nat /\ Len(b) \in Nat /\ Len(w) \in Nat
    /\ w[1] = o /\ w[Len(w)] = e
    /\ Lies(a, w, 1) /\ Lies(b, w, 1 + Len(a))

\* The four parts of del_context's list and where they lie.
LEMMA FourParts ==
    ASSUME NEW S, NEW a \in Seq(S), NEW b \in Seq(S), NEW o \in S, NEW e \in S
    PROVE  FourIn(((<<o>> \o a) \o b) \o <<e>>, o, a, b, e, S)
<1> DEFINE y == (<<o>> \o a) \o b
           w == y \o <<e>>
<1>0. y = (<<o>> \o a) \o b /\ w = y \o <<e>>
  OBVIOUS
<1> SUFFICES FourIn(w, o, a, b, e, S)
  OBVIOUS
<1> HIDE DEF y, w
<1>1. Len(a) \in Nat /\ Len(b) \in Nat
  OBVIOUS
<1>2. /\ y \in Seq(S) /\ Len(y) = (1 + Len(a)) + Len(b)
      /\ y[1] = o
      /\ \A q \in 1..Len(a) : y[1 + q] = a[q]
      /\ \A q \in 1..Len(b) : y[(1 + Len(a)) + q] = b[q]
  <2> DEFINE x == <<o>> \o a
  <2>1. x = <<o>> \o a /\ y = x \o b
    BY <1>0
  <2> HIDE DEF x
  <2>2. /\ x \o b \in Seq(S) /\ Len(x \o b) = (1 + Len(a)) + Len(b)
        /\ (x \o b)[1] = o
        /\ \A q \in 1..Len(a) : (x \o b)[1 + q] = a[q]
        /\ \A q \in 1..Len(b) : (x \o b)[(1 + Len(a)) + q] = b[q]
    BY <2>1, ConsConcat
  <2> QED BY <2>1, <2>2
<1>3. /\ w \in Seq(S) /\ Len(w) = Len(y) + 1 /\ w[Len(y) + 1] = e
      /\ \A q \in 1..Len(y) : w[q] = y[q]
  BY <1>0, <1>2
<1>6. w[1] = o
  BY <1>1, <1>2, <1>3
<1>7. ASSUME NEW q \in 1..Len(a) PROVE w[1 + q] = a[q]
  <2>1. 1 + q \in 1..Len(y)
    BY <1>1, <1>2
  <2> QED BY <2>1, <1>2, <1>3
<1>8. ASSUME NEW q \in 1..Len(b) PROVE w[(1 + Len(a)) + q] = b[q]
  <2>1. (1 + Len(a)) + q \in 1..Len(y)
    BY <1>1, <1>2
  <2> QED BY <2>1, <1>2, <1>3
<1>9. Lies(a, w, 1) /\ Lies(b, w, 1 + Len(a))
  BY <1>1, <1>2, <1>3, <1>7, <1>8 DEF Lies
<1>10. Len(w) = Len(a) + Len(b) + 2 /\ Len(w) \in Nat /\ w[Len(w)] = e
  BY <1>1, <1>2, <1>3
<1> QED BY <1>1, <1>3, <1>6, <1>9, <1>10 DEF FourIn

\* The list of del_context.
LEMMA DelContextList ==
    ASSUME NEW c \in Ctxs, ctx[c].groups \in Seq(Grps), ctx[c].stats \in Seq(Stats),
           \A g \in ToSet(ctx[c].groups) : grp[g].stats \in Seq(Stats),
           NEW w, w = DelContext(c)
    PROVE  w \in Seq(Entries) /\ Len(w) \in Nat /\ DeletesContext(w, c)
<1> DEFINE gs == ctx[c].groups
           l == ctx[c].stats
           a == FlattenSeq([k \in DOMAIN gs |-> DelGroup(gs[k])])
           b == FlattenSeq([k \in DOMAIN l |-> DelStat(l[k])])
           o == Item("objects", c, 0)
           e == Item("context", c, 0)
<1>1. w = ((<<o>> \o a) \o b) \o <<e>>
  BY DEF DelContext
<1>2. /\ o \in Entries /\ o.do = "objects" /\ o.on = c
      /\ e \in Entries /\ e.do = "context" /\ e.on = c
  BY ItemEntry DEF Items
<1>3. a \in Seq(Entries) /\ Deletes(a, gs)
  <2> HIDE DEF gs
  <2>1. gs \in Seq(Grps) /\ \A g \in ToSet(gs) : grp[g].stats \in Seq(Stats)
    BY DEF gs
  <2> QED BY <2>1, DelGroups
<1>4. PairsOf(b, l, "stat")
  <2> HIDE DEF l
  <2>1. l \in Seq(Stats)
    BY DEF l
  <2>2. b = FlattenSeq([k \in DOMAIN l |-> <<Item("stop", l[k], 0), Item("stat", l[k], 0)>>])
    BY DEF DelStat
  <2> HIDE DEF b
  <2> QED BY <2>1, <2>2, Pairs
<1> HIDE DEF a, b, o, e, gs, l
<1>5. b \in Seq(Entries)
  BY <1>4 DEF PairsOf
<1> DEFINE n == Len(a)
<1>6. /\ w \in Seq(Entries) /\ Len(w) = n + Len(b) + 2
      /\ n \in Nat /\ Len(b) \in Nat /\ Len(w) \in Nat
      /\ w[1] = o /\ w[Len(w)] = e
      /\ Lies(a, w, 1) /\ Lies(b, w, 1 + n)
  <2>1. FourIn(((<<o>> \o a) \o b) \o <<e>>, o, a, b, e, Entries)
    BY <1>2, <1>3, <1>5, FourParts, Zenon
  <2> QED BY <2>1, <1>1 DEF FourIn
<1> HIDE DEF n
<1>7. /\ \A p \in Int : p - 1 \in 1..n => p \in 1..Len(w) /\ w[p] = a[p - 1]
      /\ \A p \in Int : p - (1 + n) \in 1..Len(b) => p \in 1..Len(w) /\ w[p] = b[p - (1 + n)]
  <2>1. \A p \in Int : p - 1 \in 1..Len(a) => p \in 1..Len(w) /\ w[p] = a[p - 1]
    <3> DEFINE m == 1
    <3>1. Lies(a, w, m) /\ Len(a) \in Nat /\ Len(w) \in Nat
      BY <1>6 DEF n
    <3> HIDE DEF m
    <3>2. \A p \in Int : p - m \in 1..Len(a) => p \in 1..Len(w) /\ w[p] = a[p - m]
      BY <3>1, LiesAt
    <3> QED BY <3>2 DEF m
  <2>2. \A p \in Int : p - (1 + n) \in 1..Len(b) => p \in 1..Len(w) /\ w[p] = b[p - (1 + n)]
    <3> DEFINE m == 1 + n
    <3>1. Lies(b, w, m) /\ Len(b) \in Nat /\ Len(w) \in Nat
      BY <1>6
    <3> HIDE DEF m
    <3>2. \A p \in Int : p - m \in 1..Len(b) => p \in 1..Len(w) /\ w[p] = b[p - m]
      BY <3>1, LiesAt
    <3> QED BY <3>2 DEF m
  <2> QED BY <2>1, <2>2 DEF n
<1>8. \A do, x : /\ Has(a, do, x) => Has(w, do, x)
                 /\ Has(b, do, x) => Has(w, do, x)
                 /\ \A p \in Int : /\ Prior(a, p - 1, do, x) => Prior(w, p, do, x)
                                   /\ Later(a, p - 1, do, x) => Later(w, p, do, x)
                                   /\ Prior(b, p - (1 + n), do, x) => Prior(w, p, do, x)
  <2>1. Len(a) \in Nat
    BY <1>6 DEF n
  <2> QED BY <2>1, <1>6, LiesHas, Zenon
<1>9. ASSUME NEW p \in 1..Len(w)
      PROVE  \/ p = 1 /\ w[p] = o
             \/ p = Len(w) /\ w[p] = e
             \/ p - 1 \in 1..n /\ w[p] = a[p - 1]
             \/ p - (1 + n) \in 1..Len(b) /\ w[p] = b[p - (1 + n)] /\ p > 1 + n
  <2>1. p \in Int /\ (p = 1 \/ p = Len(w) \/ p - 1 \in 1..n \/ p - (1 + n) \in 1..Len(b))
    BY <1>6
  <2>2. p - (1 + n) \in 1..Len(b) => p > 1 + n
    BY <1>6
  <2> QED BY <2>1, <2>2, <1>6, <1>7
<1>10. ASSUME NEW p \in 1..Len(w) PROVE DeletesContextAt(w, p, c)
  <2>1. CASE p = 1 /\ w[p] = o
    BY <2>1, <1>2 DEF DeletesContextAt
  <2>2. CASE p = Len(w) /\ w[p] = e
    BY <2>2, <1>2 DEF DeletesContextAt
  <2>3. CASE p - 1 \in 1..n /\ w[p] = a[p - 1]
    <3>1. DeletesAtItem(a, p - 1, gs) /\ p \in Int
      BY <2>3, <1>3 DEF Deletes, n
    <3>2. ASSUME NEW j \in 1..Len(w), w[j].do = "stat" PROVE p < j
      <4>1. ~(j - 1 \in 1..n /\ w[j] = a[j - 1])
        BY <3>2, <1>3 DEF Deletes, DeletesAtItem, n
      <4>2. w[j] # o /\ w[j] # e
        BY <3>2, <1>2
      <4>3. j > 1 + n
        BY <4>1, <4>2, <1>9
      <4> QED BY <4>3, <2>3, <1>6
    <3>3. w[p].do # "stat" /\ w[p].do # "objects" /\ w[p].do # "context"
      BY <3>1, <2>3 DEF DeletesAtItem
    <3> QED BY <3>1, <3>2, <3>3, <2>3, <1>8 DEF DeletesAtItem, DeletesContextAt, gs
  <2>4. CASE p - (1 + n) \in 1..Len(b) /\ w[p] = b[p - (1 + n)]
    <3>1. /\ w[p].do \in {"stop", "stat"} /\ w[p].on \in ToSet(l)
          /\ w[p].do = "stat" => Prior(b, p - (1 + n), "stop", w[p].on)
      BY <2>4, <1>4 DEF PairsOf
    <3>2. p \in Int
      OBVIOUS
    <3>3. w[p].do = "stat" => Prior(w, p, "stop", w[p].on)
      BY <3>1, <3>2, <1>8
    <3> QED BY <3>1, <3>3 DEF DeletesContextAt, l
  <2> QED BY <2>1, <2>2, <2>3, <2>4, <1>9
<1>11. Has(w, "objects", c) /\ Has(w, "context", c)
  <2>1. 1 \in 1..Len(w) /\ Len(w) \in 1..Len(w)
    BY <1>6
  <2> QED BY <2>1, <1>2, <1>6 DEF Has
<1>12. /\ \A g \in ToSet(gs) :
             /\ Has(w, "group", g)
             /\ ToSet(grp[g].stats) # {} => Has(w, "freelist", g)
       /\ \A s \in ToSet(l) : Has(w, "stat", s)
  BY <1>3, <1>4, <1>8 DEF Deletes, PairsOf
<1> QED BY <1>6, <1>10, <1>11, <1>12 DEF DeletesContext, gs, l

-------------------------------------------------------------------------------
(* Lists in order                                                              *)

\* A strictly increasing list, as group_insert_obj keeps the objects of a group.
Sorted(s) == \A i, j \in DOMAIN s : i < j => s[i] < s[j]

\* t is v followed by w.
Joined(t, v, w) ==
    /\ Len(t) = Len(v) + Len(w)
    /\ \A i \in 1..Len(v) : t[i] = v[i]
    /\ \A i \in 1..Len(w) : t[Len(v) + i] = w[i]

\* Concatenation.
LEMMA JoinedIs ==
    ASSUME NEW S, NEW v \in Seq(S), NEW w \in Seq(S)
    PROVE  v \o w \in Seq(S) /\ Joined(v \o w, v, w)
BY DEF Joined

\* t is s without its element k.
Without(t, s, k) ==
    /\ Len(t) = Len(s) - 1
    /\ \A i \in 1..Len(t) : /\ i < k => t[i] = s[i]
                            /\ i >= k => t[i] = s[i + 1]

\* RemoveAt takes out one element and keeps the rest in place.
LEMMA RemoveAtIs ==
    ASSUME NEW S, NEW s \in Seq(S), NEW k \in 1..Len(s)
    PROVE  RemoveAt(s, k) \in Seq(S) /\ Without(RemoveAt(s, k), s, k)
<1> DEFINE v == SubSeq(s, 1, k - 1)
           w == SubSeq(s, k + 1, Len(s))
           t == v \o w
<1>1. /\ v \in Seq(S) /\ Len(v) = k - 1
      /\ \A i \in 1..k - 1 : v[i] = s[i]
  OBVIOUS
<1>2. /\ w \in Seq(S) /\ Len(w) = Len(s) - k
      /\ \A i \in 1..Len(s) - k : w[i] = s[k + i]
  OBVIOUS
<1>3. RemoveAt(s, k) = t
  BY DEF RemoveAt
<1> HIDE DEF v, w
<1>4. /\ t \in Seq(S) /\ Len(t) = Len(v) + Len(w)
      /\ \A i \in 1..Len(v) : t[i] = v[i]
      /\ \A i \in 1..Len(w) : t[Len(v) + i] = w[i]
  <2>1. v \o w \in Seq(S) /\ Joined(v \o w, v, w)
    BY <1>1, <1>2, JoinedIs, Zenon
  <2> QED BY <2>1 DEF Joined
<1> HIDE DEF t
<1>5. Len(s) \in Nat /\ Len(t) = Len(s) - 1
  BY <1>1, <1>2, <1>4
<1>6. ASSUME NEW i \in 1..Len(t), i < k PROVE t[i] = s[i]
  <2>1. i \in 1..Len(v)
    BY <1>1, <1>6
  <2> QED BY <2>1, <1>1, <1>4
<1>7. ASSUME NEW i \in 1..Len(t), i >= k PROVE t[i] = s[i + 1]
  <2>1. i - (k - 1) \in 1..Len(w) /\ Len(v) + (i - (k - 1)) = i /\ k + (i - (k - 1)) = i + 1
    BY <1>1, <1>2, <1>5, <1>7
  <2>2. t[i] = w[i - (k - 1)]
    BY <2>1, <1>4
  <2>3. i - (k - 1) \in 1..Len(s) - k
    BY <2>1, <1>2
  <2>4. w[i - (k - 1)] = s[k + (i - (k - 1))]
    BY <2>3, <1>2
  <2> QED BY <2>1, <2>2, <2>4
<1> QED BY <1>3, <1>4, <1>5, <1>6, <1>7 DEF Without

\* t is s with e before its element k.
With(t, s, k, e) ==
    /\ Len(t) = Len(s) + 1
    /\ \A i \in 1..Len(t) : /\ i < k => t[i] = s[i]
                            /\ i = k => t[i] = e
                            /\ i > k => t[i] = s[i - 1]

\* InsertAt puts an element in and keeps the rest in place.
LEMMA InsertAtIs ==
    ASSUME NEW S, NEW s \in Seq(S), NEW k \in 1..Len(s) + 1, NEW e \in S
    PROVE  InsertAt(s, k, e) \in Seq(S) /\ With(InsertAt(s, k, e), s, k, e)
<1> DEFINE v == SubSeq(s, 1, k - 1)
           w == SubSeq(s, k, Len(s))
           x == v \o <<e>>
           t == x \o w
<1>1. /\ v \in Seq(S) /\ Len(v) = k - 1
      /\ \A i \in 1..k - 1 : v[i] = s[i]
  OBVIOUS
<1>2. /\ w \in Seq(S) /\ Len(w) = Len(s) - (k - 1)
      /\ \A i \in 1..Len(s) - (k - 1) : w[i] = s[(k - 1) + i]
  OBVIOUS
<1>3. InsertAt(s, k, e) = t
  BY DEF InsertAt
<1> HIDE DEF v, w
<1>4. /\ x \in Seq(S) /\ Len(x) = Len(v) + 1 /\ x[Len(v) + 1] = e
      /\ \A i \in 1..Len(v) : x[i] = v[i]
  BY <1>1
<1> HIDE DEF x
<1>5. /\ t \in Seq(S) /\ Len(t) = Len(x) + Len(w)
      /\ \A i \in 1..Len(x) : t[i] = x[i]
      /\ \A i \in 1..Len(w) : t[Len(x) + i] = w[i]
  <2>1. x \o w \in Seq(S) /\ Joined(x \o w, x, w)
    BY <1>2, <1>4, JoinedIs, Zenon
  <2> QED BY <2>1 DEF Joined
<1> HIDE DEF t
<1>6. Len(s) \in Nat /\ Len(t) = Len(s) + 1 /\ Len(x) = k
  BY <1>1, <1>2, <1>4, <1>5
<1>7. ASSUME NEW i \in 1..Len(t), i < k PROVE t[i] = s[i]
  <2>1. i \in 1..Len(v) /\ i \in 1..Len(x) /\ i \in 1..k - 1
    BY <1>1, <1>6, <1>7
  <2> QED BY <2>1, <1>1, <1>4, <1>5
<1>8. t[k] = e
  BY <1>1, <1>4, <1>5, <1>6
<1>9. ASSUME NEW i \in 1..Len(t), i > k PROVE t[i] = s[i - 1]
  <2>1. i - k \in 1..Len(w) /\ Len(x) + (i - k) = i /\ (k - 1) + (i - k) = i - 1
    BY <1>2, <1>6, <1>9
  <2>2. t[i] = w[i - k]
    BY <2>1, <1>5
  <2>3. i - k \in 1..Len(s) - (k - 1)
    BY <2>1, <1>2
  <2>4. w[i - k] = s[(k - 1) + (i - k)]
    BY <2>3, <1>2
  <2> QED BY <2>1, <2>2, <2>4
<1> QED BY <1>3, <1>5, <1>6, <1>7, <1>8, <1>9 DEF With

\* RemoveFirst takes out one element, or nothing.
LEMMA RemoveFirstIs ==
    ASSUME NEW S, NEW s \in Seq(S), NEW x
    PROVE  \/ x \notin ToSet(s) /\ RemoveFirst(s, x) = s
           \/ \E k \in 1..Len(s) : /\ s[k] = x /\ RemoveFirst(s, x) \in Seq(S)
                                   /\ Without(RemoveFirst(s, x), s, k)
<1>1. DOMAIN s = 1..Len(s) /\ Len(s) \in Nat
  OBVIOUS
<1>2. CASE \E i \in 1..Len(s) : s[i] = x
  <2> DEFINE I == {i \in 1..Len(s) : s[i] = x}
             k == IF I # {} THEN Min(I) ELSE 0
  <2>1. I # {} /\ I \in SUBSET Nat
    BY <1>2, <1>1
  <2>2. k \in I
    <3> HIDE DEF I
    <3> QED BY <2>1, MinOf
  <2>3. RemoveFirst(s, x) = RemoveAt(s, k)
    BY <1>2 DEF RemoveFirst, SelectInSeq
  <2> HIDE DEF k
  <2> QED BY <2>2, <2>3, RemoveAtIs
<1>3. CASE ~ \E i \in 1..Len(s) : s[i] = x
  BY <1>1, <1>3 DEF RemoveFirst, ToSet
<1> QED BY <1>2, <1>3

\* From a list without duplicates it takes out the element.
LEMMA RemoveFirstInjective ==
    ASSUME NEW S, NEW s \in Seq(S), NEW x, IsInjective(s)
    PROVE  /\ RemoveFirst(s, x) \in Seq(S) /\ IsInjective(RemoveFirst(s, x))
           /\ ToSet(RemoveFirst(s, x)) = ToSet(s) \ {x}
<1> DEFINE t == RemoveFirst(s, x)
<1>0. DOMAIN s = 1..Len(s) /\ Len(s) \in Nat
  OBVIOUS
<1>1. CASE x \notin ToSet(s) /\ t = s
  BY <1>1
<1>2. CASE \E k \in 1..Len(s) : s[k] = x /\ t \in Seq(S) /\ Without(t, s, k)
  <2>1. PICK k \in 1..Len(s) : s[k] = x /\ t \in Seq(S) /\ Without(t, s, k)
    BY <1>2
  <2> HIDE DEF t
  <2> DEFINE up == [i \in 1..Len(t) |-> IF i < k THEN i ELSE i + 1]
  <2>2. DOMAIN t = 1..Len(t) /\ Len(t) \in Nat /\ Len(t) = Len(s) - 1
    BY <2>1, <1>0 DEF Without
  <2>3. \A i \in 1..Len(t) : up[i] \in 1..Len(s) /\ up[i] # k /\ t[i] = s[up[i]]
    BY <2>1, <2>2, <1>0 DEF Without
  <2>4. \A i, j \in 1..Len(t) : up[i] = up[j] => i = j
    BY <2>2
  <2>5. \A m \in 1..Len(s) : m # k => \E i \in 1..Len(t) : up[i] = m
    <3> TAKE m \in 1..Len(s)
    <3>1. CASE m < k
      <4>1. m \in 1..Len(t) /\ up[m] = m
        BY <2>2, <3>1, <1>0
      <4> QED BY <4>1
    <3>2. CASE m > k
      <4>1. m - 1 \in 1..Len(t) /\ up[m - 1] = m
        BY <2>2, <3>2, <1>0
      <4> QED BY <4>1
    <3> QED BY <3>1, <3>2
  <2> HIDE DEF up
  <2>6. IsInjective(t)
    <3> SUFFICES ASSUME NEW i \in 1..Len(t), NEW j \in 1..Len(t), t[i] = t[j] PROVE i = j
      BY <2>2 DEF IsInjective
    <3>1. s[up[i]] = s[up[j]]
      BY <2>3
    <3>2. up[i] = up[j]
      BY <3>1, <2>3, <1>0 DEF IsInjective
    <3> QED BY <3>2, <2>4
  <2>7. ASSUME NEW y \in ToSet(t) PROVE y \in ToSet(s) \ {x}
    <3>1. PICK i \in 1..Len(t) : y = t[i]
      BY <2>2 DEF ToSet
    <3>2. y = s[up[i]] /\ up[i] \in 1..Len(s) /\ up[i] # k
      BY <3>1, <2>3
    <3>3. s[up[i]] # s[k]
      BY <3>2, <1>0 DEF IsInjective
    <3> QED BY <3>2, <3>3, <2>1, <1>0 DEF ToSet
  <2>8. ASSUME NEW y \in ToSet(s) \ {x} PROVE y \in ToSet(t)
    <3>1. PICK m \in 1..Len(s) : y = s[m]
      BY <1>0 DEF ToSet
    <3>2. m # k
      BY <3>1, <2>1
    <3>3. PICK i \in 1..Len(t) : up[i] = m
      BY <3>2, <2>5
    <3>4. y = t[i]
      BY <3>1, <3>3, <2>3
    <3> QED BY <3>4, <2>2 DEF ToSet
  <2> QED BY <2>1, <2>6, <2>7, <2>8 DEF t
<1> QED BY <1>1, <1>2, RemoveFirstIs

\* A strictly increasing list repeats nothing.
LEMMA SortedInjective ==
    ASSUME NEW s \in Seq(Nat), Sorted(s)
    PROVE  IsInjective(s)
<1> SUFFICES ASSUME NEW i \in DOMAIN s, NEW j \in DOMAIN s, s[i] = s[j], i # j PROVE FALSE
  BY DEF IsInjective
<1>1. i \in Nat /\ j \in Nat /\ s[i] \in Nat /\ s[j] \in Nat
  OBVIOUS
<1>2. i < j \/ j < i
  BY <1>1
<1> QED BY <1>1, <1>2 DEF Sorted

\* What it leaves is in order.
LEMMA RemoveFirstSorted ==
    ASSUME NEW s \in Seq(Nat), NEW x, Sorted(s)
    PROVE  Sorted(RemoveFirst(s, x))
<1> DEFINE t == RemoveFirst(s, x)
<1>0. DOMAIN s = 1..Len(s) /\ Len(s) \in Nat
  OBVIOUS
<1>1. CASE t = s
  BY <1>1
<1>2. CASE \E k \in 1..Len(s) : s[k] = x /\ t \in Seq(Nat) /\ Without(t, s, k)
  <2>1. PICK k \in 1..Len(s) : s[k] = x /\ t \in Seq(Nat) /\ Without(t, s, k)
    BY <1>2
  <2> HIDE DEF t
  <2>2. DOMAIN t = 1..Len(t) /\ Len(t) \in Nat /\ Len(t) = Len(s) - 1
    BY <2>1, <1>0 DEF Without
  <2>3. ASSUME NEW i \in 1..Len(t), NEW j \in 1..Len(t), i < j PROVE t[i] < t[j]
    <3>1. i \in DOMAIN s /\ j \in DOMAIN s /\ i + 1 \in DOMAIN s /\ j + 1 \in DOMAIN s
      BY <2>2, <1>0
    <3>a. /\ i < k => t[i] = s[i]
          /\ i >= k => t[i] = s[i + 1]
          /\ j < k => t[j] = s[j]
          /\ j >= k => t[j] = s[j + 1]
      BY <2>1 DEF Without
    <3>2. \/ i < k /\ j < k /\ t[i] = s[i] /\ t[j] = s[j]
          \/ i < k /\ j >= k /\ t[i] = s[i] /\ t[j] = s[j + 1]
          \/ i >= k /\ j >= k /\ t[i] = s[i + 1] /\ t[j] = s[j + 1]
      <4>1. i \in Nat /\ j \in Nat /\ k \in Nat
        OBVIOUS
      <4> QED BY <3>a, <4>1, <2>3
    <3>3. s[i] < s[j] /\ s[i] < s[j + 1] /\ s[i + 1] < s[j + 1]
      <4>1. i < j + 1 /\ i + 1 < j + 1
        BY <2>3
      <4> QED BY <3>1, <4>1, <2>3 DEF Sorted
    <3> QED BY <3>2, <3>3
  <2>4. Sorted(t)
    BY <2>2, <2>3 DEF Sorted
  <2> QED BY <2>4 DEF t
<1> QED BY <1>1, <1>2, RemoveFirstIs

\* A sequence of elements of a set.
LEMMA Within2 ==
    ASSUME NEW S, NEW T, NEW s \in Seq(T), ToSet(s) \subseteq S
    PROVE  s \in Seq(S)
<1>1. /\ DOMAIN s = 1..Len(s) /\ Len(s) \in Nat
      /\ \A i \in 1..Len(s) : s[i] \in S
  BY DEF ToSet
<1> QED BY <1>1

\* The elements of a sequence.
LEMMA ToSetIn ==
    ASSUME NEW S, NEW s \in Seq(S)
    PROVE  ToSet(s) \subseteq S
BY DEF ToSet

\* What group_insert_obj makes of a list in order.
LEMMA InsertSortedIs ==
    ASSUME NEW s \in Seq(Nat), NEW o \in Nat, Sorted(s)
    PROVE  /\ InsertSorted(s, o) \in Seq(Nat) /\ Sorted(InsertSorted(s, o))
           /\ ToSet(InsertSorted(s, o)) = ToSet(s) \cup {o}
<1>0. DOMAIN s = 1..Len(s) /\ Len(s) \in Nat /\ \A i \in 1..Len(s) : s[i] \in Nat
  OBVIOUS
<1>1. CASE o \in ToSet(s)
  BY <1>1 DEF InsertSorted
<1>2. CASE o \notin ToSet(s)
  <2> DEFINE I == {i \in DOMAIN s : o < s[i]} \cup {Len(s) + 1}
             k == Min(I)
             t == InsertAt(s, k, o)
  <2>1. InsertSorted(s, o) = t
    BY <1>2 DEF InsertSorted
  <2>2. I \in SUBSET Nat /\ I # {}
    BY <1>0
  <2>3. k \in I /\ \A i \in I : k <= i
    <3> HIDE DEF I
    <3> QED BY <2>2, MinOf
  <2>4. k \in 1..Len(s) + 1
    BY <2>3, <1>0
  <2>5. k # Len(s) + 1 => k \in 1..Len(s) /\ o < s[k]
    BY <2>3, <1>0
  <2>6. ASSUME NEW i \in 1..Len(s), i < k PROVE s[i] < o
    <3>1. i \notin I
      <4>1. ~(k <= i)
        BY <2>6, <2>4
      <4> QED BY <4>1, <2>3
    <3>2. ~(o < s[i]) /\ s[i] # o
      BY <3>1, <1>0, <1>2 DEF ToSet
    <3> QED BY <3>2, <1>0
  <2> HIDE DEF k
  <2>7. t \in Seq(Nat) /\ With(t, s, k, o)
    BY <2>4, InsertAtIs
  <2> HIDE DEF t, I
  <2>8. DOMAIN t = 1..Len(t) /\ Len(t) \in Nat /\ Len(t) = Len(s) + 1
    BY <2>7 DEF With
  <2>9. ASSUME NEW i \in 1..Len(t)
        PROVE  /\ i < k => i \in 1..Len(s) /\ t[i] = s[i] /\ s[i] < o
               /\ i = k => t[i] = o
               /\ i > k => i - 1 \in 1..Len(s) /\ t[i] = s[i - 1] /\ o < s[i - 1]
    <3>1. CASE i < k
      BY <3>1, <2>4, <2>6, <2>7, <2>8, <1>0 DEF With
    <3>2. CASE i = k
      BY <3>2, <2>7 DEF With
    <3>3. CASE i > k
      <4>1. i - 1 \in 1..Len(s) /\ k <= i - 1 /\ k \in 1..Len(s) /\ t[i] = s[i - 1]
        BY <3>3, <2>4, <2>7, <2>8, <1>0 DEF With
      <4>2. o < s[k]
        BY <4>1, <2>5, <1>0
      <4>3. k = i - 1 \/ s[k] < s[i - 1]
        BY <4>1, <1>0 DEF Sorted
      <4> QED BY <3>3, <4>1, <4>2, <4>3, <1>0
    <3> QED BY <3>1, <3>2, <3>3, <2>4
  <2>10. ASSUME NEW i \in 1..Len(t), NEW j \in 1..Len(t), i < j PROVE t[i] < t[j]
    <3>1. i \in Nat /\ j \in Nat /\ k \in Nat
      BY <2>4
    <3>2. CASE j < k
      <4>1. i < k /\ i \in 1..Len(s) /\ t[i] = s[i]
        BY <3>1, <3>2, <2>9, <2>10
      <4>2. j \in 1..Len(s) /\ t[j] = s[j]
        BY <3>2, <2>9
      <4> QED BY <4>1, <4>2, <2>10, <1>0 DEF Sorted
    <3>3. CASE j = k
      BY <3>1, <3>3, <2>9, <2>10
    <3>4. CASE j > k
      <4>1. CASE i <= k
        <5>1. t[i] <= o /\ t[i] \in Nat
          BY <4>1, <3>1, <2>9, <1>0
        <5> QED BY <5>1, <3>1, <3>4, <2>9, <1>0
      <4>2. CASE i > k
        <5>1. i - 1 < j - 1 /\ i - 1 \in 1..Len(s) /\ j - 1 \in 1..Len(s)
          BY <4>2, <3>1, <3>4, <2>9, <2>10
        <5> QED BY <5>1, <4>2, <3>4, <2>9, <1>0 DEF Sorted
      <4> QED BY <4>1, <4>2, <3>1
    <3> QED BY <3>1, <3>2, <3>3, <3>4
  <2>11. ToSet(t) = ToSet(s) \cup {o}
    <3>1. ASSUME NEW y \in ToSet(t) PROVE y \in ToSet(s) \cup {o}
      <4>1. PICK i \in 1..Len(t) : y = t[i]
        BY <2>8 DEF ToSet
      <4>2. i < k \/ i = k \/ i > k
        BY <2>4
      <4> QED BY <4>1, <4>2, <2>9, <1>0 DEF ToSet
    <3>2. ASSUME NEW y \in ToSet(s) PROVE y \in ToSet(t)
      <4>1. PICK i \in 1..Len(s) : y = s[i]
        BY <1>0 DEF ToSet
      <4>2. CASE i < k
        <5>1. i \in 1..Len(t) /\ t[i] = s[i]
          BY <4>2, <2>7, <2>8, <1>0 DEF With
        <5> QED BY <4>1, <5>1, <2>8 DEF ToSet
      <4>3. CASE i >= k
        <5>1. i + 1 \in 1..Len(t) /\ i + 1 > k /\ (i + 1) - 1 = i
          BY <4>3, <2>4, <2>8, <1>0
        <5>2. t[i + 1] = s[i]
          BY <5>1, <2>9
        <5> QED BY <4>1, <5>1, <5>2, <2>8 DEF ToSet
      <4> QED BY <4>2, <4>3, <2>4
    <3>3. o \in ToSet(t)
      BY <2>4, <2>8, <2>9 DEF ToSet
    <3> QED BY <3>1, <3>2, <3>3
  <2> QED BY <2>1, <2>7, <2>8, <2>10, <2>11 DEF Sorted
<1> QED BY <1>1, <1>2

\* A smaller element in front of a list in order.
LEMMA ConsSorted ==
    ASSUME NEW s \in Seq(Nat), NEW o \in Nat, Sorted(s), \A y \in ToSet(s) : o < y
    PROVE  /\ <<o>> \o s \in Seq(Nat) /\ Sorted(<<o>> \o s)
           /\ ToSet(<<o>> \o s) = {o} \cup ToSet(s)
<1> DEFINE t == <<o>> \o s
<1>0. DOMAIN s = 1..Len(s) /\ Len(s) \in Nat /\ \A i \in 1..Len(s) : s[i] \in Nat
  OBVIOUS
<1>1. /\ t \in Seq(Nat) /\ Len(t) = 1 + Len(s) /\ t[1] = o
      /\ \A q \in 1..Len(s) : t[1 + q] = s[q]
  BY ConsSeq
<1> HIDE DEF t
<1>2. DOMAIN t = 1..Len(t) /\ Len(t) = Len(s) + 1
  BY <1>1, <1>0
<1>3. ASSUME NEW i \in 1..Len(t), i # 1 PROVE i - 1 \in 1..Len(s) /\ t[i] = s[i - 1]
  <2>1. i - 1 \in 1..Len(s) /\ 1 + (i - 1) = i
    BY <1>2, <1>3, <1>0
  <2>2. t[1 + (i - 1)] = s[i - 1]
    BY <2>1, <1>1
  <2> QED BY <2>1, <2>2
<1>4. ASSUME NEW i \in 1..Len(t), NEW j \in 1..Len(t), i < j PROVE t[i] < t[j]
  <2>1. j - 1 \in 1..Len(s) /\ t[j] = s[j - 1]
    BY <1>3, <1>4
  <2>2. CASE i = 1
    BY <2>1, <2>2, <1>0, <1>1 DEF ToSet
  <2>3. CASE i # 1
    <3>1. i - 1 \in 1..Len(s) /\ t[i] = s[i - 1] /\ i - 1 < j - 1
      BY <1>3, <1>4, <2>3
    <3> QED BY <2>1, <3>1, <1>0 DEF Sorted
  <2> QED BY <2>2, <2>3
<1>5. ToSet(t) = {o} \cup ToSet(s)
  <2>1. ASSUME NEW y \in ToSet(t) PROVE y \in {o} \cup ToSet(s)
    <3>1. PICK i \in 1..Len(t) : y = t[i]
      BY <1>2 DEF ToSet
    <3> QED BY <3>1, <1>0, <1>1, <1>3 DEF ToSet
  <2>2. o \in ToSet(t)
    BY <1>0, <1>1, <1>2 DEF ToSet
  <2>3. ASSUME NEW y \in ToSet(s) PROVE y \in ToSet(t)
    <3>1. PICK i \in 1..Len(s) : y = s[i]
      BY <1>0 DEF ToSet
    <3>2. 1 + i \in 1..Len(t) /\ t[1 + i] = s[i]
      BY <1>0, <1>1, <1>2
    <3> QED BY <3>1, <3>2, <1>2 DEF ToSet
  <2> QED BY <2>1, <2>2, <2>3
<1> QED BY <1>1, <1>2, <1>4, <1>5 DEF t, Sorted

\* What is left of a list from position i on.
After(s, i) == {s[k] : k \in i..Len(s)}

\* The rest of a list in order.
LEMMA RestIs ==
    ASSUME NEW s \in Seq(Nat), NEW i \in 1..Len(s) + 1, Sorted(s)
    PROVE  /\ SubSeq(s, i, Len(s)) \in Seq(Nat) /\ Sorted(SubSeq(s, i, Len(s)))
           /\ ToSet(SubSeq(s, i, Len(s))) = After(s, i)
<1> DEFINE t == SubSeq(s, i, Len(s))
<1>0. DOMAIN s = 1..Len(s) /\ Len(s) \in Nat /\ i \in Nat \ {0}
  OBVIOUS
<1>1. /\ t \in Seq(Nat) /\ Len(t) = Len(s) - (i - 1)
      /\ \A q \in 1..Len(s) - (i - 1) : t[q] = s[(i - 1) + q]
  OBVIOUS
<1> HIDE DEF t
<1>2. DOMAIN t = 1..Len(t) /\ Len(t) \in Nat
  BY <1>1
<1>3. ASSUME NEW q \in 1..Len(t) PROVE (i - 1) + q \in i..Len(s) /\ t[q] = s[(i - 1) + q]
  BY <1>0, <1>1
<1>4. ASSUME NEW p \in 1..Len(t), NEW q \in 1..Len(t), p < q PROVE t[p] < t[q]
  <2>1. /\ (i - 1) + p \in 1..Len(s) /\ (i - 1) + q \in 1..Len(s)
        /\ (i - 1) + p < (i - 1) + q
    BY <1>0, <1>3, <1>4
  <2> QED BY <2>1, <1>0, <1>3 DEF Sorted
<1>5. ASSUME NEW y \in ToSet(t) PROVE y \in After(s, i)
  BY <1>2, <1>3 DEF ToSet, After
<1>6. ASSUME NEW y \in After(s, i) PROVE y \in ToSet(t)
  <2>1. PICK k \in i..Len(s) : y = s[k]
    BY DEF After
  <2>2. k - (i - 1) \in 1..Len(t) /\ (i - 1) + (k - (i - 1)) = k
    BY <1>0, <1>1
  <2>3. t[k - (i - 1)] = s[k]
    BY <2>2, <1>3
  <2> QED BY <2>1, <2>2, <2>3, <1>2 DEF ToSet
<1> QED BY <1>1, <1>2, <1>4, <1>5, <1>6 DEF t, Sorted

\* The rest of a list in order, element by element.
LEMMA AfterIs ==
    ASSUME NEW s \in Seq(Nat), NEW i \in 1..Len(s) + 1, Sorted(s)
    PROVE  /\ i > Len(s) => After(s, i) = {}
           /\ i <= Len(s) =>
                 /\ i \in 1..Len(s) /\ i + 1 \in 1..Len(s) + 1 /\ s[i] \in Nat
                 /\ After(s, i) = {s[i]} \cup After(s, i + 1)
                 /\ \A y \in After(s, i + 1) : s[i] < y
           /\ After(s, i) \subseteq Nat
           /\ After(s, 1) = ToSet(s)
<1>0. DOMAIN s = 1..Len(s) /\ Len(s) \in Nat /\ i \in Nat \ {0}
  OBVIOUS
<1>1. i > Len(s) => After(s, i) = {}
  BY <1>0 DEF After
<1>2. ASSUME i <= Len(s)
      PROVE  /\ i \in 1..Len(s) /\ i + 1 \in 1..Len(s) + 1 /\ s[i] \in Nat
             /\ After(s, i) = {s[i]} \cup After(s, i + 1)
             /\ \A y \in After(s, i + 1) : s[i] < y
  <2>1. i..Len(s) = {i} \cup ((i + 1)..Len(s)) /\ i \in 1..Len(s)
    BY <1>0, <1>2
  <2>2. \A k \in (i + 1)..Len(s) : k \in 1..Len(s) /\ i < k
    BY <1>0
  <2>3. s[i] \in Nat /\ i + 1 \in 1..Len(s) + 1
    BY <2>1, <1>0
  <2>4. After(s, i) = {s[i]} \cup After(s, i + 1)
    BY <2>1, Zenon DEF After
  <2>5. \A k \in (i + 1)..Len(s) : s[i] < s[k]
    BY <2>1, <2>2, <1>0, Zenon DEF Sorted
  <2>6. \A y \in After(s, i + 1) : s[i] < y
    BY <2>5, Zenon DEF After
  <2> QED BY <2>1, <2>3, <2>4, <2>6
<1>3. After(s, i) \subseteq Nat
  BY <1>0 DEF After
<1>4. After(s, 1) = ToSet(s)
  BY <1>0 DEF After, ToSet
<1> QED BY <1>1, <1>2, <1>3, <1>4

\* The set operation a walk is meant to do.
Picked(lower1, equal, lower2, A, B) ==
    (IF lower1 THEN A \ B ELSE {}) \cup (IF equal THEN A \cap B ELSE {})
        \cup (IF lower2 THEN B \ A ELSE {})

\* What the walk finds from a position on each list.
Finds(r, s, t, i, j, lower1, equal, lower2) ==
    /\ r \in Seq(Nat) /\ Sorted(r)
    /\ ToSet(r) = Picked(lower1, equal, lower2, After(s, i), After(t, j))

\* One list of the walk is at its end.
LEMMA FindsEnd ==
    ASSUME NEW s \in Seq(Nat), NEW t \in Seq(Nat), Sorted(s), Sorted(t),
           NEW i \in 1..Len(s) + 1, NEW j \in 1..Len(t) + 1,
           NEW lower1 \in BOOLEAN, NEW equal \in BOOLEAN, NEW lower2 \in BOOLEAN
    PROVE  /\ i > Len(s) => Finds(IF lower2 THEN SubSeq(t, j, Len(t)) ELSE <<>>,
                                  s, t, i, j, lower1, equal, lower2)
           /\ j > Len(t) => Finds(IF lower1 THEN SubSeq(s, i, Len(s)) ELSE <<>>,
                                  s, t, i, j, lower1, equal, lower2)
<1>1. <<>> \in Seq(Nat) /\ Sorted(<<>>) /\ ToSet(<<>>) = {}
  BY DEF Sorted, ToSet
<1>2. /\ SubSeq(t, j, Len(t)) \in Seq(Nat) /\ Sorted(SubSeq(t, j, Len(t)))
      /\ ToSet(SubSeq(t, j, Len(t))) = After(t, j)
  BY RestIs
<1>3. /\ SubSeq(s, i, Len(s)) \in Seq(Nat) /\ Sorted(SubSeq(s, i, Len(s)))
      /\ ToSet(SubSeq(s, i, Len(s))) = After(s, i)
  BY RestIs
<1>4. /\ i > Len(s) => After(s, i) = {}
      /\ j > Len(t) => After(t, j) = {}
  BY AfterIs
<1>5. i > Len(s) => Finds(IF lower2 THEN SubSeq(t, j, Len(t)) ELSE <<>>,
                          s, t, i, j, lower1, equal, lower2)
  <2> DEFINE u == SubSeq(t, j, Len(t))
             e == <<>>
  <2> HIDE DEF u, e
  <2>1. i > Len(s) => Finds(IF lower2 THEN u ELSE e, s, t, i, j, lower1, equal, lower2)
    <3>1. e \in Seq(Nat) /\ Sorted(e) /\ ToSet(e) = {}
      BY <1>1 DEF e
    <3>2. u \in Seq(Nat) /\ Sorted(u) /\ ToSet(u) = After(t, j)
      BY <1>2 DEF u
    <3> QED BY <3>1, <3>2, <1>4 DEF Finds, Picked
  <2> QED BY <2>1 DEF u, e
<1>6. j > Len(t) => Finds(IF lower1 THEN SubSeq(s, i, Len(s)) ELSE <<>>,
                          s, t, i, j, lower1, equal, lower2)
  <2> DEFINE u == SubSeq(s, i, Len(s))
             e == <<>>
  <2> HIDE DEF u, e
  <2>1. j > Len(t) => Finds(IF lower1 THEN u ELSE e, s, t, i, j, lower1, equal, lower2)
    <3>1. e \in Seq(Nat) /\ Sorted(e) /\ ToSet(e) = {}
      BY <1>1 DEF e
    <3>2. u \in Seq(Nat) /\ Sorted(u) /\ ToSet(u) = After(s, i)
      BY <1>3 DEF u
    <3> QED BY <3>1, <3>2, <1>4 DEF Finds, Picked
  <2> QED BY <2>1 DEF u, e
<1> QED BY <1>5, <1>6

\* One step of the walk: the lower of the two objects, or both when they are
\* equal.
Step(p, o, r) == (IF p THEN <<o>> ELSE <<>>) \o r

\* o is smaller than everything in r.
Below(o, r) == \A y \in ToSet(r) : o < y
\* What a turn of the walk adds to the rest that it finds.
Steps(p, o, r) ==
    /\ Step(p, o, r) \in Seq(Nat) /\ Sorted(Step(p, o, r))
    /\ ToSet(Step(p, o, r)) = (IF p THEN {o} ELSE {}) \cup ToSet(r)

\* A turn adds its element in front.
LEMMA StepIs ==
    ASSUME NEW p \in BOOLEAN, NEW o \in Nat, NEW r \in Seq(Nat), Sorted(r), Below(o, r)
    PROVE  Steps(p, o, r)
<1>0. \A y \in ToSet(r) : o < y
  BY DEF Below
<1> SUFFICES /\ Step(p, o, r) \in Seq(Nat) /\ Sorted(Step(p, o, r))
             /\ ToSet(Step(p, o, r)) = (IF p THEN {o} ELSE {}) \cup ToSet(r)
  BY DEF Steps
<1>1. CASE p
  <2>1. Step(p, o, r) = <<o>> \o r
    BY <1>1 DEF Step
  <2> QED BY <2>1, <1>0, <1>1, ConsSorted
<1>2. CASE ~p
  <2>1. Step(p, o, r) = <<>> \o r
    BY <1>2 DEF Step
  <2>2. <<>> \o r = r
    OBVIOUS
  <2> QED BY <2>1, <2>2, <1>2
<1> QED BY <1>1, <1>2

\* A turn of the walk, from what the walk finds behind it.
LEMMA FindsStep ==
    ASSUME NEW s \in Seq(Nat), NEW t \in Seq(Nat), Sorted(s), Sorted(t),
           NEW i \in 1..Len(s) + 1, NEW j \in 1..Len(t) + 1, i <= Len(s), j <= Len(t),
           NEW lower1 \in BOOLEAN, NEW equal \in BOOLEAN, NEW lower2 \in BOOLEAN, NEW r
    PROVE  /\ s[i] < t[j] /\ Finds(r, s, t, i + 1, j, lower1, equal, lower2) =>
                 Finds(Step(lower1, s[i], r), s, t, i, j, lower1, equal, lower2)
           /\ s[i] = t[j] /\ Finds(r, s, t, i + 1, j + 1, lower1, equal, lower2) =>
                 Finds(Step(equal, s[i], r), s, t, i, j, lower1, equal, lower2)
           /\ t[j] < s[i] /\ Finds(r, s, t, i, j + 1, lower1, equal, lower2) =>
                 Finds(Step(lower2, t[j], r), s, t, i, j, lower1, equal, lower2)
<1> DEFINE A == After(s, i + 1)  B == After(t, j + 1)  a == s[i]  b == t[j]
<1>1. /\ a \in Nat /\ After(s, i) = {a} \cup A /\ \A y \in A : a < y
      /\ After(s, i) \subseteq Nat
  BY AfterIs
<1>2. /\ b \in Nat /\ After(t, j) = {b} \cup B /\ \A y \in B : b < y
      /\ After(t, j) \subseteq Nat
  BY AfterIs
<1> HIDE DEF A, B, a, b
<1>3. ASSUME a < b, Finds(r, s, t, i + 1, j, lower1, equal, lower2)
      PROVE  Finds(Step(lower1, a, r), s, t, i, j, lower1, equal, lower2)
  <2>1. /\ r \in Seq(Nat) /\ Sorted(r)
        /\ ToSet(r) = Picked(lower1, equal, lower2, A, {b} \cup B)
    BY <1>2, <1>3 DEF Finds, A
  <2>2. \A y \in {b} \cup B : a < y
    BY <1>1, <1>2, <1>3
  <2>3. \A y \in ToSet(r) : a < y
    BY <2>1, <2>2, <1>1 DEF Picked
  <2>4. Picked(lower1, equal, lower2, {a} \cup A, {b} \cup B)
          = (IF lower1 THEN {a} ELSE {}) \cup Picked(lower1, equal, lower2, A, {b} \cup B)
    <3>1. a \notin {b} \cup B /\ a \notin A
      <4>1. ~(a < a)
        BY <1>1
      <4> QED BY <4>1, <2>2, <1>1, Zenon
    <3> DEFINE C == {b} \cup B
    <3>2. a \notin C
      BY <3>1
    <3> HIDE DEF C
    <3>3. Picked(lower1, equal, lower2, {a} \cup A, C)
             = (IF lower1 THEN {a} ELSE {}) \cup Picked(lower1, equal, lower2, A, C)
      BY <3>1, <3>2 DEF Picked
    <3> QED BY <3>3 DEF C
  <2>5. /\ Step(lower1, a, r) \in Seq(Nat) /\ Sorted(Step(lower1, a, r))
        /\ ToSet(Step(lower1, a, r)) = (IF lower1 THEN {a} ELSE {}) \cup ToSet(r)
    <3>1. lower1 \in BOOLEAN /\ a \in Nat /\ r \in Seq(Nat) /\ Sorted(r) /\ Below(a, r)
      BY <2>1, <2>3, <1>1, <1>2 DEF Below
    <3>2. Steps(lower1, a, r)
      BY <3>1, StepIs, Zenon
    <3> QED BY <3>2 DEF Steps
  <2> QED BY <2>1, <2>4, <2>5, <1>1, <1>2 DEF Finds
<1>4. ASSUME a = b, Finds(r, s, t, i + 1, j + 1, lower1, equal, lower2)
      PROVE  Finds(Step(equal, a, r), s, t, i, j, lower1, equal, lower2)
  <2>1. /\ r \in Seq(Nat) /\ Sorted(r)
        /\ ToSet(r) = Picked(lower1, equal, lower2, A, B)
    BY <1>4 DEF Finds, A, B
  <2>2. \A y \in A \cup B : a < y
    BY <1>1, <1>2, <1>4
  <2>3. \A y \in ToSet(r) : a < y
    BY <2>1, <2>2 DEF Picked
  <2>4. Picked(lower1, equal, lower2, {a} \cup A, {b} \cup B)
          = (IF equal THEN {a} ELSE {}) \cup Picked(lower1, equal, lower2, A, B)
    <3>1. a \notin B /\ a \notin A
      BY <2>2, <1>1
    <3> QED BY <3>1, <1>4 DEF Picked
  <2>5. /\ Step(equal, a, r) \in Seq(Nat) /\ Sorted(Step(equal, a, r))
        /\ ToSet(Step(equal, a, r)) = (IF equal THEN {a} ELSE {}) \cup ToSet(r)
    <3>1. equal \in BOOLEAN /\ a \in Nat /\ r \in Seq(Nat) /\ Sorted(r) /\ Below(a, r)
      BY <2>1, <2>3, <1>1, <1>2 DEF Below
    <3>2. Steps(equal, a, r)
      BY <3>1, StepIs, Zenon
    <3> QED BY <3>2 DEF Steps
  <2> QED BY <2>1, <2>4, <2>5, <1>1, <1>2 DEF Finds
<1>5. ASSUME b < a, Finds(r, s, t, i, j + 1, lower1, equal, lower2)
      PROVE  Finds(Step(lower2, b, r), s, t, i, j, lower1, equal, lower2)
  <2>1. /\ r \in Seq(Nat) /\ Sorted(r)
        /\ ToSet(r) = Picked(lower1, equal, lower2, {a} \cup A, B)
    BY <1>1, <1>5 DEF Finds, B
  <2>2. \A y \in {a} \cup A : b < y
    BY <1>1, <1>2, <1>5
  <2>3. \A y \in ToSet(r) : b < y
    BY <2>1, <2>2, <1>2 DEF Picked
  <2>4. Picked(lower1, equal, lower2, {a} \cup A, {b} \cup B)
          = (IF lower2 THEN {b} ELSE {}) \cup Picked(lower1, equal, lower2, {a} \cup A, B)
    <3>1. b \notin {a} \cup A /\ b \notin B
      <4>1. ~(b < b)
        BY <1>2
      <4> QED BY <4>1, <2>2, <1>2, Zenon
    <3> DEFINE C == {a} \cup A
    <3>2. b \notin C
      BY <3>1
    <3> HIDE DEF C
    <3>3. Picked(lower1, equal, lower2, C, {b} \cup B)
             = (IF lower2 THEN {b} ELSE {}) \cup Picked(lower1, equal, lower2, C, B)
      BY <3>1, <3>2 DEF Picked
    <3> QED BY <3>3 DEF C
  <2>5. /\ Step(lower2, b, r) \in Seq(Nat) /\ Sorted(Step(lower2, b, r))
        /\ ToSet(Step(lower2, b, r)) = (IF lower2 THEN {b} ELSE {}) \cup ToSet(r)
    <3>1. lower2 \in BOOLEAN /\ b \in Nat /\ r \in Seq(Nat) /\ Sorted(r) /\ Below(b, r)
      BY <2>1, <2>3, <1>1, <1>2 DEF Below
    <3>2. Steps(lower2, b, r)
      BY <3>1, StepIs, Zenon
    <3> QED BY <3>2 DEF Steps
  <2> QED BY <2>1, <2>4, <2>5, <1>1, <1>2 DEF Finds
<1> QED BY <1>3, <1>4, <1>5 DEF a, b

\* A turn that takes the element of the first list.
LEMMA FindsLower1 ==
    ASSUME NEW s \in Seq(Nat), NEW t \in Seq(Nat), Sorted(s), Sorted(t),
           NEW i \in 1..Len(s) + 1, NEW j \in 1..Len(t) + 1, i <= Len(s), j <= Len(t),
           NEW lower1 \in BOOLEAN, NEW equal \in BOOLEAN, NEW lower2 \in BOOLEAN, NEW r,
           s[i] < t[j], Finds(r, s, t, i + 1, j, lower1, equal, lower2)
    PROVE  Finds(Step(lower1, s[i], r), s, t, i, j, lower1, equal, lower2)
BY FindsStep

\* A turn that takes the element of both.
LEMMA FindsEqual ==
    ASSUME NEW s \in Seq(Nat), NEW t \in Seq(Nat), Sorted(s), Sorted(t),
           NEW i \in 1..Len(s) + 1, NEW j \in 1..Len(t) + 1, i <= Len(s), j <= Len(t),
           NEW lower1 \in BOOLEAN, NEW equal \in BOOLEAN, NEW lower2 \in BOOLEAN, NEW r,
           s[i] = t[j], Finds(r, s, t, i + 1, j + 1, lower1, equal, lower2)
    PROVE  Finds(Step(equal, s[i], r), s, t, i, j, lower1, equal, lower2)
BY FindsStep

\* A turn that takes the element of the second list.
LEMMA FindsLower2 ==
    ASSUME NEW s \in Seq(Nat), NEW t \in Seq(Nat), Sorted(s), Sorted(t),
           NEW i \in 1..Len(s) + 1, NEW j \in 1..Len(t) + 1, i <= Len(s), j <= Len(t),
           NEW lower1 \in BOOLEAN, NEW equal \in BOOLEAN, NEW lower2 \in BOOLEAN, NEW r,
           t[j] < s[i], Finds(r, s, t, i, j + 1, lower1, equal, lower2)
    PROVE  Finds(Step(lower2, t[j], r), s, t, i, j, lower1, equal, lower2)
BY FindsStep

\* The walk of group_union and its likes over two lists in order gives, in order,
\* the set operation it is meant to do, by induction on what is left of both lists.
LEMMA WalkIs ==
    ASSUME NEW s \in Seq(Nat), NEW t \in Seq(Nat), Sorted(s), Sorted(t),
           NEW lower1 \in BOOLEAN, NEW equal \in BOOLEAN, NEW lower2 \in BOOLEAN
    PROVE  /\ Walk(s, t, lower1, equal, lower2) \in Seq(Nat)
           /\ Sorted(Walk(s, t, lower1, equal, lower2))
           /\ ToSet(Walk(s, t, lower1, equal, lower2))
                = Picked(lower1, equal, lower2, ToSet(s), ToSet(t))
<1> DEFINE When(p, o) == IF p THEN <<o>> ELSE <<>>
           D == (1..Len(s) + 1) \X (1..Len(t) + 1)
           Body(f, at) ==
              LET i == at[1]  j == at[2]
              IN  IF i > Len(s) THEN IF lower2 THEN SubSeq(t, j, Len(t)) ELSE <<>>
                  ELSE IF j > Len(t) THEN IF lower1 THEN SubSeq(s, i, Len(s)) ELSE <<>>
                  ELSE IF s[i] < t[j] THEN When(lower1, s[i]) \o f[<<i + 1, j>>]
                  ELSE IF s[i] = t[j] THEN When(equal, s[i]) \o f[<<i + 1, j + 1>>]
                  ELSE When(lower2, t[j]) \o f[<<i, j + 1>>]
           mu(at) == (Len(s) + 1 - at[1]) + (Len(t) + 1 - at[2])
           Dn(m) == {at \in D : mu(at) <= m}
           Good(m) == \E f : f = [at \in Dn(m) |-> Body(f, at)]
           walk == CHOOSE f : f = [at \in D |-> Body(f, at)]
           Fine(at) == Finds(walk[at], s, t, at[1], at[2], lower1, equal, lower2)
           T == {m \in Nat : Good(m)}
           U == {m \in Nat : \A at \in Dn(m) : Fine(at)}
<1>0. Len(s) \in Nat /\ Len(t) \in Nat
  OBVIOUS
<1>1. ASSUME NEW at \in D
      PROVE  /\ at[1] \in 1..Len(s) + 1 /\ at[2] \in 1..Len(t) + 1 /\ at = <<at[1], at[2]>>
             /\ mu(at) \in Nat
  BY <1>0
<1>2. ASSUME NEW at \in D, at[1] <= Len(s), at[2] <= Len(t)
      PROVE  /\ <<at[1] + 1, at[2]>> \in D /\ mu(<<at[1] + 1, at[2]>>) = mu(at) - 1
             /\ <<at[1] + 1, at[2] + 1>> \in D /\ mu(<<at[1] + 1, at[2] + 1>>) = mu(at) - 2
             /\ <<at[1], at[2] + 1>> \in D /\ mu(<<at[1], at[2] + 1>>) = mu(at) - 1
  <2> DEFINE i == at[1]  j == at[2]
  <2>1. i \in 1..Len(s) /\ j \in 1..Len(t) /\ i \in Int /\ j \in Int
    BY <1>0, <1>1, <1>2
  <2>2. /\ i + 1 \in 1..Len(s) + 1 /\ j + 1 \in 1..Len(t) + 1
        /\ i \in 1..Len(s) + 1 /\ j \in 1..Len(t) + 1
    BY <2>1, <1>0
  <2>3. mu(at) = (Len(s) + 1 - i) + (Len(t) + 1 - j)
    OBVIOUS
  <2> HIDE DEF i, j
  <2>4. <<i + 1, j>> \in D /\ <<i + 1, j + 1>> \in D /\ <<i, j + 1>> \in D
    BY <2>2
  <2>5. mu(<<i + 1, j>>) = (Len(s) + 1 - (i + 1)) + (Len(t) + 1 - j)
    OBVIOUS
  <2>6. mu(<<i + 1, j + 1>>) = (Len(s) + 1 - (i + 1)) + (Len(t) + 1 - (j + 1))
    OBVIOUS
  <2>7. mu(<<i, j + 1>>) = (Len(s) + 1 - i) + (Len(t) + 1 - (j + 1))
    OBVIOUS
  <2> HIDE DEF mu, D
  <2>8. /\ mu(<<i + 1, j>>) = mu(at) - 1
        /\ mu(<<i + 1, j + 1>>) = mu(at) - 2
        /\ mu(<<i, j + 1>>) = mu(at) - 1
    BY <2>1, <2>3, <2>5, <2>6, <2>7, <1>0
  <2> QED BY <2>4, <2>8 DEF i, j
<1>3. ASSUME NEW at \in D, NEW f, NEW g, \A b \in D : mu(b) < mu(at) => f[b] = g[b]
      PROVE  Body(f, at) = Body(g, at)
  <2>1. CASE at[1] > Len(s)
    BY <2>1
  <2>2. CASE at[1] <= Len(s) /\ at[2] > Len(t)
    BY <2>2, <1>0, <1>1
  <2>3. CASE at[1] <= Len(s) /\ at[2] <= Len(t)
    <3>1. /\ f[<<at[1] + 1, at[2]>>] = g[<<at[1] + 1, at[2]>>]
          /\ f[<<at[1] + 1, at[2] + 1>>] = g[<<at[1] + 1, at[2] + 1>>]
          /\ f[<<at[1], at[2] + 1>>] = g[<<at[1], at[2] + 1>>]
      <4> HIDE DEF mu, D, Body
      <4>1. /\ mu(at) \in Nat /\ mu(at) - 1 < mu(at) /\ mu(at) - 2 < mu(at)
        BY <1>1
      <4> QED BY <4>1, <1>2, <1>3, <2>3
    <3> QED BY <3>1, Zenon
  <2>4. at[1] \in Int /\ at[2] \in Int
    BY <1>1
  <2> HIDE DEF Body
  <2> QED BY <2>1, <2>2, <2>3, <2>4, <1>0
<1>4. 0 \in T
  <2> DEFINE f == [at \in Dn(0) |-> Body(<<>>, at)]
  <2>1. ASSUME NEW at \in Dn(0) PROVE Body(<<>>, at) = Body(f, at)
    <3>1. \A b \in D : mu(b) < mu(at) => <<>>[b] = f[b]
      <4> HIDE DEF f, mu
      <4> QED BY <1>1
    <3> HIDE DEF f, Body, mu
    <3> QED BY <3>1, <1>3, Zenon
  <2>2. f = [at \in Dn(0) |-> Body(f, at)]
    <3> DEFINE e == <<>>
    <3>1. f = [at \in Dn(0) |-> Body(e, at)]
      OBVIOUS
    <3>2. \A at \in Dn(0) : Body(e, at) = Body(f, at)
      BY <2>1
    <3> HIDE DEF f, e, Body, Dn
    <3> QED BY <3>1, <3>2, Zenon
  <2> HIDE DEF f, Body, Dn
  <2> QED BY <2>2
<1>5. ASSUME NEW m \in Nat, m \in T PROVE m + 1 \in T
  <2>1. PICK f : f = [at \in Dn(m) |-> Body(f, at)]
    BY <1>5
  <2> DEFINE g == [at \in Dn(m + 1) |-> Body(f, at)]
  <2> HIDE DEF Body, mu
  <2>2. \A at \in Dn(m + 1) : g[at] = Body(f, at)
    BY Zenon
  <2> HIDE DEF g
  <2>3. \A b \in Dn(m) : f[b] = Body(f, b)
    BY <2>1, Zenon
  <2>4. ASSUME NEW at \in Dn(m + 1) PROVE Body(f, at) = Body(g, at)
    <3>1. ASSUME NEW b \in D, mu(b) < mu(at) PROVE f[b] = g[b]
      <4>1. mu(b) \in Nat /\ mu(at) \in Nat /\ mu(at) <= m + 1
        BY <1>1
      <4>2. b \in Dn(m) /\ b \in Dn(m + 1)
        BY <3>1, <4>1
      <4> QED BY <4>2, <2>2, <2>3, Zenon
    <3> QED BY <3>1, <1>3
  <2>5. g = [at \in Dn(m + 1) |-> Body(g, at)]
    <3> HIDE DEF Dn
    <3> QED BY <2>4, Zenon DEF g
  <2> HIDE DEF Dn
  <2>6. Good(m + 1)
    BY <2>5, Zenon
  <2> HIDE DEF Good
  <2> QED BY <2>6
<1>6. walk = [at \in D |-> Body(walk, at)]
  <2> DEFINE n == Len(s) + Len(t)
  <2>1. n \in Nat /\ Dn(n) = D
    BY <1>0
  <2>2. Good(n)
    <3> HIDE DEF Good, n
    <3> HIDE DEF T
    <3>1. n \in T
      BY <1>4, <1>5, <2>1, Induction
    <3> QED BY <3>1 DEF T
  <2> HIDE DEF n, Dn, Body, D
  <2>3. \E f : f = [at \in D |-> Body(f, at)]
    BY <2>1, <2>2
  <2> QED BY <2>3, Zenon
<1>7. Walk(s, t, lower1, equal, lower2) = walk[<<1, 1>>]
  BY DEF Walk
<1>8. \A at \in D : walk[at] = Body(walk, at)
  <2> HIDE DEF walk, D, Body
  <2> QED BY <1>6, Zenon
<1> HIDE DEF walk
<1>9. ASSUME NEW at \in D, \A b \in D : mu(b) < mu(at) => Fine(b) PROVE Fine(at)
  <2> DEFINE i == at[1]  j == at[2]
  <2>0. i \in 1..Len(s) + 1 /\ j \in 1..Len(t) + 1
    BY <1>1
  <2>1. CASE i > Len(s)
    <3>1. walk[at] = IF lower2 THEN SubSeq(t, j, Len(t)) ELSE <<>>
      BY <1>8, <2>1
    <3> HIDE DEF i, j
    <3>2. Finds(IF lower2 THEN SubSeq(t, j, Len(t)) ELSE <<>>,
                s, t, i, j, lower1, equal, lower2)
      BY <2>0, <2>1, FindsEnd
    <3> QED BY <3>1, <3>2, Zenon DEF i, j
  <2>2. CASE i <= Len(s) /\ j > Len(t)
    <3>1. walk[at] = IF lower1 THEN SubSeq(s, i, Len(s)) ELSE <<>>
      <4>1. ~(i > Len(s))
        BY <2>2, <2>0, <1>0
      <4> QED BY <1>8, <2>2, <4>1, Zenon
    <3> HIDE DEF i, j
    <3>2. Finds(IF lower1 THEN SubSeq(s, i, Len(s)) ELSE <<>>,
                s, t, i, j, lower1, equal, lower2)
      BY <2>0, <2>2, FindsEnd
    <3> QED BY <3>1, <3>2, Zenon DEF i, j
  <2>3. CASE i <= Len(s) /\ j <= Len(t)
    <3>0. i \in 1..Len(s) /\ j \in 1..Len(t) /\ s[i] \in Nat /\ t[j] \in Nat
      BY <2>0, <2>3, <1>0
    <3>1. ~(i > Len(s)) /\ ~(j > Len(t))
      BY <3>0, <1>0
    <3>2. /\ s[i] < t[j] => walk[at] = Step(lower1, s[i], walk[<<i + 1, j>>])
          /\ s[i] = t[j] => walk[at] = Step(equal, s[i], walk[<<i + 1, j + 1>>])
          /\ t[j] < s[i] => walk[at] = Step(lower2, t[j], walk[<<i, j + 1>>])
      <4>1. /\ s[i] = t[j] => ~(s[i] < t[j])
            /\ t[j] < s[i] => ~(s[i] < t[j]) /\ s[i] # t[j]
        <5>1. \A x, y \in Nat : (x = y => ~(x < y)) /\ (y < x => ~(x < y) /\ x # y)
          OBVIOUS
        <5> HIDE DEF i, j
        <5> QED BY <3>0, <5>1, Zenon
      <4> QED BY <1>8, <3>1, <4>1, Zenon DEF Step
    <3>3. /\ Finds(walk[<<i + 1, j>>], s, t, i + 1, j, lower1, equal, lower2)
          /\ Finds(walk[<<i + 1, j + 1>>], s, t, i + 1, j + 1, lower1, equal, lower2)
          /\ Finds(walk[<<i, j + 1>>], s, t, i, j + 1, lower1, equal, lower2)
      <4>1. /\ <<i + 1, j>> \in D /\ mu(<<i + 1, j>>) < mu(at)
            /\ <<i + 1, j + 1>> \in D /\ mu(<<i + 1, j + 1>>) < mu(at)
            /\ <<i, j + 1>> \in D /\ mu(<<i, j + 1>>) < mu(at)
        <5> HIDE DEF mu, D
        <5>1. mu(at) \in Nat
          BY <1>1
        <5> QED BY <5>1, <1>2, <2>3
      <4>2. /\ Fine(<<i + 1, j>>) /\ Fine(<<i + 1, j + 1>>) /\ Fine(<<i, j + 1>>)
        <5> HIDE DEF mu, D, Fine, i, j
        <5> QED BY <4>1, <1>9
      <4> QED BY <4>2
    <3>4. s[i] < t[j] \/ s[i] = t[j] \/ t[j] < s[i]
      BY <3>0
    <3>5. Finds(walk[at], s, t, i, j, lower1, equal, lower2)
      <4> HIDE DEF i, j
      <4>1. CASE s[i] < t[j]
        <5>1. Finds(Step(lower1, s[i], walk[<<i + 1, j>>]), s, t, i, j, lower1, equal, lower2)
          <6> DEFINE r == walk[<<i + 1, j>>]
          <6>1. Finds(r, s, t, i + 1, j, lower1, equal, lower2)
            BY <3>3
          <6>2. i <= Len(s) /\ j <= Len(t)
            BY <2>3
          <6> HIDE DEF r
          <6>3. Finds(Step(lower1, s[i], r), s, t, i, j, lower1, equal, lower2)
            BY <4>1, <2>0, <6>1, <6>2, FindsLower1
          <6> QED BY <6>3 DEF r
        <5> QED BY <4>1, <5>1, <3>2, Zenon
      <4>2. CASE s[i] = t[j]
        <5>1. Finds(Step(equal, s[i], walk[<<i + 1, j + 1>>]), s, t, i, j, lower1, equal, lower2)
          <6> DEFINE r == walk[<<i + 1, j + 1>>]
          <6>1. Finds(r, s, t, i + 1, j + 1, lower1, equal, lower2)
            BY <3>3
          <6>2. i <= Len(s) /\ j <= Len(t)
            BY <2>3
          <6> HIDE DEF r
          <6>3. Finds(Step(equal, s[i], r), s, t, i, j, lower1, equal, lower2)
            BY <4>2, <2>0, <6>1, <6>2, FindsEqual
          <6> QED BY <6>3 DEF r
        <5> QED BY <4>2, <5>1, <3>2, Zenon
      <4>3. CASE t[j] < s[i]
        <5>1. Finds(Step(lower2, t[j], walk[<<i, j + 1>>]), s, t, i, j, lower1, equal, lower2)
          <6> DEFINE r == walk[<<i, j + 1>>]
          <6>1. Finds(r, s, t, i, j + 1, lower1, equal, lower2)
            BY <3>3
          <6>2. i <= Len(s) /\ j <= Len(t)
            BY <2>3
          <6> HIDE DEF r
          <6>3. Finds(Step(lower2, t[j], r), s, t, i, j, lower1, equal, lower2)
            BY <4>3, <2>0, <6>1, <6>2, FindsLower2
          <6> QED BY <6>3 DEF r
        <5> QED BY <4>3, <5>1, <3>2, Zenon
      <4> QED BY <4>1, <4>2, <4>3, <3>4
    <3> QED BY <3>5
  <2> QED BY <2>1, <2>2, <2>3, <2>0, <1>0
<1>10. 0 \in U
  <2> SUFFICES ASSUME NEW at \in Dn(0) PROVE Fine(at)
    OBVIOUS
  <2>1. \A b \in D : mu(b) < mu(at) => Fine(b)
    <3> HIDE DEF Fine, mu
    <3> QED BY <1>1
  <2> HIDE DEF Fine, mu
  <2> QED BY <2>1, <1>9
<1>11. ASSUME NEW m \in Nat, m \in U PROVE m + 1 \in U
  <2> HIDE DEF Fine, mu
  <2> SUFFICES ASSUME NEW at \in Dn(m + 1) PROVE Fine(at)
    OBVIOUS
  <2>1. ASSUME NEW b \in D, mu(b) < mu(at) PROVE Fine(b)
    <3>1. mu(b) \in Nat /\ mu(at) \in Nat /\ mu(at) <= m + 1
      BY <1>1
    <3>2. b \in Dn(m)
      BY <2>1, <3>1
    <3> QED BY <3>2, <1>11
  <2> QED BY <2>1, <1>9
<1>12. Fine(<<1, 1>>)
  <2> DEFINE n == Len(s) + Len(t)
  <2>1. n \in Nat /\ <<1, 1>> \in Dn(n)
    BY <1>0
  <2>2. n \in U
    <3> HIDE DEF U, n
    <3> QED BY <1>10, <1>11, <2>1, Induction
  <2> HIDE DEF Fine, Dn, n
  <2> QED BY <2>1, <2>2
<1>13. Finds(walk[<<1, 1>>], s, t, 1, 1, lower1, equal, lower2)
  BY <1>12
<1>14. After(s, 1) = ToSet(s) /\ After(t, 1) = ToSet(t)
  <2>1. 1 \in 1..Len(s) + 1 /\ 1 \in 1..Len(t) + 1
    BY <1>0
  <2> QED BY <2>1, AfterIs
<1> QED BY <1>7, <1>13, <1>14 DEF Finds

\* Max gives the largest element of a nonempty bounded set.
LEMMA MaxOf ==
    ASSUME NEW m \in Nat, NEW T \in SUBSET (1..m), T # {}
    PROVE  Max(T) \in T /\ \A y \in T : Max(T) >= y
<1> DEFINE R == {m - y : y \in T}
<1>1. R \in SUBSET Nat /\ R # {}
  <2>1. \A y \in T : m - y \in Nat
    OBVIOUS
  <2>2. PICK y \in T : TRUE
    OBVIOUS
  <2> QED BY <2>1, <2>2
<1>2. PICK r \in R : \A z \in R : r <= z
  BY <1>1, Least
<1>3. PICK x \in T : r = m - x
  OBVIOUS
<1>4. ASSUME NEW y \in T PROVE x >= y
  <2>1. m - x <= m - y
    BY <1>2, <1>3
  <2> QED BY <2>1
<1>5. \E x0 \in T : \A y \in T : x0 >= y
  BY <1>4
<1> QED BY <1>5, Zenon DEF Max

\* What populate_named_group collects: the wanted objects, in order.
LEMMA CollectIs ==
    ASSUME NEW W, Traversal \in Seq(Nat)
    PROVE  /\ Collect(W) \in Seq(Nat) /\ Sorted(Collect(W))
           /\ ToSet(Collect(W)) = ToSet(Traversal) \cap W
<1> DEFINE n == Len(Traversal)
           Put(s, o) == IF o \in W THEN InsertSorted(s, o) ELSE s
           Body(f, T) == IF T = {} THEN <<>>
                         ELSE Put(f[T \ {Max(T)}], Traversal[Max(T)])
           Good(m) == \E f : f = [T \in SUBSET (1..m) |-> Body(f, T)]
           iter == CHOOSE f : f = [T \in SUBSET (1..n) |-> Body(f, T)]
           Fine(T) == /\ iter[T] \in Seq(Nat) /\ Sorted(iter[T])
                      /\ ToSet(iter[T]) = {Traversal[i] : i \in T} \cap W
           K == {m \in Nat : Good(m)}
           U == {m \in Nat : m <= n => \A T \in SUBSET (1..m) : Fine(T)}
<1>0. /\ n \in Nat /\ DOMAIN Traversal = 1..n
      /\ \A i \in 1..n : Traversal[i] \in Nat
  OBVIOUS
<1>1. ASSUME NEW m \in Nat, NEW T \in SUBSET (1..m + 1), T # {}
      PROVE  /\ Max(T) \in T /\ T \ {Max(T)} \in SUBSET (1..m)
  <2>1. Max(T) \in T /\ \A y \in T : Max(T) >= y
    <3>1. m + 1 \in Nat
      OBVIOUS
    <3> QED BY <3>1, <1>1, MaxOf
  <2>2. ASSUME NEW y \in T, y # Max(T) PROVE y \in 1..m
    <3>1. y \in 1..m + 1 /\ Max(T) \in 1..m + 1 /\ Max(T) >= y
      BY <2>1
    <3> QED BY <3>1, <2>2
  <2> QED BY <2>1, <2>2
<1>2. 0 \in K
  <2> DEFINE f == [T \in SUBSET (1..0) |-> <<>>]
  <2>1. ASSUME NEW T \in SUBSET (1..0) PROVE Body(f, T) = <<>>
    <3>1. T = {}
      OBVIOUS
    <3> QED BY <3>1
  <2>2. f = [T \in SUBSET (1..0) |-> Body(f, T)]
    <3> HIDE DEF Body
    <3> QED BY <2>1, Zenon
  <2> HIDE DEF f, Body
  <2> QED BY <2>2
<1>3. ASSUME NEW m \in Nat, m \in K PROVE m + 1 \in K
  <2>1. PICK f : f = [T \in SUBSET (1..m) |-> Body(f, T)]
    BY <1>3
  <2> DEFINE g == [T \in SUBSET (1..m + 1) |-> Body(f, T)]
  <2>2. \A T \in SUBSET (1..m + 1) : g[T] = Body(f, T)
    <3> HIDE DEF Body
    <3> QED BY Zenon
  <2>3. \A T \in SUBSET (1..m) : f[T] = Body(f, T)
    <3> HIDE DEF Body
    <3> QED BY <2>1, Zenon
  <2> HIDE DEF g
  <2>4. \A T \in SUBSET (1..m) : g[T] = f[T]
    <3> HIDE DEF Body
    <3>1. \A T \in SUBSET (1..m) : T \in SUBSET (1..m + 1)
      OBVIOUS
    <3> QED BY <3>1, <2>2, <2>3, Zenon
  <2>5. ASSUME NEW T \in SUBSET (1..m + 1) PROVE Body(f, T) = Body(g, T)
    <3>1. CASE T = {}
      BY <3>1
    <3>2. CASE T # {}
      <4>1. T \ {Max(T)} \in SUBSET (1..m)
        BY <1>1, <3>2
      <4>2. f[T \ {Max(T)}] = g[T \ {Max(T)}]
        BY <4>1, <2>4, Zenon
      <4> HIDE DEF Put
      <4> QED BY <4>2, Zenon
    <3> QED BY <3>1, <3>2
  <2>6. g = [T \in SUBSET (1..m + 1) |-> Body(g, T)]
    <3> HIDE DEF Body
    <3> QED BY <2>5, Zenon DEF g
  <2> HIDE DEF Body
  <2> QED BY <2>6
<1>4. iter = [T \in SUBSET (1..n) |-> Body(iter, T)]
  <2>1. n \in K
    <3> HIDE DEF K, n
    <3> QED BY <1>0, <1>2, <1>3, Induction
  <2> HIDE DEF Body, n
  <2>2. Good(n)
    BY <2>1
  <2> QED BY <2>2, Zenon
<1>5. Collect(W) = iter[1..n]
  BY <1>0 DEF Collect, FoldLeft, MapThenFoldSet
<1>6. \A T \in SUBSET (1..n) : iter[T] = Body(iter, T)
  <2> HIDE DEF iter, Body
  <2> QED BY <1>4, Zenon
<1> HIDE DEF iter
<1>7. ASSUME NEW T \in SUBSET (1..n), T # {}, Fine(T \ {Max(T)}), Max(T) \in T PROVE Fine(T)
  <2> DEFINE r == iter[T \ {Max(T)}]
             o == Traversal[Max(T)]
  <2>1. iter[T] = Put(r, o)
    BY <1>6, <1>7
  <2>2. /\ r \in Seq(Nat) /\ Sorted(r)
        /\ ToSet(r) = {Traversal[i] : i \in T \ {Max(T)}} \cap W
    BY <1>7
  <2>3. o \in Nat
    BY <1>0, <1>7
  <2>4. {Traversal[i] : i \in T} = {o} \cup {Traversal[i] : i \in T \ {Max(T)}}
    BY <1>7
  <2> HIDE DEF r, o
  <2>5. CASE o \in W
    <3>1. iter[T] = InsertSorted(r, o)
      BY <2>1, <2>5
    <3>2. /\ InsertSorted(r, o) \in Seq(Nat) /\ Sorted(InsertSorted(r, o))
          /\ ToSet(InsertSorted(r, o)) = ToSet(r) \cup {o}
      BY <2>2, <2>3, InsertSortedIs, Zenon
    <3>3. ToSet(r) \cup {o} = {Traversal[i] : i \in T} \cap W
      BY <2>2, <2>4, <2>5, Zenon
    <3> QED BY <3>1, <3>2, <3>3, Zenon
  <2>6. CASE o \notin W
    BY <2>1, <2>2, <2>4, <2>6
  <2> QED BY <2>5, <2>6
<1>8. 0 \in U
  <2> SUFFICES ASSUME NEW T \in SUBSET (1..0) PROVE Fine(T)
    OBVIOUS
  <2>1. T = {} /\ T \in SUBSET (1..n)
    OBVIOUS
  <2>2. iter[T] = <<>>
    BY <2>1, <1>6
  <2>3. <<>> \in Seq(Nat) /\ Sorted(<<>>) /\ ToSet(<<>>) = {}
    BY DEF Sorted, ToSet
  <2> QED BY <2>1, <2>2, <2>3
<1>9. ASSUME NEW m \in Nat, m \in U PROVE m + 1 \in U
  <2> HIDE DEF Fine
  <2> SUFFICES ASSUME m + 1 <= n, NEW T \in SUBSET (1..m + 1) PROVE Fine(T)
    OBVIOUS
  <2>1. m <= n /\ T \in SUBSET (1..n)
    BY <1>0
  <2>2. \A Q \in SUBSET (1..m) : Fine(Q)
    BY <1>9, <2>1
  <2>3. CASE T = {}
    BY <2>2, <2>3
  <2>4. CASE T # {}
    BY <2>1, <2>2, <2>4, <1>1, <1>7
  <2> QED BY <2>3, <2>4
<1>10. Fine(1..n)
  <2>1. n \in U
    <3> HIDE DEF U, n
    <3> QED BY <1>0, <1>8, <1>9, Induction
  <2> HIDE DEF Fine
  <2> QED BY <2>1, <1>0
<1>11. {Traversal[i] : i \in 1..n} = ToSet(Traversal)
  BY <1>0 DEF ToSet
<1> QED BY <1>5, <1>10, <1>11

-------------------------------------------------------------------------------
(* The inductive invariant.  Its parts are predicates of the work list and of  *)
(* the tables, so that what holds of them before a step and after it is        *)
(* stated once.                                                                *)

\* The values of the variables that every step keeps in their range.
BaseTypes ==
    /\ prog \in Programs
    /\ ctx \in [Ctxs -> ContextRecords \cup {None}]
    /\ status \in [Statuses -> Ctxs \cup {None}]
    /\ hint \in [Hints -> HintRecords \cup {None}]
    /\ main \in Seq(Entries)
    /\ initcount \in Nat /\ logctx \in BOOLEAN
    /\ failed \in BOOLEAN /\ dangling \in BOOLEAN

\* Those of the others, as long as no freed memory was used.
TableTypes ==
    /\ grp \in [Grps -> GroupRecords \cup {None}]
    /\ stat \in [Stats -> StatRecords \cup {None}]
    /\ thr \in [Stats -> [pc : {"none", "init", "test", "read", "use", "update", "done"},
                          i : Nat, reading : Seq(Objs \X Int)]]
    /\ die \in [Stats -> BOOLEAN]

\* A context that is being destroyed has left the map and is freed last; a hint
\* belongs to an object that still exists.
ItemOfContext(w, k, cx) ==
    /\ w[k].do = "objects" => /\ w[k].on \in Ctxs /\ cx[w[k].on] # None
                              /\ ~cx[w[k].on].mapped
    /\ w[k].do = "context" => /\ w[k].on \in Ctxs /\ cx[w[k].on] # None
                              /\ ~cx[w[k].on].mapped /\ k = Len(w)
ContextKept(w, c, cx) == (cx[c].mapped /\ cx[c].objs) \/ Has(w, "context", c)
HintKept(w, h, cx, hn) ==
    /\ cx[hn[h].ctx] # None
    /\ cx[hn[h].ctx].objs
    /\ cx[hn[h].ctx].mapped \/ Has(w, "objects", hn[h].ctx)
Contexts(w, cx, hn) ==
    /\ \A k \in 1..Len(w) : ItemOfContext(w, k, cx)
    /\ \A c \in Ctxs : cx[c] # None => ContextKept(w, c, cx)
    /\ \A h \in Hints : hn[h] # None => HintKept(w, h, cx, hn)

\* _initcount counts the contexts, unless a failure has counted one too few.
Opened(cx) == {c \in Ctxs : cx[c] # None /\ cx[c].mapped}
Counted ==
    /\ initcount <= Cardinality(Opened(ctx))
    /\ ~failed => /\ initcount = Cardinality(Opened(ctx))
                  /\ logctx = (LogPath /\ initcount > 0)

\* What is still to be done agrees with the tables: a group is changed or freed
\* only when no statistic is on it, ...
ItemOfTables(w, k, gr, st) ==
    /\ w[k].do \in {"stop", "detach", "stat", "start"} => w[k].on \in Stats
    /\ w[k].do \in {"freelist", "group", "insert", "remove"} => w[k].on \in Grps
    /\ w[k].do \in {"insert", "remove"} =>
          /\ w[k].obj \in Objs /\ k = Len(w) /\ gr[w[k].on] # None
          /\ \A j \in 1..Len(w) : w[j].do # "group"
    /\ w[k].do \in {"group", "insert", "remove"} =>
          \A s \in Stats : st[s] # None /\ st[s].grp = w[k].on => Prior(w, k, "detach", s)
    /\ w[k].do = "detach" =>
          /\ st[w[k].on] # None
          /\ st[w[k].on].grp # None => Later(w, k, "freelist", st[w[k].on].grp)
          /\ \A j \in 1..Len(w) : w[j].do = "stat" => k < j

\* ... a group lists its statistics until its list is freed, ...
GroupKept(w, g, cx, gr, st) ==
    /\ cx[gr[g].ctx] # None
    /\ cx[gr[g].ctx].mapped \/ Has(w, "group", g)
    /\ IsInjective(gr[g].stats)
    /\ \/ gr[g].freed \/ Has(w, "freelist", g)
       \/ ToSet(gr[g].stats)
            = {s \in Stats : st[s] # None /\ st[s].grp = g /\ ~Has(w, "stat", s)}

\* ... a statistic has the context and the size of its group, ...
StatKept(w, s, cx, gr, st) ==
    /\ cx[st[s].ctx] # None
    /\ cx[st[s].ctx].mapped \/ Has(w, "stat", s)
    /\ st[s].grp # None =>
          /\ st[s].obj = 0
          /\ gr[st[s].grp] # None
          /\ gr[st[s].grp].ctx = st[s].ctx
          /\ Len(gr[st[s].grp].objs) = Len(st[s].values)

\* ... and a context lists what was made from it.
ListsKept(w, c, cx, gr, st, su) ==
    /\ IsInjective(cx[c].groups) /\ IsInjective(cx[c].stats) /\ IsInjective(cx[c].statuses)
    /\ ToSet(cx[c].statuses) = {t \in Statuses : su[t] = c}
    /\ cx[c].mapped =>
          /\ ToSet(cx[c].groups)
                = {g \in Grps : gr[g] # None /\ gr[g].ctx = c /\ ~Has(w, "group", g)}
          /\ ToSet(cx[c].stats)
                = {s \in Stats : st[s] # None /\ st[s].ctx = c /\ ~Has(w, "stat", s)}
Tables(w, cx, gr, st, su) ==
    /\ \A k \in 1..Len(w) : ItemOfTables(w, k, gr, st)
    /\ \A g \in Grps : gr[g] # None => GroupKept(w, g, cx, gr, st)
    /\ \A s \in Stats : st[s] # None => StatKept(w, s, cx, gr, st)
    /\ \A t \in Statuses : su[t] # None => cx[su[t]] # None
    /\ \A c \in Ctxs : cx[c] # None => ListsKept(w, c, cx, gr, st, su)

\* A thread is joined before its statistic is detached or freed, and samples no
\* further than the values it was started for.
ItemOfThreads(w, k, st, th) ==
    /\ w[k].do \in {"detach", "stat"} =>
          th[w[k].on].pc = "none" \/ Prior(w, k, "stop", w[k].on)
    /\ w[k].do = "start" =>
          /\ \A j \in 1..Len(w) : w[j].do \in {"stop", "start"}
          /\ st[w[k].on] # None
          /\ st[w[k].on].obj # 0 \/ st[w[k].on].grp # None
ThreadKept(s, gr, st, th) ==
    /\ st[s] # None
    /\ st[s].obj # 0 \/ st[s].grp # None
    /\ th[s].pc \in {"read", "use"} =>
          /\ th[s].i \in 1..Len(st[s].values)
          /\ Len(th[s].reading) = th[s].i - 1
    /\ th[s].pc = "update" => Len(th[s].reading) = Len(st[s].values)
    /\ th[s].pc \in {"read", "use", "update"} /\ st[s].grp # None =>
          \A j \in 1..Len(th[s].reading) : th[s].reading[j][1] = gr[st[s].grp].objs[j]
Threads(w, gr, st, th) ==
    /\ \A k \in 1..Len(w) : ItemOfThreads(w, k, st, th)
    /\ \A s \in Stats : th[s].pc # "none" => ThreadKept(s, gr, st, th)

\* A value is the least of what was read for it.
Least1(v, S) == v \in S /\ \A r \in S : v <= r
ValuesKept(s, gr, st) ==
    /\ Len(st[s].values) >= 1 /\ Len(st[s].seen) = Len(st[s].values)
    /\ st[s].ready =>
          \A i \in 1..Len(st[s].values) :
             /\ Least1(st[s].values[i], {r[2] : r \in st[s].seen[i]} \cup {Inf})
             /\ st[s].grp # None => \A r \in st[s].seen[i] : r[1] = gr[st[s].grp].objs[i]
Values(gr, st) == \A s \in Stats : st[s] # None => ValuesKept(s, gr, st)

InOrder(gr) == \A g \in Grps : gr[g] # None => Sorted(gr[g].objs)

\* With a careful application a running thread's context is whole.
Whole(w, cx, st, th) ==
    /\ \A s \in Stats : th[s].pc # "none" =>
          cx[st[s].ctx] # None /\ cx[st[s].ctx].mapped /\ cx[st[s].ctx].objs
    /\ \A k \in 1..Len(w) : w[k].do = "start" =>
          /\ cx[st[w[k].on].ctx] # None
          /\ cx[st[w[k].on].ctx].mapped /\ cx[st[w[k].on].ctx].objs

Sound ==
    /\ TableTypes
    /\ Tables(main, ctx, grp, stat, status)
    /\ Threads(main, grp, stat, thr)
    /\ Values(grp, stat)
    /\ InOrder(grp)
IInv ==
    /\ BaseTypes
    /\ Contexts(main, ctx, hint)
    /\ Counted
    /\ ~dangling => Sound
    /\ Careful => ~dangling /\ Whole(main, ctx, stat, thr)

-------------------------------------------------------------------------------
(* The list between two calls, and after a step.                               *)

\* The empty work list.
LEMMA NothingPending ==
    ASSUME NEW w, w = <<>>
    PROVE  /\ w \in Seq(Entries) /\ Len(w) = 0
           /\ \A do, x : ~Has(w, do, x)
           /\ \A k \in 1..Len(w) : FALSE
BY DEF Has

\* v is w without its first item.
Rest(v, w) ==
    /\ v \in Seq(Entries) /\ Len(w) \in Nat \ {0} /\ Len(v) \in Nat /\ Len(w) = Len(v) + 1
    /\ \A k \in 1..Len(v) : k + 1 \in 1..Len(w) /\ v[k] = w[k + 1]
    /\ Head(w) = w[1] /\ w[1] \in Entries

\* Tail takes off the first item.
LEMMA RestOf ==
    ASSUME NEW w \in Seq(Entries), w # <<>>
    PROVE  Rest(Tail(w), w)
<1>1. Tail(w) \in Seq(Entries) /\ Len(w) \in Nat \ {0} /\ Len(Tail(w)) = Len(w) - 1
  OBVIOUS
<1>2. \A k \in 1..Len(Tail(w)) : k + 1 \in 1..Len(w) /\ Tail(w)[k] = w[k + 1]
  OBVIOUS
<1>3. Head(w) = w[1] /\ w[1] \in Entries
  OBVIOUS
<1> QED BY <1>1, <1>2, <1>3 DEF Rest

\* What is in the list behind its first item.
LEMMA RestHas ==
    ASSUME NEW v, NEW w, Rest(v, w), NEW do, NEW x
    PROVE  /\ Has(v, do, x) => Has(w, do, x)
           /\ Has(w, do, x) => Has(v, do, x) \/ (w[1].do = do /\ w[1].on = x)
           /\ Later(w, 1, do, x) => Has(v, do, x)
<1>1. /\ Len(w) \in Nat \ {0} /\ Len(v) \in Nat /\ Len(w) = Len(v) + 1
      /\ \A k \in 1..Len(v) : k + 1 \in 1..Len(w) /\ v[k] = w[k + 1]
  BY DEF Rest
<1>2. ASSUME NEW j \in 1..Len(w), j # 1 PROVE j - 1 \in 1..Len(v) /\ w[j] = v[j - 1]
  <2>1. j - 1 \in 1..Len(v) /\ (j - 1) + 1 = j
    BY <1>1, <1>2
  <2> QED BY <2>1, <1>1
<1>3. Has(v, do, x) => Has(w, do, x)
  BY <1>1 DEF Has
<1>4. Has(w, do, x) => Has(v, do, x) \/ (w[1].do = do /\ w[1].on = x)
  BY <1>2 DEF Has
<1>5. Later(w, 1, do, x) => Has(v, do, x)
  BY <1>2 DEF Has, Later
<1> QED BY <1>3, <1>4, <1>5

\* What is before and behind an item of that list.
LEMMA RestPrior ==
    ASSUME NEW v, NEW w, Rest(v, w), NEW do, NEW x, NEW k \in 1..Len(v)
    PROVE  /\ Prior(w, k + 1, do, x) => Prior(v, k, do, x) \/ (w[1].do = do /\ w[1].on = x)
           /\ Later(w, k + 1, do, x) => Later(v, k, do, x)
<1>1. /\ Len(w) \in Nat \ {0} /\ Len(v) \in Nat /\ Len(w) = Len(v) + 1
      /\ \A q \in 1..Len(v) : q + 1 \in 1..Len(w) /\ v[q] = w[q + 1]
  BY DEF Rest
<1>2. ASSUME NEW j \in 1..Len(w), j # 1
      PROVE  /\ j - 1 \in 1..Len(v) /\ w[j] = v[j - 1]
             /\ j < k + 1 => j - 1 < k
             /\ k + 1 < j => k < j - 1
  <2>1. j - 1 \in 1..Len(v) /\ (j - 1) + 1 = j
    BY <1>1, <1>2
  <2> QED BY <2>1, <1>1
<1>3. Prior(w, k + 1, do, x) => Prior(v, k, do, x) \/ (w[1].do = do /\ w[1].on = x)
  BY <1>2 DEF Prior
<1>4. Later(w, k + 1, do, x) => Later(v, k, do, x)
  <2>1. ASSUME NEW j \in 1..Len(w), k + 1 < j PROVE j # 1
    BY <2>1, <1>1
  <2> QED BY <2>1, <1>2 DEF Later
<1> QED BY <1>3, <1>4

\* Nothing is before the first item.
LEMMA NothingPrior ==
    ASSUME NEW w, Len(w) \in Nat, NEW do, NEW x
    PROVE  ~Prior(w, 1, do, x)
BY DEF Prior

-------------------------------------------------------------------------------
(* Calls that create and destroy contexts                                      *)

\* The contexts are finitely many.
LEMMA OpenedFinite ==
    ASSUME NEW cx
    PROVE  IsFiniteSet(Opened(cx)) /\ Cardinality(Opened(cx)) \in Nat
<1>1. Opened(cx) \subseteq Ctxs /\ IsFiniteSet(Ctxs)
  BY LibraryAssumption DEF Opened
<1>2. IsFiniteSet(Opened(cx))
  BY <1>1, FS_Subset
<1> QED BY <1>2, FS_CardinalityType

\* What a call finds: nothing pending, the tables whole.
Ready == main = <<>> /\ ~dangling

\* A call finds nothing pending.
LEMMA CallsReady ==
    ASSUME NEW name, Calls(name)
    PROVE  Ready
BY DEF Calls, Ready

\* Between calls the lists are whole.
PlainGroup(g, cx, gr, st) ==
    /\ cx[gr[g].ctx] # None
    /\ cx[gr[g].ctx].mapped
    /\ IsInjective(gr[g].stats)
    /\ \/ gr[g].freed
       \/ ToSet(gr[g].stats) = {s \in Stats : st[s] # None /\ st[s].grp = g}
\* A statistic, between calls, ...
PlainStat(s, cx, gr, st) ==
    /\ cx[st[s].ctx] # None
    /\ cx[st[s].ctx].mapped
    /\ st[s].grp # None =>
          /\ st[s].obj = 0
          /\ gr[st[s].grp] # None
          /\ gr[st[s].grp].ctx = st[s].ctx
          /\ Len(gr[st[s].grp].objs) = Len(st[s].values)
\* ... the lists of a context, ...
PlainLists(c, cx, gr, st, su) ==
    /\ IsInjective(cx[c].groups) /\ IsInjective(cx[c].stats) /\ IsInjective(cx[c].statuses)
    /\ ToSet(cx[c].statuses) = {t \in Statuses : su[t] = c}
    /\ cx[c].mapped =>
          /\ ToSet(cx[c].groups) = {g \in Grps : gr[g] # None /\ gr[g].ctx = c}
          /\ ToSet(cx[c].stats) = {s \in Stats : st[s] # None /\ st[s].ctx = c}
\* ... all tables, ...
Plain(cx, gr, st, su) ==
    /\ \A g \in Grps : gr[g] # None => PlainGroup(g, cx, gr, st)
    /\ \A s \in Stats : st[s] # None => PlainStat(s, cx, gr, st)
    /\ \A t \in Statuses : su[t] # None => cx[su[t]] # None
    /\ \A c \in Ctxs : cx[c] # None => PlainLists(c, cx, gr, st, su)
\* ... and the contexts with the hints.
PlainContexts(cx, hn) ==
    /\ \A c \in Ctxs : cx[c] # None => cx[c].mapped /\ cx[c].objs
    /\ \A h \in Hints : hn[h] # None =>
          cx[hn[h].ctx] # None /\ cx[hn[h].ctx].objs /\ cx[hn[h].ctx].mapped

\* Tables, between calls.
LEMMA ReadyTables ==
    ASSUME NEW w, w = <<>>, NEW cx, NEW gr, NEW st, NEW su
    PROVE  Tables(w, cx, gr, st, su) <=> Plain(cx, gr, st, su)
<1>1. /\ \A do, x : ~Has(w, do, x)
      /\ \A k \in 1..Len(w) : FALSE
  BY NothingPending
<1>2. \A c :
        /\ {g \in Grps : gr[g] # None /\ gr[g].ctx = c /\ ~Has(w, "group", g)}
              = {g \in Grps : gr[g] # None /\ gr[g].ctx = c}
        /\ {s \in Stats : st[s] # None /\ st[s].ctx = c /\ ~Has(w, "stat", s)}
              = {s \in Stats : st[s] # None /\ st[s].ctx = c}
        /\ {s \in Stats : st[s] # None /\ st[s].grp = c /\ ~Has(w, "stat", s)}
              = {s \in Stats : st[s] # None /\ st[s].grp = c}
  BY <1>1
<1>3. \A k \in 1..Len(w) : ItemOfTables(w, k, gr, st)
  BY <1>1
<1>4. \A g : GroupKept(w, g, cx, gr, st) <=> PlainGroup(g, cx, gr, st)
  BY <1>1, <1>2, Zenon DEF GroupKept, PlainGroup
<1>5. \A s : StatKept(w, s, cx, gr, st) <=> PlainStat(s, cx, gr, st)
  BY <1>1, Zenon DEF StatKept, PlainStat
<1>6. \A c : ListsKept(w, c, cx, gr, st, su) <=> PlainLists(c, cx, gr, st, su)
  BY <1>2, Zenon DEF ListsKept, PlainLists
<1> QED BY <1>3, <1>4, <1>5, <1>6, Zenon DEF Tables, Plain

\* Contexts, between calls.
LEMMA ReadyContexts ==
    ASSUME NEW w, w = <<>>, NEW cx, NEW hn
    PROVE  Contexts(w, cx, hn) <=> PlainContexts(cx, hn)
<1>1. /\ \A do, x : ~Has(w, do, x)
      /\ \A k \in 1..Len(w) : FALSE
  BY NothingPending
<1> QED BY <1>1, Zenon DEF Contexts, ContextKept, HintKept, PlainContexts

\* Threads, between calls.
LEMMA ReadyThreads ==
    ASSUME NEW w, w = <<>>, NEW gr, NEW st, NEW th
    PROVE  Threads(w, gr, st, th)
             <=> \A s \in Stats : th[s].pc # "none" => ThreadKept(s, gr, st, th)
BY NothingPending, Zenon DEF Threads

\* Whole, between calls.
LEMMA ReadyWhole ==
    ASSUME NEW w, w = <<>>, NEW cx, NEW st, NEW th
    PROVE  Whole(w, cx, st, th)
             <=> \A s \in Stats : th[s].pc # "none" =>
                    cx[st[s].ctx] # None /\ cx[st[s].ctx].mapped /\ cx[st[s].ctx].objs
BY NothingPending, Zenon DEF Whole

\* The empty lists.
LEMMA Emptied ==
    /\ <<>> \in Seq(Grps) /\ <<>> \in Seq(Stats) /\ <<>> \in Seq(Statuses)
    /\ IsInjective(<<>>) /\ ToSet(<<>>) = {}
BY DEF IsInjective, ToSet

\* One context more.
LEMMA CountUp ==
    ASSUME NEW cx, NEW cx2, NEW c \in Ctxs, cx[c] = None,
           cx2[c] # None, cx2[c].mapped, \A d \in Ctxs : d # c => cx2[d] = cx[d]
    PROVE  Cardinality(Opened(cx2)) = Cardinality(Opened(cx)) + 1
<1>1. Opened(cx2) = Opened(cx) \cup {c} /\ c \notin Opened(cx)
  BY DEF Opened
<1>2. IsFiniteSet(Opened(cx)) /\ Cardinality(Opened(cx)) \in Nat
  BY OpenedFinite
<1>3. Cardinality(Opened(cx) \cup {c}) = Cardinality(Opened(cx)) + 1
  BY <1>1, <1>2, FS_AddElement
<1> QED BY <1>1, <1>3

\* One context less.
LEMMA CountDown ==
    ASSUME NEW cx, NEW cx2, NEW c \in Ctxs, cx[c] # None, cx[c].mapped,
           ~cx2[c].mapped, \A d \in Ctxs : d # c => cx2[d] = cx[d]
    PROVE  /\ Cardinality(Opened(cx)) = Cardinality(Opened(cx2)) + 1
           /\ Cardinality(Opened(cx2)) \in Nat
<1>1. Opened(cx) = Opened(cx2) \cup {c} /\ c \notin Opened(cx2)
  BY DEF Opened
<1>2. IsFiniteSet(Opened(cx2)) /\ Cardinality(Opened(cx2)) \in Nat
  BY OpenedFinite
<1>3. Cardinality(Opened(cx2) \cup {c}) = Cardinality(Opened(cx2)) + 1
  BY <1>1, <1>2, FS_AddElement
<1> QED BY <1>1, <1>2, <1>3

\* As many contexts as before.
LEMMA CountSame ==
    ASSUME NEW cx, NEW cx2,
           \A d \in Ctxs : (cx2[d] # None /\ cx2[d].mapped) <=> (cx[d] # None /\ cx[d].mapped)
    PROVE  Cardinality(Opened(cx2)) = Cardinality(Opened(cx))
<1>1. Opened(cx2) = Opened(cx)
  BY DEF Opened
<1> QED BY <1>1

\* PWR_CntxtInit keeps the invariant.
LEMMA CntxtInitKeeps ==
    ASSUME IInv, NEW c \in Ctxs, CntxtInit(c)
    PROVE  IInv'
<1>1. main = <<>> /\ ~dangling /\ main' = main /\ dangling' = dangling
  BY DEF CntxtInit, Calls
<1>2. /\ BaseTypes /\ Contexts(main, ctx, hint) /\ Counted /\ Sound
      /\ Careful => Whole(main, ctx, stat, thr)
  BY <1>1 DEF IInv
<1>3. PlainContexts(ctx, hint) /\ Plain(ctx, grp, stat, status)
  BY <1>1, <1>2, ReadyContexts, ReadyTables DEF Sound
<1>4. UNCHANGED <<prog, grp, stat, thr, die, status, hint, main, dangling>> /\ ctx[c] = None
  BY DEF CntxtInit
<1>5. CASE HintTerm /\ failed' = TRUE /\ ctx' = ctx
  <2>1. BaseTypes'
    BY <1>2, <1>4, <1>5 DEF BaseTypes, HintTerm
  <2>2. Counted'
    <3>1. Cardinality(Opened(ctx)) \in Nat
      BY OpenedFinite
    <3> QED BY <3>1, <1>2, <1>5 DEF BaseTypes, Counted, HintTerm
  <2>3. Sound'
    BY <1>2, <1>4, <1>5 DEF Sound, TableTypes
  <2> QED BY <2>1, <2>2, <2>3, <1>1, <1>2, <1>4, <1>5 DEF IInv
<1>6. CASE /\ HintInit /\ failed' = failed
           /\ ctx' = [ctx EXCEPT ![c] =
                 [mapped |-> TRUE, objs |-> TRUE, groups |-> <<>>, stats |-> <<>>,
                  statuses |-> <<>>, names |-> {}, unique |-> 0]]
  <2> DEFINE r == [mapped |-> TRUE, objs |-> TRUE, groups |-> <<>>, stats |-> <<>>,
                   statuses |-> <<>>, names |-> {}, unique |-> 0]
  <2>1. /\ r \in ContextRecords /\ r # None /\ r.mapped /\ r.objs /\ r.groups = <<>>
        /\ r.stats = <<>> /\ r.statuses = <<>>
    <3>1. r \in ContextRecords
      BY Emptied DEF ContextRecords
    <3> QED BY <3>1, LibraryAssumption
  <2> HIDE DEF r
  <2>2. ctx' = [ctx EXCEPT ![c] = r] /\ ctx \in [Ctxs -> ContextRecords \cup {None}]
    BY <1>2, <1>6 DEF r, BaseTypes
  <2>3. ctx'[c] = r /\ \A d \in Ctxs : d # c => ctx'[d] = ctx[d]
    BY <2>2
  <2>4. BaseTypes'
    BY <2>1, <2>2, <1>2, <1>4, <1>6 DEF BaseTypes, HintInit
  <2>5. Counted'
    <3>1. Cardinality(Opened(ctx')) = Cardinality(Opened(ctx)) + 1
      BY <2>1, <2>3, <1>4, CountUp
    <3>2. Cardinality(Opened(ctx)) \in Nat
      BY OpenedFinite
    <3> QED BY <3>1, <3>2, <1>2, <1>6, LibraryAssumption DEF BaseTypes, Counted, HintInit
  <2>6. PlainContexts(ctx', hint')
    BY <2>1, <2>3, <1>2, <1>3, <1>4 DEF PlainContexts, BaseTypes, HintRecords
  <2>7. Plain(ctx', grp', stat', status')
    <3>1. \A g \in Grps : grp[g] # None => grp[g].ctx \in Ctxs /\ grp[g].ctx # c
      BY <1>2, <1>3, <1>4 DEF Sound, TableTypes, GroupRecords, Plain, PlainGroup
    <3>2. \A s \in Stats : stat[s] # None => stat[s].ctx \in Ctxs /\ stat[s].ctx # c
      BY <1>2, <1>3, <1>4 DEF Sound, TableTypes, StatRecords, Plain, PlainStat
    <3>3. \A t \in Statuses : status[t] # None => status[t] \in Ctxs /\ status[t] # c
      BY <1>2, <1>3, <1>4 DEF BaseTypes, Plain
    <3>4. ASSUME NEW g \in Grps, grp[g] # None PROVE PlainGroup(g, ctx', grp, stat)
      BY <3>1, <3>4, <2>3, <1>3 DEF Plain, PlainGroup
    <3>5. ASSUME NEW s \in Stats, stat[s] # None PROVE PlainStat(s, ctx', grp, stat)
      BY <3>2, <3>5, <2>3, <1>3 DEF Plain, PlainStat
    <3>6. ASSUME NEW d \in Ctxs, ctx'[d] # None PROVE PlainLists(d, ctx', grp, stat, status)
      <4>1. CASE d = c
        <5>1. /\ {t \in Statuses : status[t] = c} = {}
              /\ {g \in Grps : grp[g] # None /\ grp[g].ctx = c} = {}
              /\ {s \in Stats : stat[s] # None /\ stat[s].ctx = c} = {}
          BY <3>1, <3>2, <3>3, LibraryAssumption
        <5> QED BY <4>1, <5>1, <2>1, <2>3, Emptied DEF PlainLists
      <4>2. CASE d # c
        BY <4>2, <3>6, <2>3, <1>3 DEF Plain, PlainLists
      <4> QED BY <4>1, <4>2
    <3>7. \A t \in Statuses : status[t] # None => ctx'[status[t]] # None
      BY <3>3, <2>3, <1>3 DEF Plain
    <3> QED BY <3>4, <3>5, <3>6, <3>7, <1>4 DEF Plain
  <2>8. Contexts(main', ctx', hint') /\ Tables(main', ctx', grp', stat', status')
    BY <2>6, <2>7, <1>1, <1>4, ReadyContexts, ReadyTables
  <2>9. Sound'
    BY <2>8, <1>2, <1>4 DEF Sound, TableTypes
  <2>10. Careful => Whole(main', ctx', stat', thr')
    <3>1. \A s \in Stats : stat[s] # None => stat[s].ctx \in Ctxs /\ stat[s].ctx # c
      BY <1>2, <1>3, <1>4 DEF Sound, TableTypes, StatRecords, Plain, PlainStat
    <3>2. \A s \in Stats : thr[s].pc # "none" => stat[s] # None
      BY <1>2 DEF Sound, Threads, ThreadKept
    <3> QED BY <3>1, <3>2, <2>3, <1>1, <1>2, <1>4, ReadyWhole
  <2> QED BY <2>4, <2>5, <2>8, <2>9, <2>10, <1>1, <1>2, <1>4 DEF IInv
<1> QED BY <1>5, <1>6 DEF CntxtInit

\* The lists of a context, by their types and their contents.
LEMMA ContextLists ==
    ASSUME BaseTypes, TableTypes, Plain(ctx, grp, stat, status),
           NEW c \in Ctxs, ctx[c] # None, ctx[c].mapped
    PROVE  /\ ctx[c].groups \in Seq(Grps) /\ ctx[c].stats \in Seq(Stats)
           /\ ctx[c].statuses \in Seq(Statuses)
           /\ \A g \in ToSet(ctx[c].groups) :
                 /\ g \in Grps /\ grp[g] # None /\ grp[g].ctx = c
                 /\ grp[g].stats \in Seq(Stats)
           /\ \A s \in ToSet(ctx[c].stats) : s \in Stats /\ stat[s] # None /\ stat[s].ctx = c
           /\ \A g \in Grps : grp[g] # None /\ grp[g].ctx = c => g \in ToSet(ctx[c].groups)
           /\ \A s \in Stats : stat[s] # None /\ stat[s].ctx = c => s \in ToSet(ctx[c].stats)
<1>1. /\ ctx[c].groups \in Seq(Grps) /\ ctx[c].stats \in Seq(Stats)
      /\ ctx[c].statuses \in Seq(Statuses)
  BY DEF BaseTypes, ContextRecords
<1>2. PlainLists(c, ctx, grp, stat, status)
  BY DEF Plain
<1>3. \A g \in Grps : grp[g] # None => grp[g].stats \in Seq(Stats)
  BY DEF TableTypes, GroupRecords
<1> QED BY <1>1, <1>2, <1>3 DEF PlainLists

\* PWR_CntxtDestroy keeps the invariant.
LEMMA CntxtDestroyKeeps ==
    ASSUME IInv, NEW c \in Ctxs, CntxtDestroy(c)
    PROVE  IInv'
<1>1. main = <<>> /\ ~dangling
  BY DEF CntxtDestroy, Calls
<1>2. /\ BaseTypes /\ Contexts(main, ctx, hint) /\ Counted /\ Sound
      /\ Careful => Whole(main, ctx, stat, thr)
  BY <1>1 DEF IInv
<1>3. PlainContexts(ctx, hint) /\ Plain(ctx, grp, stat, status)
  BY <1>1, <1>2, ReadyContexts, ReadyTables DEF Sound
<1>4. /\ UNCHANGED <<prog, grp, stat, thr, die, status, hint, failed>>
      /\ ctx[c] # None /\ ctx[c].mapped /\ HintTerm
      /\ ctx' = [ctx EXCEPT ![c].mapped = FALSE]
      /\ main' = DelContext(c)
      /\ dangling' = (\E k \in DOMAIN ctx[c].groups : grp[ctx[c].groups[k]].freed)
      /\ Careful =>
            /\ \A s \in Stats : IF stat[s] = None THEN TRUE
                                ELSE stat[s].ctx = c => thr[s].pc = "none"
            /\ \A k \in DOMAIN ctx[c].groups : ~grp[ctx[c].groups[k]].freed
  BY DEF CntxtDestroy, Context
<1>5. /\ ctx[c].groups \in Seq(Grps) /\ ctx[c].stats \in Seq(Stats)
      /\ \A g \in ToSet(ctx[c].groups) :
            g \in Grps /\ grp[g] # None /\ grp[g].ctx = c /\ grp[g].stats \in Seq(Stats)
      /\ \A s \in ToSet(ctx[c].stats) : s \in Stats /\ stat[s] # None /\ stat[s].ctx = c
      /\ \A g \in Grps : grp[g] # None /\ grp[g].ctx = c => g \in ToSet(ctx[c].groups)
      /\ \A s \in Stats : stat[s] # None /\ stat[s].ctx = c => s \in ToSet(ctx[c].stats)
  BY <1>2, <1>3, <1>4, ContextLists DEF Sound
<1> DEFINE w == main'
<1>6. w \in Seq(Entries) /\ Len(w) \in Nat /\ DeletesContext(w, c)
  <2>1. /\ ctx[c].groups \in Seq(Grps) /\ ctx[c].stats \in Seq(Stats)
        /\ \A g \in ToSet(ctx[c].groups) : grp[g].stats \in Seq(Stats)
    BY <1>5
  <2> QED BY <2>1, <1>4, DelContextList
<1> HIDE DEF w
<1>7. /\ \A d \in Ctxs : d # c => ctx'[d] = ctx[d]
      /\ ctx'[c] # None /\ ~ctx'[c].mapped /\ ctx'[c].objs = ctx[c].objs
      /\ ctx'[c].groups = ctx[c].groups /\ ctx'[c].stats = ctx[c].stats
      /\ ctx'[c].statuses = ctx[c].statuses
      /\ ctx' \in [Ctxs -> ContextRecords \cup {None}]
  <2> DEFINE r == [ctx[c] EXCEPT !.mapped = FALSE]
  <2>1. /\ r \in ContextRecords /\ ~r.mapped /\ r.objs = ctx[c].objs
        /\ r.groups = ctx[c].groups /\ r.stats = ctx[c].stats /\ r.statuses = ctx[c].statuses
    BY <1>2, <1>4 DEF BaseTypes, ContextRecords
  <2>2. ctx' = [ctx EXCEPT ![c] = r]
    BY <1>4
  <2> HIDE DEF r
  <2>3. ctx' \in [Ctxs -> ContextRecords \cup {None}] /\ ctx'[c] = r
        /\ \A d \in Ctxs : d # c => ctx'[d] = ctx[d]
    BY <2>1, <2>2, <1>2 DEF BaseTypes
  <2> QED BY <2>1, <2>3, LibraryAssumption
<1>8. BaseTypes'
  BY <1>2, <1>4, <1>6, <1>7 DEF BaseTypes, HintTerm, w
<1>9. Counted'
  <2>1. /\ Cardinality(Opened(ctx)) = Cardinality(Opened(ctx')) + 1
        /\ Cardinality(Opened(ctx')) \in Nat
    <3>1. /\ ctx[c] # None /\ ctx[c].mapped /\ ~ctx'[c].mapped
          /\ \A d \in Ctxs : d # c => ctx'[d] = ctx[d]
      BY <1>4, <1>7
    <3> DEFINE cx2 == ctx'
    <3> HIDE DEF cx2
    <3>2. /\ Cardinality(Opened(ctx)) = Cardinality(Opened(cx2)) + 1
          /\ Cardinality(Opened(cx2)) \in Nat
      BY <3>1, CountDown DEF cx2
    <3> QED BY <3>2 DEF cx2
  <2> QED BY <2>1, <1>2, <1>4 DEF BaseTypes, Counted, HintTerm
<1>10. Contexts(w, ctx', hint')
  <2>1. ASSUME NEW k \in 1..Len(w) PROVE ItemOfContext(w, k, ctx')
    BY <1>6, <1>7 DEF DeletesContext, DeletesContextAt, ItemOfContext
  <2>2. ASSUME NEW d \in Ctxs, ctx'[d] # None PROVE ContextKept(w, d, ctx')
    BY <2>2, <1>3, <1>6, <1>7 DEF DeletesContext, ContextKept, PlainContexts
  <2>3. ASSUME NEW h \in Hints, hint[h] # None PROVE HintKept(w, h, ctx', hint)
    <3>1. hint[h].ctx \in Ctxs
      BY <2>3, <1>2 DEF BaseTypes, HintRecords
    <3> QED BY <2>3, <3>1, <1>3, <1>6, <1>7 DEF DeletesContext, HintKept, PlainContexts
  <2> QED BY <2>1, <2>2, <2>3, <1>4 DEF Contexts
<1>11. ASSUME ~dangling' PROVE Tables(w, ctx', grp, stat, status)
  <2>0. \A g \in ToSet(ctx[c].groups) :
           ToSet(grp[g].stats) = {s \in Stats : stat[s] # None /\ stat[s].grp = g}
    <3>1. \A g \in ToSet(ctx[c].groups) : ~grp[g].freed
      BY <1>4, <1>11 DEF ToSet
    <3> QED BY <3>1, <1>3, <1>5 DEF Plain, PlainGroup
  <2>1. ASSUME NEW k \in 1..Len(w) PROVE ItemOfTables(w, k, grp, stat)
    <3>0. DeletesContextAt(w, k, c)
      BY <1>6 DEF DeletesContext
    <3>1. w[k].do \in {"stop", "detach", "stat", "start"} => w[k].on \in Stats
      BY <3>0, <2>0, <1>5 DEF DeletesContextAt
    <3>2. /\ w[k].do \in {"freelist", "group", "insert", "remove"} => w[k].on \in Grps
          /\ w[k].do \notin {"insert", "remove"}
      BY <3>0, <1>5 DEF DeletesContextAt
    <3>3. w[k].do = "group" =>
            \A s \in Stats : stat[s] # None /\ stat[s].grp = w[k].on => Prior(w, k, "detach", s)
      BY <3>0, <2>0 DEF DeletesContextAt
    <3>4. w[k].do = "detach" =>
            /\ stat[w[k].on] # None
            /\ stat[w[k].on].grp # None => Later(w, k, "freelist", stat[w[k].on].grp)
            /\ \A j \in 1..Len(w) : w[j].do = "stat" => k < j
      BY <3>0, <2>0 DEF DeletesContextAt
    <3> QED BY <3>1, <3>2, <3>3, <3>4 DEF ItemOfTables
  <2>a. \A x : Has(w, "group", x) => x \in ToSet(ctx[c].groups)
    BY <1>6 DEF Has, DeletesContext, DeletesContextAt
  <2>b. \A x : Has(w, "stat", x) => x \in ToSet(ctx[c].stats)
    BY <1>6 DEF Has, DeletesContext, DeletesContextAt
  <2>2. ASSUME NEW g \in Grps, grp[g] # None PROVE GroupKept(w, g, ctx', grp, stat)
    <3>1. PlainGroup(g, ctx, grp, stat) /\ grp[g].ctx \in Ctxs
      BY <2>2, <1>2, <1>3 DEF Plain, Sound, TableTypes, GroupRecords
    <3>2. CASE grp[g].ctx = c
      <4>1. g \in ToSet(ctx[c].groups)
        BY <3>2, <2>2, <1>5
      <4>2. /\ Has(w, "group", g)
            /\ ToSet(grp[g].stats) # {} => Has(w, "freelist", g)
        BY <4>1, <1>6 DEF DeletesContext
      <4>3. ToSet(grp[g].stats) = {}
              => ToSet(grp[g].stats)
                   = {s \in Stats : stat[s] # None /\ stat[s].grp = g /\ ~Has(w, "stat", s)}
        BY <4>1, <2>0
      <4> QED BY <3>1, <3>2, <4>2, <4>3, <1>7 DEF GroupKept, PlainGroup
    <3>3. CASE grp[g].ctx # c
      <4>1. \A s \in Stats : stat[s] # None /\ stat[s].grp = g => ~Has(w, "stat", s)
        BY <3>3, <2>b, <2>2, <1>3, <1>5, LibraryAssumption DEF Plain, PlainStat
      <4>2. {s \in Stats : stat[s] # None /\ stat[s].grp = g /\ ~Has(w, "stat", s)}
              = {s \in Stats : stat[s] # None /\ stat[s].grp = g}
        BY <4>1
      <4> QED BY <3>1, <3>3, <4>2, <1>7 DEF GroupKept, PlainGroup
    <3> QED BY <3>2, <3>3
  <2>3. ASSUME NEW s \in Stats, stat[s] # None PROVE StatKept(w, s, ctx', grp, stat)
    <3>1. PlainStat(s, ctx, grp, stat) /\ stat[s].ctx \in Ctxs
      BY <2>3, <1>2, <1>3 DEF Plain, Sound, TableTypes, StatRecords
    <3>2. stat[s].ctx = c => Has(w, "stat", s)
      BY <2>3, <1>5, <1>6 DEF DeletesContext
    <3> QED BY <3>1, <3>2, <1>7 DEF StatKept, PlainStat
  <2>4. \A t \in Statuses : status[t] # None => ctx'[status[t]] # None
    BY <1>2, <1>3, <1>7 DEF Plain, BaseTypes
  <2>5. ASSUME NEW d \in Ctxs, ctx'[d] # None PROVE ListsKept(w, d, ctx', grp, stat, status)
    <3>1. CASE d = c
      BY <3>1, <1>3, <1>4, <1>7 DEF ListsKept, Plain, PlainLists
    <3>2. CASE d # c
      <4>1. PlainLists(d, ctx, grp, stat, status) /\ ctx'[d] = ctx[d]
        BY <3>2, <2>5, <1>3, <1>7 DEF Plain
      <4>2. /\ {g \in Grps : grp[g] # None /\ grp[g].ctx = d /\ ~Has(w, "group", g)}
                 = {g \in Grps : grp[g] # None /\ grp[g].ctx = d}
            /\ {s \in Stats : stat[s] # None /\ stat[s].ctx = d /\ ~Has(w, "stat", s)}
                 = {s \in Stats : stat[s] # None /\ stat[s].ctx = d}
        BY <3>2, <2>a, <2>b, <1>5
      <4> QED BY <4>1, <4>2 DEF ListsKept, PlainLists
    <3> QED BY <3>1, <3>2
  <2> QED BY <2>1, <2>2, <2>3, <2>4, <2>5 DEF Tables
<1>12. Threads(w, grp, stat, thr)
  <2>1. ASSUME NEW k \in 1..Len(w) PROVE ItemOfThreads(w, k, stat, thr)
    BY <1>6 DEF DeletesContext, DeletesContextAt, ItemOfThreads
  <2> QED BY <2>1, <1>2 DEF Threads, Sound
<1>13. ~dangling' => Sound'
  BY <1>2, <1>4, <1>11, <1>12 DEF Sound, TableTypes, w
<1>14. Careful => ~dangling' /\ Whole(w, ctx', stat, thr)
  <2> SUFFICES ASSUME Careful PROVE ~dangling' /\ Whole(w, ctx', stat, thr)
    OBVIOUS
  <2>1. ~dangling'
    BY <1>4
  <2>2. ASSUME NEW s \in Stats, thr[s].pc # "none"
        PROVE  ctx'[stat[s].ctx] # None /\ ctx'[stat[s].ctx].mapped /\ ctx'[stat[s].ctx].objs
    <3>1. stat[s] # None
      BY <2>2, <1>2 DEF Sound, Threads, ThreadKept
    <3>2. stat[s].ctx \in Ctxs /\ stat[s].ctx # c
      BY <3>1, <2>2, <1>2, <1>4 DEF Sound, TableTypes, StatRecords
    <3> QED BY <3>2, <2>2, <1>2, <1>7 DEF Whole
  <2>3. \A k \in 1..Len(w) : w[k].do # "start"
    BY <1>6 DEF DeletesContext, DeletesContextAt
  <2> QED BY <2>1, <2>2, <2>3 DEF Whole
<1> QED BY <1>4, <1>8, <1>9, <1>10, <1>13, <1>14 DEF IInv, w

\* An element in front of a list without duplicates.
LEMMA ConsList ==
    ASSUME NEW S, NEW o \in S, NEW a \in Seq(S)
    PROVE  /\ <<o>> \o a \in Seq(S) /\ ToSet(<<o>> \o a) = {o} \cup ToSet(a)
           /\ IsInjective(a) /\ o \notin ToSet(a) => IsInjective(<<o>> \o a)
<1> DEFINE t == <<o>> \o a
<1>0. DOMAIN a = 1..Len(a) /\ Len(a) \in Nat
  OBVIOUS
<1>1. /\ t \in Seq(S) /\ Len(t) = 1 + Len(a) /\ t[1] = o
      /\ \A q \in 1..Len(a) : t[1 + q] = a[q]
  BY ConsSeq
<1> HIDE DEF t
<1>2. DOMAIN t = 1..Len(t) /\ Len(t) = Len(a) + 1
  BY <1>1, <1>0
<1>3. ASSUME NEW i \in 1..Len(t), i # 1 PROVE i - 1 \in 1..Len(a) /\ t[i] = a[i - 1]
  <2>1. i - 1 \in 1..Len(a) /\ 1 + (i - 1) = i
    BY <1>2, <1>3, <1>0
  <2>2. t[1 + (i - 1)] = a[i - 1]
    BY <2>1, <1>1
  <2> QED BY <2>1, <2>2
<1>5. ToSet(t) = {o} \cup ToSet(a)
  <2>1. ASSUME NEW y \in ToSet(t) PROVE y \in {o} \cup ToSet(a)
    <3>1. PICK i \in 1..Len(t) : y = t[i]
      BY <1>2 DEF ToSet
    <3> QED BY <3>1, <1>0, <1>1, <1>3 DEF ToSet
  <2>2. o \in ToSet(t)
    BY <1>0, <1>1, <1>2 DEF ToSet
  <2>3. ASSUME NEW y \in ToSet(a) PROVE y \in ToSet(t)
    <3>1. PICK i \in 1..Len(a) : y = a[i]
      BY <1>0 DEF ToSet
    <3>2. 1 + i \in 1..Len(t) /\ t[1 + i] = a[i]
      BY <1>0, <1>1, <1>2
    <3> QED BY <3>1, <3>2, <1>2 DEF ToSet
  <2> QED BY <2>1, <2>2, <2>3
<1>6. ASSUME IsInjective(a), o \notin ToSet(a) PROVE IsInjective(t)
  <2> SUFFICES ASSUME NEW i \in 1..Len(t), NEW j \in 1..Len(t), t[i] = t[j] PROVE i = j
    BY <1>2 DEF IsInjective
  <2>1. CASE i = 1 \/ j = 1
    <3>1. \A k \in 1..Len(t) : k # 1 => t[k] # o
      <4> TAKE k \in 1..Len(t)
      <4> HAVE k # 1
      <4>1. k - 1 \in DOMAIN a /\ t[k] = a[k - 1]
        BY <1>0, <1>3
      <4> QED BY <4>1, <1>6 DEF ToSet
    <3> QED BY <2>1, <3>1, <1>1
  <2>2. CASE i # 1 /\ j # 1
    <3>1. i - 1 \in DOMAIN a /\ j - 1 \in DOMAIN a /\ a[i - 1] = a[j - 1]
      BY <2>2, <1>0, <1>3
    <3>2. i - 1 = j - 1
      BY <3>1, <1>6 DEF IsInjective
    <3> QED BY <3>2
  <2> QED BY <2>1, <2>2
<1> QED BY <1>1, <1>5, <1>6 DEF t

\* cx2 is cx with another list of groups for c.
NewGroups(cx2, cx, c, l) ==
    /\ cx2 \in [Ctxs -> ContextRecords \cup {None}]
    /\ \A d \in Ctxs : d # c => cx2[d] = cx[d]
    /\ cx2[c] # None /\ cx2[c].groups = l
    /\ cx2[c].mapped = cx[c].mapped /\ cx2[c].objs = cx[c].objs
    /\ cx2[c].stats = cx[c].stats /\ cx2[c].statuses = cx[c].statuses

\* NewGroups is what the assignment to the list does.
LEMMA NewGroupsIs ==
    ASSUME NEW cx \in [Ctxs -> ContextRecords \cup {None}], NEW c \in Ctxs, cx[c] # None,
           NEW l \in Seq(Grps), NEW cx2, cx2 = [cx EXCEPT ![c].groups = l]
    PROVE  NewGroups(cx2, cx, c, l)
<1> DEFINE r == [cx[c] EXCEPT !.groups = l]
<1>1. /\ r \in ContextRecords /\ r.groups = l
      /\ r.mapped = cx[c].mapped /\ r.objs = cx[c].objs
      /\ r.stats = cx[c].stats /\ r.statuses = cx[c].statuses
  BY DEF ContextRecords
<1>2. cx2 = [cx EXCEPT ![c] = r]
  OBVIOUS
<1> HIDE DEF r
<1>3. cx2 \in [Ctxs -> ContextRecords \cup {None}] /\ cx2[c] = r
      /\ \A d \in Ctxs : d # c => cx2[d] = cx[d]
  BY <1>1, <1>2
<1> QED BY <1>1, <1>3, LibraryAssumption DEF NewGroups

\* cx2 is cx with another list of stats for c.
NewStats(cx2, cx, c, l) ==
    /\ cx2 \in [Ctxs -> ContextRecords \cup {None}]
    /\ \A d \in Ctxs : d # c => cx2[d] = cx[d]
    /\ cx2[c] # None /\ cx2[c].stats = l
    /\ cx2[c].mapped = cx[c].mapped /\ cx2[c].objs = cx[c].objs
    /\ cx2[c].groups = cx[c].groups /\ cx2[c].statuses = cx[c].statuses

\* NewStats is what the assignment to the list does.
LEMMA NewStatsIs ==
    ASSUME NEW cx \in [Ctxs -> ContextRecords \cup {None}], NEW c \in Ctxs, cx[c] # None,
           NEW l \in Seq(Stats), NEW cx2, cx2 = [cx EXCEPT ![c].stats = l]
    PROVE  NewStats(cx2, cx, c, l)
<1> DEFINE r == [cx[c] EXCEPT !.stats = l]
<1>1. /\ r \in ContextRecords /\ r.stats = l
      /\ r.mapped = cx[c].mapped /\ r.objs = cx[c].objs
      /\ r.groups = cx[c].groups /\ r.statuses = cx[c].statuses
  BY DEF ContextRecords
<1>2. cx2 = [cx EXCEPT ![c] = r]
  OBVIOUS
<1> HIDE DEF r
<1>3. cx2 \in [Ctxs -> ContextRecords \cup {None}] /\ cx2[c] = r
      /\ \A d \in Ctxs : d # c => cx2[d] = cx[d]
  BY <1>1, <1>2
<1> QED BY <1>1, <1>3, LibraryAssumption DEF NewStats

\* cx2 is cx with another list of statuses for c.
NewStatuses(cx2, cx, c, l) ==
    /\ cx2 \in [Ctxs -> ContextRecords \cup {None}]
    /\ \A d \in Ctxs : d # c => cx2[d] = cx[d]
    /\ cx2[c] # None /\ cx2[c].statuses = l
    /\ cx2[c].mapped = cx[c].mapped /\ cx2[c].objs = cx[c].objs
    /\ cx2[c].groups = cx[c].groups /\ cx2[c].stats = cx[c].stats

\* NewStatuses is what the assignment to the list does.
LEMMA NewStatusesIs ==
    ASSUME NEW cx \in [Ctxs -> ContextRecords \cup {None}], NEW c \in Ctxs, cx[c] # None,
           NEW l \in Seq(Statuses), NEW cx2, cx2 = [cx EXCEPT ![c].statuses = l]
    PROVE  NewStatuses(cx2, cx, c, l)
<1> DEFINE r == [cx[c] EXCEPT !.statuses = l]
<1>1. /\ r \in ContextRecords /\ r.statuses = l
      /\ r.mapped = cx[c].mapped /\ r.objs = cx[c].objs
      /\ r.groups = cx[c].groups /\ r.stats = cx[c].stats
  BY DEF ContextRecords
<1>2. cx2 = [cx EXCEPT ![c] = r]
  OBVIOUS
<1> HIDE DEF r
<1>3. cx2 \in [Ctxs -> ContextRecords \cup {None}] /\ cx2[c] = r
      /\ \A d \in Ctxs : d # c => cx2[d] = cx[d]
  BY <1>1, <1>2
<1> QED BY <1>1, <1>3, LibraryAssumption DEF NewStatuses

\* A new group whose objects are in order keeps the invariant.
LEMMA AddGroupKeeps ==
    ASSUME IInv, Ready, NEW c \in Ctxs, NEW g \in Grps, NEW o \in Seq(Objs), Sorted(o),
           ctx[c] # None, ctx[c].mapped, AddGroup(c, g, o)
    PROVE  IInv'
<1>1. main = <<>> /\ ~dangling
  BY DEF Ready
<1>2. /\ BaseTypes /\ Contexts(main, ctx, hint) /\ Counted /\ Sound
      /\ Careful => Whole(main, ctx, stat, thr)
  BY <1>1 DEF IInv
<1>3. PlainContexts(ctx, hint) /\ Plain(ctx, grp, stat, status)
  BY <1>1, <1>2, ReadyContexts, ReadyTables DEF Sound
<1>4. /\ UNCHANGED <<prog, stat, thr, die, status, hint, initcount, logctx, main,
                     failed, dangling>>
      /\ grp[g] = None
      /\ grp' = [grp EXCEPT ![g] = NewGroup(c, o)]
  BY DEF AddGroup
<1>5. /\ ctx[c].groups \in Seq(Grps)
      /\ \A h \in ToSet(ctx[c].groups) : h \in Grps /\ grp[h] # None /\ grp[h].ctx = c
      /\ \A h \in Grps : grp[h] # None /\ grp[h].ctx = c => h \in ToSet(ctx[c].groups)
  BY <1>2, <1>3, <1>4, ContextLists DEF Sound
<1> DEFINE l == <<g>> \o ctx[c].groups
           q == NewGroup(c, o)
<1>6. /\ l \in Seq(Grps) /\ ToSet(l) = {g} \cup ToSet(ctx[c].groups)
      /\ IsInjective(ctx[c].groups) => IsInjective(l)
  BY <1>4, <1>5, ConsList
<1>7. NewGroups(ctx', ctx, c, l)
  <2>1. ctx' = [ctx EXCEPT ![c].groups = l]
    BY DEF AddGroup
  <2>2. ctx \in [Ctxs -> ContextRecords \cup {None}]
    BY <1>2 DEF BaseTypes
  <2> HIDE DEF l
  <2> QED BY <2>1, <2>2, <1>6, NewGroupsIs
<1>8. /\ q \in GroupRecords /\ q # None /\ q.ctx = c /\ q.objs = o /\ q.stats = <<>>
      /\ ~q.freed
  <2>1. /\ q \in GroupRecords /\ q.ctx = c /\ q.objs = o /\ q.stats = <<>> /\ ~q.freed
    BY Emptied DEF GroupRecords, NewGroup
  <2> QED BY <2>1, LibraryAssumption
<1> HIDE DEF l, q
<1>9. /\ grp' \in [Grps -> GroupRecords \cup {None}] /\ grp'[g] = q
      /\ \A h \in Grps : h # g => grp'[h] = grp[h]
  <2>1. grp' = [grp EXCEPT ![g] = q] /\ grp \in [Grps -> GroupRecords \cup {None}]
    BY <1>2, <1>4 DEF q, Sound, TableTypes
  <2> QED BY <2>1, <1>8
<1>10. BaseTypes'
  BY <1>2, <1>4, <1>7 DEF BaseTypes, NewGroups
<1>11. Counted'
  <2>1. \A d \in Ctxs : (ctx'[d] # None /\ ctx'[d].mapped) <=> (ctx[d] # None /\ ctx[d].mapped)
    BY <1>7 DEF NewGroups
  <2>2. Cardinality(Opened(ctx')) = Cardinality(Opened(ctx))
    <3> DEFINE cx2 == ctx'
    <3>1. \A d \in Ctxs : (cx2[d] # None /\ cx2[d].mapped) <=> (ctx[d] # None /\ ctx[d].mapped)
      BY <2>1
    <3> HIDE DEF cx2
    <3>2. Cardinality(Opened(cx2)) = Cardinality(Opened(ctx))
      BY <3>1, CountSame
    <3> QED BY <3>2 DEF cx2
  <2> QED BY <2>2, <1>2, <1>4 DEF Counted
<1>12. PlainContexts(ctx', hint')
  BY <1>2, <1>3, <1>4, <1>7 DEF PlainContexts, BaseTypes, HintRecords, NewGroups
<1>13. Plain(ctx', grp', stat', status')
  <2>0. \A s \in Stats : stat[s] # None => stat[s].grp # g
    BY <1>3, <1>4, <1>2, LibraryAssumption DEF Plain, PlainStat
  <2>1. ASSUME NEW h \in Grps, grp'[h] # None PROVE PlainGroup(h, ctx', grp', stat)
    <3>1. CASE h = g
      <4>1. {s \in Stats : stat[s] # None /\ stat[s].grp = g} = {}
        BY <2>0
      <4>2. /\ grp'[h].ctx = c /\ grp'[h].stats = <<>>
            /\ ctx'[c] # None /\ ctx'[c].mapped
        BY <3>1, <1>7, <1>8, <1>9 DEF NewGroups
      <4>3. IsInjective(grp'[h].stats) /\ ToSet(grp'[h].stats) = {}
        BY <4>2, Emptied
      <4> QED BY <3>1, <4>1, <4>2, <4>3, Zenon DEF PlainGroup
    <3>2. CASE h # g
      <4>1. grp'[h] = grp[h] /\ grp[h] # None /\ grp[h].ctx \in Ctxs
        BY <3>2, <2>1, <1>2, <1>9 DEF Sound, TableTypes, GroupRecords
      <4> QED BY <4>1, <1>3, <1>7 DEF Plain, PlainGroup, NewGroups
    <3> QED BY <3>1, <3>2
  <2>2. ASSUME NEW s \in Stats, stat[s] # None PROVE PlainStat(s, ctx', grp', stat)
    <3>1. stat[s].ctx \in Ctxs /\ stat[s].grp \in Grps \cup {None} /\ stat[s].grp # g
      BY <2>0, <2>2, <1>2 DEF Sound, TableTypes, StatRecords
    <3>2. PlainStat(s, ctx, grp, stat)
      BY <2>2, <1>3 DEF Plain
    <3> QED BY <3>1, <3>2, <1>7, <1>9 DEF PlainStat, NewGroups
  <2>3. \A t \in Statuses : status[t] # None => ctx'[status[t]] # None
    BY <1>2, <1>3, <1>7 DEF Plain, BaseTypes, NewGroups
  <2>4. ASSUME NEW d \in Ctxs, ctx'[d] # None PROVE PlainLists(d, ctx', grp', stat, status)
    <3>1. PlainLists(d, ctx, grp, stat, status)
      BY <2>4, <1>3, <1>4, <1>7 DEF Plain, NewGroups
    <3>2. CASE d = c
      <4>1. {h \in Grps : grp'[h] # None /\ grp'[h].ctx = c}
              = {g} \cup {h \in Grps : grp[h] # None /\ grp[h].ctx = c}
        BY <1>8, <1>9
      <4> QED BY <3>1, <3>2, <4>1, <1>6, <1>7 DEF PlainLists, NewGroups
    <3>3. CASE d # c
      <4>1. {h \in Grps : grp'[h] # None /\ grp'[h].ctx = d}
              = {h \in Grps : grp[h] # None /\ grp[h].ctx = d}
        BY <3>3, <1>4, <1>8, <1>9
      <4> QED BY <3>1, <3>3, <4>1, <1>7 DEF PlainLists, NewGroups
    <3> QED BY <3>2, <3>3
  <2> QED BY <2>1, <2>2, <2>3, <2>4, <1>4 DEF Plain
<1>14. Contexts(main', ctx', hint') /\ Tables(main', ctx', grp', stat', status')
  BY <1>1, <1>4, <1>12, <1>13, ReadyContexts, ReadyTables
<1>15. \A s \in Stats : stat[s] # None => stat[s].grp # g
  BY <1>3, <1>4, <1>2, LibraryAssumption DEF Plain, PlainStat
<1>16. Threads(main', grp', stat', thr')
  <2>1. ASSUME NEW s \in Stats, thr[s].pc # "none" PROVE ThreadKept(s, grp', stat, thr)
    <3>1. ThreadKept(s, grp, stat, thr)
      BY <2>1, <1>2 DEF Sound, Threads
    <3>2. stat[s] # None /\ stat[s].grp \in Grps \cup {None} /\ stat[s].grp # g
      BY <3>1, <1>2, <1>15 DEF ThreadKept, Sound, TableTypes, StatRecords
    <3> QED BY <3>1, <3>2, <1>9 DEF ThreadKept
  <2> QED BY <2>1, <1>1, <1>4, ReadyThreads
<1>17. Values(grp', stat')
  <2>1. ASSUME NEW s \in Stats, stat[s] # None PROVE ValuesKept(s, grp', stat)
    <3>1. ValuesKept(s, grp, stat)
      BY <2>1, <1>2 DEF Sound, Values
    <3>2. stat[s].grp \in Grps \cup {None} /\ stat[s].grp # g
      BY <2>1, <1>2, <1>15 DEF Sound, TableTypes, StatRecords
    <3> QED BY <3>1, <3>2, <1>9 DEF ValuesKept
  <2> QED BY <2>1, <1>4 DEF Values
<1>18. InOrder(grp')
  BY <1>2, <1>8, <1>9 DEF InOrder, Sound
<1>19. Sound'
  BY <1>2, <1>4, <1>9, <1>14, <1>16, <1>17, <1>18 DEF Sound, TableTypes
<1>20. Careful => Whole(main', ctx', stat', thr')
  <2>1. \A s \in Stats : thr[s].pc # "none" => stat[s].ctx \in Ctxs
    BY <1>2 DEF Sound, TableTypes, StatRecords, Threads, ThreadKept
  <2>2. \A s \in Stats : thr[s].pc # "none" /\ Careful =>
           ctx'[stat[s].ctx] # None /\ ctx'[stat[s].ctx].mapped /\ ctx'[stat[s].ctx].objs
    BY <2>1, <1>2, <1>7 DEF Whole, NewGroups
  <2> QED BY <2>2, <1>1, <1>4, ReadyWhole
<1> QED BY <1>1, <1>4, <1>10, <1>11, <1>14, <1>19, <1>20 DEF IInv

\* Objects are positive numbers.
LEMMA ObjsNat ==
    /\ Objs \subseteq Nat /\ 0 \notin Objs
    /\ Traversal \in Seq(Nat)
<1>1. Traversal \in Seq(Nat \ {0}) /\ Traversal \in Seq(Nat)
  BY LibraryAssumption
<1>2. ToSet(Traversal) \subseteq Nat \ {0}
  BY <1>1, ToSetIn
<1> QED BY <1>1, <1>2 DEF Objs

\* Sequences over a larger set.
LEMMA SeqSubset ==
    ASSUME NEW S, NEW T, S \subseteq T, NEW s \in Seq(S)
    PROVE  s \in Seq(T)
OBVIOUS

\* What a group holds.
LEMMA GroupHolds ==
    ASSUME Sound, NEW g \in Grps, grp[g] # None
    PROVE  /\ grp[g] \in GroupRecords
           /\ grp[g].ctx \in Ctxs /\ grp[g].stats \in Seq(Stats) /\ grp[g].freed \in BOOLEAN
           /\ grp[g].objs \in Seq(Objs) /\ grp[g].objs \in Seq(Nat)
           /\ ToSet(grp[g].objs) \subseteq Objs /\ Sorted(grp[g].objs)
<1>1. /\ grp[g] \in GroupRecords
      /\ grp[g].ctx \in Ctxs /\ grp[g].stats \in Seq(Stats) /\ grp[g].freed \in BOOLEAN
      /\ grp[g].objs \in Seq(Objs) /\ Sorted(grp[g].objs)
  BY DEF Sound, TableTypes, GroupRecords, InOrder
<1>2. ToSet(grp[g].objs) \subseteq Objs
  BY <1>1, ToSetIn
<1>3. grp[g].objs \in Seq(Nat)
  <2> DEFINE l == grp[g].objs
  <2>1. l \in Seq(Objs) /\ Objs \subseteq Nat
    BY <1>1, ObjsNat
  <2> HIDE DEF l
  <2>2. l \in Seq(Nat)
    BY <2>1, SeqSubset
  <2> QED BY <2>2 DEF l
<1> QED BY <1>1, <1>2, <1>3

\* What a statistic holds.
LEMMA StatHolds ==
    ASSUME Sound, NEW s \in Stats, stat[s] # None
    PROVE  /\ stat[s] \in StatRecords
           /\ stat[s].ctx \in Ctxs /\ stat[s].obj \in Objs \cup {0}
           /\ stat[s].grp \in Grps \cup {None} /\ stat[s].values \in Seq(Int)
           /\ stat[s].seen \in Seq(SUBSET (Objs \X Int)) /\ stat[s].ready \in BOOLEAN
BY DEF Sound, TableTypes, StatRecords

\* A new group with some objects of the hierarchy keeps the invariant.
LEMMA GroupMade ==
    ASSUME IInv, Ready, NEW c \in Ctxs, Context(c), NEW g \in Grps,
           NEW o \in Seq(Nat), Sorted(o), ToSet(o) \subseteq Objs, AddGroup(c, g, o)
    PROVE  IInv'
<1>1. o \in Seq(Objs)
  BY Within2
<1>2. ctx[c] # None /\ ctx[c].mapped
  BY DEF Context
<1> QED BY <1>1, <1>2, AddGroupKeeps

\* Between calls nothing freed has been used.
LEMMA ReadySound ==
    ASSUME IInv, Ready
    PROVE  Sound
BY DEF IInv, Ready

\* PWR_GrpCreate keeps the invariant.
LEMMA GrpCreateKeeps ==
    ASSUME IInv, NEW c \in Ctxs, NEW g \in Grps, GrpCreate(c, g)
    PROVE  IInv'
<1>1. Ready /\ Context(c) /\ AddGroup(c, g, <<>>)
  BY CallsReady DEF GrpCreate
<1>2. <<>> \in Seq(Nat) /\ Sorted(<<>>) /\ ToSet(<<>>) = {}
  BY DEF Sorted, ToSet
<1> QED BY <1>1, <1>2, GroupMade

\* A new group with what was collected keeps the invariant.
LEMMA CollectMade ==
    ASSUME IInv, Ready, NEW c \in Ctxs, Context(c), NEW g \in Grps, NEW W,
           AddGroup(c, g, Collect(W))
    PROVE  IInv'
<1>1. /\ Collect(W) \in Seq(Nat) /\ Sorted(Collect(W))
      /\ ToSet(Collect(W)) = ToSet(Traversal) \cap W
  BY CollectIs, ObjsNat
<1> DEFINE o == Collect(W)
<1>2. o \in Seq(Nat) /\ Sorted(o) /\ ToSet(o) \subseteq Objs /\ AddGroup(c, g, o)
  BY <1>1 DEF Objs
<1> HIDE DEF o
<1> QED BY <1>2, GroupMade

\* PWR_ObjGetChildren keeps the invariant.
LEMMA ObjGetChildrenKeeps ==
    ASSUME IInv, NEW c \in Ctxs, NEW g \in Grps, NEW o, ObjGetChildren(c, o, g)
    PROVE  IInv'
BY CallsReady, CollectMade DEF ObjGetChildren

\* PWR_CntxtGetGrpByName keeps the invariant.
LEMMA CntxtGetGrpByNameKeeps ==
    ASSUME IInv, NEW c \in Ctxs, NEW g \in Grps, NEW t, CntxtGetGrpByName(c, t, g)
    PROVE  IInv'
BY CallsReady, CollectMade DEF CntxtGetGrpByName

\* PWR_GrpDuplicate keeps the invariant.
LEMMA GrpDuplicateKeeps ==
    ASSUME IInv, NEW g1 \in Grps, NEW g \in Grps, GrpDuplicate(g1, g)
    PROVE  IInv'
<1>1. /\ Ready /\ grp[g1] # None /\ Context(grp[g1].ctx)
      /\ AddGroup(grp[g1].ctx, g, grp[g1].objs)
  BY CallsReady DEF GrpDuplicate
<1>2. /\ grp[g1].ctx \in Ctxs /\ grp[g1].objs \in Seq(Nat)
      /\ ToSet(grp[g1].objs) \subseteq Objs /\ Sorted(grp[g1].objs)
  BY <1>1, ReadySound, GroupHolds
<1> QED BY <1>1, <1>2, GroupMade

\* A new group with what a walk found keeps the invariant.
LEMMA WalkMade ==
    ASSUME IInv, NEW g1 \in Grps, NEW g2 \in Grps, NEW g \in Grps,
           NEW lower1 \in BOOLEAN, NEW equal \in BOOLEAN, NEW lower2 \in BOOLEAN,
           NEW name, Calls(name), grp[g1] # None, grp[g2] # None, Context(grp[g1].ctx),
           AddGroup(grp[g1].ctx, g, Walk(grp[g1].objs, grp[g2].objs, lower1, equal, lower2))
    PROVE  IInv'
<1>1. Ready
  BY CallsReady
<1>2. /\ grp[g1].ctx \in Ctxs
      /\ grp[g1].objs \in Seq(Nat) /\ ToSet(grp[g1].objs) \subseteq Objs /\ Sorted(grp[g1].objs)
      /\ grp[g2].objs \in Seq(Nat) /\ ToSet(grp[g2].objs) \subseteq Objs /\ Sorted(grp[g2].objs)
  BY <1>1, ReadySound, GroupHolds
<1> DEFINE o == Walk(grp[g1].objs, grp[g2].objs, lower1, equal, lower2)
<1>3. /\ o \in Seq(Nat) /\ Sorted(o)
      /\ ToSet(o) = Picked(lower1, equal, lower2, ToSet(grp[g1].objs), ToSet(grp[g2].objs))
  <2> DEFINE x == grp[g1].objs
             y == grp[g2].objs
  <2>1. x \in Seq(Nat) /\ y \in Seq(Nat) /\ Sorted(x) /\ Sorted(y)
    BY <1>2
  <2> HIDE DEF x, y
  <2>2. /\ Walk(x, y, lower1, equal, lower2) \in Seq(Nat)
        /\ Sorted(Walk(x, y, lower1, equal, lower2))
        /\ ToSet(Walk(x, y, lower1, equal, lower2))
             = Picked(lower1, equal, lower2, ToSet(x), ToSet(y))
    BY <2>1, WalkIs
  <2> QED BY <2>2 DEF x, y
<1>4. AddGroup(grp[g1].ctx, g, o)
  OBVIOUS
<1> HIDE DEF o
<1>5. ToSet(o) \subseteq Objs
  BY <1>2, <1>3 DEF Picked
<1> QED BY <1>1, <1>2, <1>3, <1>4, <1>5, GroupMade

\* PWR_GrpUnion, Intersection, Difference and SymDifference keep the invariant.
LEMMA CombineKeeps ==
    ASSUME IInv, NEW g1 \in Grps, NEW g2 \in Grps, NEW g \in Grps,
           \/ GrpUnion(g1, g2, g) \/ GrpIntersection(g1, g2, g)
           \/ GrpDifference(g1, g2, g) \/ GrpSymDifference(g1, g2, g)
    PROVE  IInv'
<1>1. CASE GrpUnion(g1, g2, g)
  BY <1>1, WalkMade DEF GrpUnion, Combine, group_union
<1>2. CASE GrpIntersection(g1, g2, g)
  BY <1>2, WalkMade DEF GrpIntersection, Combine, group_intersection
<1>3. CASE GrpDifference(g1, g2, g)
  BY <1>3, WalkMade DEF GrpDifference, Combine, group_difference
<1>4. CASE GrpSymDifference(g1, g2, g)
  BY <1>4, WalkMade DEF GrpSymDifference, Combine, group_sym_difference
<1> QED BY <1>1, <1>2, <1>3, <1>4

-------------------------------------------------------------------------------
(* Calls that end where they began: nothing is pending after them, and the     *)
(* contexts are the same ones.                                                 *)

\* The same contexts exist and are whole.
Alike(cx2, cx) ==
    /\ cx2 \in [Ctxs -> ContextRecords \cup {None}]
    /\ \A d \in Ctxs :
          /\ cx2[d] # None <=> cx[d] # None
          /\ cx[d] # None => cx2[d].mapped = cx[d].mapped /\ cx2[d].objs = cx[d].objs

\* The count of the contexts is the same.
LEMMA AlikeOpened ==
    ASSUME NEW cx, NEW cx2, Alike(cx2, cx)
    PROVE  Cardinality(Opened(cx2)) = Cardinality(Opened(cx))
<1>1. \A d \in Ctxs : (cx2[d] # None /\ cx2[d].mapped) <=> (cx[d] # None /\ cx[d].mapped)
  BY DEF Alike
<1> QED BY <1>1, CountSame

\* _initcount and the log stay right.
LEMMA AlikeCounted ==
    ASSUME Counted, Alike(ctx', ctx), UNCHANGED <<initcount, logctx, failed>>
    PROVE  Counted'
<1>1. Cardinality(Opened(ctx')) = Cardinality(Opened(ctx))
  <2> DEFINE cx2 == ctx'
  <2>1. Alike(cx2, ctx)
    OBVIOUS
  <2> HIDE DEF cx2
  <2>2. Cardinality(Opened(cx2)) = Cardinality(Opened(ctx))
    BY <2>1, AlikeOpened
  <2> QED BY <2>2 DEF cx2
<1> QED BY <1>1 DEF Counted

\* The hints still have their contexts.
LEMMA AlikeContexts ==
    ASSUME NEW cx \in [Ctxs -> ContextRecords \cup {None}], NEW cx2, Alike(cx2, cx), NEW hn,
           hn \in [Hints -> HintRecords \cup {None}], PlainContexts(cx, hn)
    PROVE  PlainContexts(cx2, hn)
<1>1. \A h \in Hints : hn[h] # None => hn[h].ctx \in Ctxs
  BY DEF HintRecords
<1> QED BY <1>1 DEF Alike, PlainContexts

\* A call that leaves nothing pending and keeps the tables plain keeps the invariant.
LEMMA ReadyKeeps ==
    ASSUME IInv, Ready,
           UNCHANGED <<prog, initcount, logctx, main, failed, thr>>,
           Alike(ctx', ctx), PlainContexts(ctx', hint'),
           status' \in [Statuses -> Ctxs \cup {None}],
           hint' \in [Hints -> HintRecords \cup {None}], dangling' \in BOOLEAN,
           Careful => ~dangling',
           \A s \in Stats : thr[s].pc # "none" => stat'[s].ctx = stat[s].ctx,
           ~dangling' =>
              /\ TableTypes' /\ Plain(ctx', grp', stat', status')
              /\ \A s \in Stats : thr[s].pc # "none" => ThreadKept(s, grp', stat', thr)
              /\ Values(grp', stat') /\ InOrder(grp')
    PROVE  IInv'
<1>1. main = <<>> /\ ~dangling /\ main' = <<>> /\ thr' = thr
  BY DEF Ready
<1>2. /\ BaseTypes /\ Contexts(main, ctx, hint) /\ Counted /\ Sound
      /\ Careful => Whole(main, ctx, stat, thr)
  BY <1>1 DEF IInv
<1>3. BaseTypes'
  BY <1>2 DEF BaseTypes, Alike
<1>4. Counted'
  BY <1>2, AlikeCounted
<1>5. Contexts(main', ctx', hint')
  BY <1>1, ReadyContexts
<1>6. ~dangling' => Sound'
  <2>1. ~dangling' => Tables(main', ctx', grp', stat', status')
    BY <1>1, ReadyTables
  <2>2. ~dangling' => Threads(main', grp', stat', thr')
    BY <1>1, ReadyThreads
  <2> QED BY <2>1, <2>2 DEF Sound
<1>7. Careful => Whole(main', ctx', stat', thr')
  <2>1. \A s \in Stats : thr[s].pc # "none" => stat[s] # None /\ stat[s].ctx \in Ctxs
    <3>1. \A s \in Stats : thr[s].pc # "none" => stat[s] # None
      BY <1>2 DEF Sound, Threads, ThreadKept
    <3> QED BY <3>1, <1>2, StatHolds
  <2>2. Careful => \A s \in Stats : thr[s].pc # "none" =>
           ctx'[stat'[s].ctx] # None /\ ctx'[stat'[s].ctx].mapped /\ ctx'[stat'[s].ctx].objs
    BY <2>1, <1>2 DEF Whole, Alike
  <2> QED BY <2>2, <1>1, ReadyWhole
<1> QED BY <1>3, <1>4, <1>5, <1>6, <1>7 DEF IInv

\* A change of a list leaves the contexts as they are.
LEMMA NewStatusesAlike ==
    ASSUME NEW cx, NEW cx2, NEW c \in Ctxs, cx[c] # None, NEW l,
           NewStatuses(cx2, cx, c, l) \/ NewStats(cx2, cx, c, l) \/ NewGroups(cx2, cx, c, l)
    PROVE  Alike(cx2, cx)
BY DEF NewStatuses, NewStats, NewGroups, Alike

\* The lists of the contexts are the same.
LEMMA SameLists ==
    ASSUME NEW cx, NEW cx2, NEW gr, NEW st, NEW su, Plain(cx, gr, st, su),
           gr \in [Grps -> GroupRecords \cup {None}], st \in [Stats -> StatRecords \cup {None}],
           su \in [Statuses -> Ctxs \cup {None}],
           \A d \in Ctxs :
              /\ cx2[d] # None <=> cx[d] # None
              /\ cx[d] # None => /\ cx2[d].mapped = cx[d].mapped
                                 /\ cx2[d].groups = cx[d].groups /\ cx2[d].stats = cx[d].stats
                                 /\ cx2[d].statuses = cx[d].statuses
    PROVE  Plain(cx2, gr, st, su)
<1>1. ASSUME NEW g \in Grps, gr[g] # None PROVE PlainGroup(g, cx2, gr, st)
  <2>1. gr[g].ctx \in Ctxs
    BY <1>1 DEF GroupRecords
  <2> QED BY <1>1, <2>1 DEF Plain, PlainGroup
<1>2. ASSUME NEW s \in Stats, st[s] # None PROVE PlainStat(s, cx2, gr, st)
  <2>1. st[s].ctx \in Ctxs
    BY <1>2 DEF StatRecords
  <2> QED BY <1>2, <2>1 DEF Plain, PlainStat
<1>3. \A t \in Statuses : su[t] # None => cx2[su[t]] # None
  BY DEF Plain
<1>4. ASSUME NEW c \in Ctxs, cx2[c] # None PROVE PlainLists(c, cx2, gr, st, su)
  BY <1>4 DEF Plain, PlainLists
<1> QED BY <1>1, <1>2, <1>3, <1>4 DEF Plain

\* PWR_StatusCreate keeps the invariant.
LEMMA StatusCreateKeeps ==
    ASSUME IInv, NEW c \in Ctxs, NEW t \in Statuses, StatusCreate(c, t)
    PROVE  IInv'
<1>1. Ready /\ main = <<>> /\ ~dangling
  BY CallsReady DEF Ready, StatusCreate
<1>2. BaseTypes /\ Sound /\ Contexts(main, ctx, hint)
  BY <1>1 DEF IInv
<1>3. PlainContexts(ctx, hint) /\ Plain(ctx, grp, stat, status)
  BY <1>1, <1>2, ReadyContexts, ReadyTables DEF Sound
<1>4. /\ ctx[c] # None /\ ctx[c].mapped /\ status[t] = None
      /\ status' = [status EXCEPT ![t] = c]
      /\ ctx' = [ctx EXCEPT ![c].statuses = <<t>> \o @]
      /\ UNCHANGED <<prog, grp, stat, thr, die, hint, initcount, logctx, main, failed,
                     dangling>>
  BY DEF StatusCreate, Context
<1>5. /\ ctx[c].statuses \in Seq(Statuses) /\ PlainLists(c, ctx, grp, stat, status)
      /\ ctx \in [Ctxs -> ContextRecords \cup {None}]
  BY <1>2, <1>3, <1>4, ContextLists DEF Sound, Plain, BaseTypes
<1> DEFINE l == <<t>> \o ctx[c].statuses
<1>6. /\ l \in Seq(Statuses) /\ ToSet(l) = {t} \cup ToSet(ctx[c].statuses)
      /\ t \notin ToSet(ctx[c].statuses)
      /\ IsInjective(l)
  <2>1. t \notin ToSet(ctx[c].statuses)
    BY <1>4, <1>5, LibraryAssumption DEF PlainLists
  <2> QED BY <1>5, <2>1, ConsList DEF PlainLists
<1>7. NewStatuses(ctx', ctx, c, l)
  <2>1. ctx' = [ctx EXCEPT ![c].statuses = l]
    BY <1>4
  <2> HIDE DEF l
  <2> QED BY <2>1, <1>4, <1>5, <1>6, NewStatusesIs
<1> HIDE DEF l
<1>8. Alike(ctx', ctx)
  BY <1>4, <1>7, NewStatusesAlike
<1>9. PlainContexts(ctx', hint')
  BY <1>2, <1>3, <1>4, <1>8, AlikeContexts DEF BaseTypes
<1>10. /\ status' \in [Statuses -> Ctxs \cup {None}]
       /\ status'[t] = c /\ \A u \in Statuses : u # t => status'[u] = status[u]
  BY <1>2, <1>4 DEF BaseTypes
<1>11. Plain(ctx', grp', stat', status')
  <2>1. ASSUME NEW g \in Grps, grp[g] # None PROVE PlainGroup(g, ctx', grp, stat)
    BY <2>1, <1>2, <1>3, <1>8, GroupHolds DEF Plain, PlainGroup, Alike
  <2>2. ASSUME NEW s \in Stats, stat[s] # None PROVE PlainStat(s, ctx', grp, stat)
    <3>1. stat[s].ctx \in Ctxs /\ PlainStat(s, ctx, grp, stat)
      BY <2>2, <1>2, <1>3, StatHolds DEF Plain
    <3> QED BY <3>1, <1>8 DEF PlainStat, Alike
  <2>3. \A u \in Statuses : status'[u] # None => ctx'[status'[u]] # None
    BY <1>3, <1>4, <1>8, <1>10 DEF Plain, Alike
  <2>4. ASSUME NEW d \in Ctxs, ctx'[d] # None PROVE PlainLists(d, ctx', grp, stat, status')
    <3>1. PlainLists(d, ctx, grp, stat, status)
      BY <2>4, <1>3, <1>8 DEF Plain, Alike
    <3>2. CASE d = c
      <4>1. {u \in Statuses : status'[u] = c} = {t} \cup {u \in Statuses : status[u] = c}
        BY <1>10
      <4> QED BY <3>1, <3>2, <4>1, <1>6, <1>7 DEF PlainLists, NewStatuses
    <3>3. CASE d # c
      <4>1. {u \in Statuses : status'[u] = d} = {u \in Statuses : status[u] = d}
        BY <1>4, <1>10, <3>3, LibraryAssumption
      <4> QED BY <3>1, <3>3, <4>1, <1>7 DEF PlainLists, NewStatuses
    <3> QED BY <3>2, <3>3
  <2> QED BY <2>1, <2>2, <2>3, <2>4, <1>4 DEF Plain
<1>12. /\ TableTypes'
       /\ \A s \in Stats : thr[s].pc # "none" => ThreadKept(s, grp', stat', thr)
       /\ Values(grp', stat') /\ InOrder(grp')
  BY <1>1, <1>2, <1>4 DEF Sound, TableTypes, Threads
<1> QED BY <1>1, <1>2, <1>4, <1>8, <1>9, <1>10, <1>11, <1>12, ReadyKeeps DEF BaseTypes

\* What holds between two calls.
LEMMA ReadyFacts ==
    ASSUME IInv, Ready
    PROVE  /\ main = <<>> /\ ~dangling
           /\ BaseTypes /\ ctx \in [Ctxs -> ContextRecords \cup {None}]
           /\ hint \in [Hints -> HintRecords \cup {None}]
           /\ status \in [Statuses -> Ctxs \cup {None}]
           /\ Counted /\ Sound /\ TableTypes
           /\ PlainContexts(ctx, hint) /\ Plain(ctx, grp, stat, status)
           /\ \A s \in Stats : thr[s].pc # "none" => ThreadKept(s, grp, stat, thr)
           /\ Values(grp, stat) /\ InOrder(grp)
           /\ Careful => Whole(main, ctx, stat, thr)
<1>1. main = <<>> /\ ~dangling
  BY DEF Ready
<1>2. /\ BaseTypes /\ Counted /\ Sound /\ Contexts(main, ctx, hint)
      /\ Careful => Whole(main, ctx, stat, thr)
  BY <1>1 DEF IInv
<1>3. PlainContexts(ctx, hint) /\ Plain(ctx, grp, stat, status)
  BY <1>1, <1>2, ReadyContexts, ReadyTables DEF Sound
<1> QED BY <1>1, <1>2, <1>3 DEF BaseTypes, Sound, Threads

\* PWR_StatusDestroy keeps the invariant.
LEMMA StatusDestroyKeeps ==
    ASSUME IInv, NEW t \in Statuses, StatusDestroy(t)
    PROVE  IInv'
<1>1. Ready
  BY CallsReady DEF StatusDestroy
<1> DEFINE c == status[t]
           l == RemoveFirst(ctx[c].statuses, t)
<1>2. /\ c \in Ctxs /\ c # None /\ ctx[c] # None /\ ctx[c].mapped
      /\ status' = [status EXCEPT ![t] = None]
      /\ ctx' = [ctx EXCEPT ![c].statuses = l]
      /\ UNCHANGED <<prog, grp, stat, thr, die, hint, initcount, logctx, main, failed,
                     dangling>>
  BY <1>1, ReadyFacts DEF StatusDestroy, Context
<1>3. /\ ctx[c].statuses \in Seq(Statuses) /\ PlainLists(c, ctx, grp, stat, status)
  BY <1>1, <1>2, ReadyFacts, ContextLists DEF Plain
<1>4. l \in Seq(Statuses) /\ IsInjective(l) /\ ToSet(l) = ToSet(ctx[c].statuses) \ {t}
  BY <1>3, RemoveFirstInjective DEF PlainLists
<1>5. status[t] = c
  OBVIOUS
<1> HIDE DEF c, l
<1>6. NewStatuses(ctx', ctx, c, l)
  BY <1>1, <1>2, <1>4, ReadyFacts, NewStatusesIs
<1>7. Alike(ctx', ctx)
  BY <1>2, <1>6, NewStatusesAlike
<1>8. PlainContexts(ctx', hint')
  BY <1>1, <1>2, <1>7, AlikeContexts, ReadyFacts
<1>9. /\ status' \in [Statuses -> Ctxs \cup {None}]
      /\ status'[t] = None /\ \A u \in Statuses : u # t => status'[u] = status[u]
  BY <1>1, <1>2, ReadyFacts
<1>10. Plain(ctx', grp', stat', status')
  <2>1. ASSUME NEW g \in Grps, grp[g] # None PROVE PlainGroup(g, ctx', grp, stat)
    BY <2>1, <1>1, <1>7, GroupHolds, ReadyFacts DEF Plain, PlainGroup, Alike
  <2>2. ASSUME NEW s \in Stats, stat[s] # None PROVE PlainStat(s, ctx', grp, stat)
    <3>1. stat[s].ctx \in Ctxs /\ PlainStat(s, ctx, grp, stat)
      BY <2>2, <1>1, StatHolds, ReadyFacts DEF Plain
    <3> QED BY <3>1, <1>7 DEF PlainStat, Alike
  <2>3. \A u \in Statuses : status'[u] # None => ctx'[status'[u]] # None
    BY <1>1, <1>7, <1>9, ReadyFacts DEF Plain, Alike
  <2>4. ASSUME NEW d \in Ctxs, ctx'[d] # None PROVE PlainLists(d, ctx', grp, stat, status')
    <3>1. PlainLists(d, ctx, grp, stat, status)
      BY <2>4, <1>1, <1>7, ReadyFacts DEF Plain, Alike
    <3>2. CASE d = c
      <4>1. {u \in Statuses : status'[u] = c} = {u \in Statuses : status[u] = c} \ {t}
        BY <1>2, <1>9
      <4> QED BY <3>1, <3>2, <4>1, <1>4, <1>6 DEF PlainLists, NewStatuses
    <3>3. CASE d # c
      <4>1. {u \in Statuses : status'[u] = d} = {u \in Statuses : status[u] = d}
        BY <1>5, <1>9, <3>3, LibraryAssumption
      <4> QED BY <3>1, <3>3, <4>1, <1>6 DEF PlainLists, NewStatuses
    <3> QED BY <3>2, <3>3
  <2> QED BY <2>1, <2>2, <2>3, <2>4, <1>2 DEF Plain
<1>11. /\ TableTypes'
       /\ \A s \in Stats : thr[s].pc # "none" => ThreadKept(s, grp', stat', thr)
       /\ Values(grp', stat') /\ InOrder(grp')
  BY <1>1, <1>2, ReadyFacts DEF TableTypes
<1>12. hint' \in [Hints -> HintRecords \cup {None}]
  BY <1>1, <1>2, ReadyFacts
<1>13. dangling' \in BOOLEAN /\ ~dangling'
  BY <1>1, <1>2, ReadyFacts DEF BaseTypes
<1> QED BY <1>1, <1>2, <1>7, <1>8, <1>9, <1>10, <1>11, <1>12, <1>13, ReadyKeeps

\* Hints change the names of a context alone.
NewNames(cx2, cx, c) ==
    /\ cx2 \in [Ctxs -> ContextRecords \cup {None}]
    /\ \A d \in Ctxs : d # c => cx2[d] = cx[d]
    /\ cx2[c] # None
    /\ cx2[c].mapped = cx[c].mapped /\ cx2[c].objs = cx[c].objs
    /\ cx2[c].groups = cx[c].groups /\ cx2[c].stats = cx[c].stats
    /\ cx2[c].statuses = cx[c].statuses

\* NewNames is what the assignments do.
LEMMA NewNamesIs ==
    ASSUME NEW cx \in [Ctxs -> ContextRecords \cup {None}], NEW c \in Ctxs, cx[c] # None,
           NEW S \in SUBSET HintNames, NEW n \in Nat, NEW cx2,
           cx2 = [cx EXCEPT ![c].names = S, ![c].unique = n]
    PROVE  NewNames(cx2, cx, c)
<1> DEFINE r == [cx[c] EXCEPT !.names = S, !.unique = n]
<1>1. /\ r \in ContextRecords
      /\ r.mapped = cx[c].mapped /\ r.objs = cx[c].objs
      /\ r.groups = cx[c].groups /\ r.stats = cx[c].stats /\ r.statuses = cx[c].statuses
  BY DEF ContextRecords
<1>2. cx2 = [cx EXCEPT ![c] = r]
  OBVIOUS
<1> HIDE DEF r
<1>3. cx2 \in [Ctxs -> ContextRecords \cup {None}] /\ cx2[c] = r
      /\ \A d \in Ctxs : d # c => cx2[d] = cx[d]
  BY <1>1, <1>2
<1> QED BY <1>1, <1>3, LibraryAssumption DEF NewNames

\* A call that changes the hints of one context keeps the invariant.
LEMMA HintKeeps ==
    ASSUME IInv, Ready, NEW c \in Ctxs, ctx[c] # None, NewNames(ctx', ctx, c),
           hint' \in [Hints -> HintRecords \cup {None}],
           \A h \in Hints : hint'[h] # None => hint'[h].ctx = c \/ hint'[h] = hint[h],
           UNCHANGED <<prog, grp, stat, thr, die, status, initcount, logctx, main, failed,
                       dangling>>
    PROVE  IInv'
<1>1. Alike(ctx', ctx)
  BY DEF Alike, NewNames
<1>2. PlainContexts(ctx', hint')
  <2>1. \A h \in Hints : hint[h] # None => hint[h].ctx \in Ctxs
    BY ReadyFacts DEF HintRecords
  <2>2. PlainContexts(ctx, hint)
    BY ReadyFacts
  <2> QED BY <2>1, <2>2, <1>1 DEF PlainContexts, Alike
<1>3. Plain(ctx', grp', stat', status')
  <2> DEFINE cx2 == ctx'
  <2>1. /\ Plain(ctx, grp, stat, status)
        /\ grp \in [Grps -> GroupRecords \cup {None}]
        /\ stat \in [Stats -> StatRecords \cup {None}]
        /\ status \in [Statuses -> Ctxs \cup {None}]
    BY ReadyFacts DEF TableTypes
  <2>2. \A d \in Ctxs :
          /\ cx2[d] # None <=> ctx[d] # None
          /\ ctx[d] # None => /\ cx2[d].mapped = ctx[d].mapped
                              /\ cx2[d].groups = ctx[d].groups /\ cx2[d].stats = ctx[d].stats
                              /\ cx2[d].statuses = ctx[d].statuses
    BY DEF NewNames
  <2> HIDE DEF cx2
  <2>3. Plain(cx2, grp, stat, status)
    BY <2>1, <2>2, SameLists
  <2> QED BY <2>3 DEF cx2
<1>4. /\ TableTypes'
      /\ \A s \in Stats : thr[s].pc # "none" => ThreadKept(s, grp', stat', thr)
      /\ Values(grp', stat') /\ InOrder(grp')
      /\ status' \in [Statuses -> Ctxs \cup {None}]
  BY ReadyFacts DEF TableTypes
<1>5. dangling' \in BOOLEAN /\ ~dangling'
  BY ReadyFacts DEF BaseTypes
<1> QED BY <1>1, <1>2, <1>3, <1>4, <1>5, ReadyKeeps

\* PWR_AppHintCreate keeps the invariant.
LEMMA HintCreateKeeps ==
    ASSUME IInv, NEW c \in Ctxs, NEW o \in prog.objs, NEW h \in Hints,
           NEW name \in Names \cup {None}, HintCreate(c, o, name, h)
    PROVE  IInv'
<1>1. Ready
  BY CallsReady DEF HintCreate
<1>2. PICK n \in IF name = None THEN FirstFree(c, o) ELSE {ctx[c].unique} :
          LET region == IF name = None THEN Generated(o, n) ELSE name
          IN  /\ region \notin ctx[c].names
              /\ hint' = [hint EXCEPT ![h] = [ctx |-> c, obj |-> o, name |-> region]]
              /\ ctx' = [ctx EXCEPT ![c].names = @ \cup {region}, ![c].unique = n]
  BY DEF HintCreate
<1> DEFINE region == IF name = None THEN Generated(o, n) ELSE name
           S == ctx[c].names \cup {region}
<1>3. /\ ctx[c] # None
      /\ UNCHANGED <<prog, grp, stat, thr, die, status, initcount, logctx, main, failed,
                     dangling>>
  BY DEF HintCreate, Context
<1>4. ctx[c].names \in SUBSET HintNames /\ ctx[c].unique \in Nat /\ o \in Objs
  BY <1>1, <1>3, ReadyFacts, LibraryAssumption DEF BaseTypes, ContextRecords
<1>5. n \in Nat /\ region \in HintNames
  <2>1. CASE name = None
    <3>1. MaxUnique + Cardinality(Names) \in Nat /\ MaxUnique \in Nat
      BY LibraryAssumption, FS_CardinalityType
    <3>2. n \in 1..MaxUnique + Cardinality(Names)
      BY <2>1, <1>4, <3>1 DEF FirstFree
    <3> QED BY <2>1, <3>1, <3>2, <1>4 DEF Generated, HintNames
  <2>2. CASE name # None
    BY <2>2, <1>4 DEF HintNames
  <2> QED BY <2>1, <2>2
<1>6. S \in SUBSET HintNames
  BY <1>4, <1>5
<1>7. /\ hint' = [hint EXCEPT ![h] = [ctx |-> c, obj |-> o, name |-> region]]
      /\ ctx' = [ctx EXCEPT ![c].names = S, ![c].unique = n]
  BY <1>2
<1> HIDE DEF S, region
<1>8. NewNames(ctx', ctx, c)
  BY <1>1, <1>3, <1>5, <1>6, <1>7, ReadyFacts, NewNamesIs
<1>9. /\ hint' \in [Hints -> HintRecords \cup {None}]
      /\ \A x \in Hints : hint'[x] # None => hint'[x].ctx = c \/ hint'[x] = hint[x]
  BY <1>1, <1>4, <1>5, <1>7, ReadyFacts DEF HintRecords
<1> QED BY <1>1, <1>3, <1>8, <1>9, HintKeeps

\* PWR_AppHintDestroy keeps the invariant.
LEMMA HintDestroyKeeps ==
    ASSUME IInv, NEW h \in Hints, HintDestroy(h)
    PROVE  IInv'
<1>1. Ready /\ hint[h] # None
  BY CallsReady DEF HintDestroy
<1> DEFINE c == hint[h].ctx
           S == ctx[c].names \ {hint[h].name}
<1>2. c \in Ctxs /\ ctx[c] # None
  BY <1>1, ReadyFacts DEF HintRecords, PlainContexts
<1>3. /\ ctx' = [ctx EXCEPT ![c].names = S]
      /\ hint' = [hint EXCEPT ![h] = None]
      /\ UNCHANGED <<prog, grp, stat, thr, die, status, initcount, logctx, main, failed,
                     dangling>>
  BY DEF HintDestroy
<1>4. S \in SUBSET HintNames /\ ctx[c].unique \in Nat
  BY <1>1, <1>2, ReadyFacts DEF ContextRecords
<1>5. ctx' = [ctx EXCEPT ![c].names = S, ![c].unique = ctx[c].unique]
  <2>1. [ctx[c] EXCEPT !.names = S] = [ctx[c] EXCEPT !.names = S, !.unique = ctx[c].unique]
    BY <1>1, <1>2, ReadyFacts DEF ContextRecords
  <2> QED BY <2>1, <1>3
<1> HIDE DEF S, c
<1>6. NewNames(ctx', ctx, c)
  BY <1>1, <1>2, <1>4, <1>5, ReadyFacts, NewNamesIs
<1>7. /\ hint' \in [Hints -> HintRecords \cup {None}]
      /\ \A x \in Hints : hint'[x] # None => hint'[x].ctx = c \/ hint'[x] = hint[x]
  BY <1>1, <1>3, ReadyFacts
<1> QED BY <1>1, <1>2, <1>3, <1>6, <1>7, HintKeeps

\* A group that differs in its list of statistics alone.
NewOnes(gr2, gr, g, l) ==
    /\ gr2 \in [Grps -> GroupRecords \cup {None}]
    /\ \A h \in Grps : h # g => gr2[h] = gr[h]
    /\ gr2[g] # None /\ gr2[g].stats = l
    /\ gr2[g].ctx = gr[g].ctx /\ gr2[g].objs = gr[g].objs /\ gr2[g].freed = gr[g].freed

\* NewOnes is what the assignment to the list does.
LEMMA NewOnesIs ==
    ASSUME NEW gr \in [Grps -> GroupRecords \cup {None}], NEW g \in Grps, gr[g] # None,
           NEW l \in Seq(Stats), NEW gr2, gr2 = [gr EXCEPT ![g].stats = l]
    PROVE  NewOnes(gr2, gr, g, l)
<1> DEFINE r == [gr[g] EXCEPT !.stats = l]
<1>1. /\ r \in GroupRecords /\ r.stats = l
      /\ r.ctx = gr[g].ctx /\ r.objs = gr[g].objs /\ r.freed = gr[g].freed
  BY DEF GroupRecords
<1>2. gr2 = [gr EXCEPT ![g] = r]
  OBVIOUS
<1> HIDE DEF r
<1>3. gr2 \in [Grps -> GroupRecords \cup {None}] /\ gr2[g] = r
      /\ \A h \in Grps : h # g => gr2[h] = gr[h]
  BY <1>1, <1>2
<1> QED BY <1>1, <1>3, LibraryAssumption DEF NewOnes

\* Two tables of groups that differ in lists of statistics alone.
Same(gr2, gr) ==
    \A h \in Grps :
       /\ gr2[h] # None <=> gr[h] # None
       /\ gr[h] # None => /\ gr2[h].ctx = gr[h].ctx /\ gr2[h].objs = gr[h].objs
                          /\ gr2[h].freed = gr[h].freed

\* The values of a statistic that is left alone.
LEMMA ValuesSame ==
    ASSUME NEW x, NEW gr, NEW gr2, NEW st, NEW st2, ValuesKept(x, gr, st), st2[x] = st[x],
           st[x].grp # None => gr2[st[x].grp].objs = gr[st[x].grp].objs
    PROVE  ValuesKept(x, gr2, st2)
<1>1. Len(st2[x].values) >= 1 /\ Len(st2[x].seen) = Len(st2[x].values)
  BY DEF ValuesKept
<1>2. ASSUME st2[x].ready, NEW i \in 1..Len(st2[x].values)
      PROVE  /\ Least1(st2[x].values[i], {r[2] : r \in st2[x].seen[i]} \cup {Inf})
             /\ st2[x].grp # None =>
                   \A r \in st2[x].seen[i] : r[1] = gr2[st2[x].grp].objs[i]
  <2>1. /\ Least1(st[x].values[i], {r[2] : r \in st[x].seen[i]} \cup {Inf})
        /\ st[x].grp # None => \A r \in st[x].seen[i] : r[1] = gr[st[x].grp].objs[i]
    BY <1>2, Zenon DEF ValuesKept
  <2>2. CASE st[x].grp = None
    BY <2>1, <2>2, Zenon
  <2>3. CASE st[x].grp # None
    BY <2>1, <2>3, Zenon
  <2> QED BY <2>2, <2>3
<1> QED BY <1>1, <1>2 DEF ValuesKept

\* The thread of a statistic that is left alone.
LEMMA ThreadSame ==
    ASSUME NEW x, NEW gr, NEW gr2, NEW st, NEW st2, NEW th, NEW th2,
           ThreadKept(x, gr, st, th), st2[x] = st[x], th2[x] = th[x],
           st[x].grp # None => gr2[st[x].grp].objs = gr[st[x].grp].objs
    PROVE  ThreadKept(x, gr2, st2, th2)
<1>1. th2[x].pc \in {"read", "use", "update"} /\ st2[x].grp # None =>
        \A j \in 1..Len(th2[x].reading) :
            th2[x].reading[j][1] = gr2[st2[x].grp].objs[j]
  BY Zenon DEF ThreadKept
<1> QED BY <1>1, Zenon DEF ThreadKept

\* A new statistic keeps the invariant.
LEMMA StatMade ==
    ASSUME IInv, Ready, NEW s \in Stats, stat[s] = None,
           NEW c \in Ctxs, ctx[c] # None, ctx[c].mapped,
           NEW o \in Objs \cup {0}, NEW g \in Grps \cup {None}, NEW n \in Nat \ {0},
           AddStat(s, c, o, g, n),
           ctx' = [ctx EXCEPT ![c].stats = <<s>> \o @],
           g = None => grp' = grp,
           g # None => /\ o = 0 /\ grp[g] # None /\ grp[g].ctx = c
                       /\ n = Len(grp[g].objs)
                       /\ grp' = [grp EXCEPT ![g].stats = <<s>> \o @]
                       /\ dangling' = grp[g].freed,
           dangling' \in BOOLEAN, Careful => ~dangling',
           UNCHANGED <<prog, thr, die, status, hint, initcount, logctx, main, failed>>
    PROVE  IInv'
<1> DEFINE q == [ctx |-> c, obj |-> o, grp |-> g,
                 values |-> [i \in 1..n |-> 0], seen |-> [i \in 1..n |-> {}],
                 ready |-> FALSE]
<1>1. /\ q \in StatRecords /\ q # None /\ q.ctx = c /\ q.obj = o /\ q.grp = g
      /\ Len(q.values) = n /\ Len(q.seen) = n /\ ~q.ready
  <2> DEFINE v == [i \in 1..n |-> 0]
             y == [i \in 1..n |-> {}]
  <2>1. v \in Seq(Int) /\ Len(v) = n
    OBVIOUS
  <2>2. y \in Seq(SUBSET (Objs \X Int)) /\ Len(y) = n
    OBVIOUS
  <2> HIDE DEF v, y
  <2>3. q = [ctx |-> c, obj |-> o, grp |-> g, values |-> v, seen |-> y, ready |-> FALSE]
    BY DEF v, y
  <2> HIDE DEF q
  <2>4. /\ q \in StatRecords /\ q.ctx = c /\ q.obj = o /\ q.grp = g
        /\ q.values = v /\ q.seen = y /\ ~q.ready
    BY <2>1, <2>2, <2>3 DEF StatRecords
  <2> QED BY <2>1, <2>2, <2>4, LibraryAssumption
<1>2. stat' = [stat EXCEPT ![s] = q]
  BY DEF AddStat
<1> HIDE DEF q
<1>3. /\ stat' \in [Stats -> StatRecords \cup {None}] /\ stat'[s] = q
      /\ \A x \in Stats : x # s => stat'[x] = stat[x]
  BY <1>1, <1>2, ReadyFacts DEF TableTypes
<1> DEFINE l == <<s>> \o ctx[c].stats
<1>4. /\ ctx[c].stats \in Seq(Stats) /\ PlainLists(c, ctx, grp, stat, status)
  BY ReadyFacts, ContextLists DEF Plain
<1>5. /\ l \in Seq(Stats) /\ ToSet(l) = {s} \cup ToSet(ctx[c].stats) /\ IsInjective(l)
  <2>1. s \notin ToSet(ctx[c].stats)
    BY <1>4 DEF PlainLists
  <2> QED BY <1>4, <2>1, ConsList DEF PlainLists
<1>6. NewStats(ctx', ctx, c, l)
  <2>1. ctx' = [ctx EXCEPT ![c].stats = l]
    OBVIOUS
  <2> HIDE DEF l
  <2> QED BY <2>1, <1>5, ReadyFacts, NewStatsIs
<1> HIDE DEF l
<1>7. Alike(ctx', ctx)
  BY <1>6, NewStatusesAlike
<1>8. PlainContexts(ctx', hint')
  BY <1>7, AlikeContexts, ReadyFacts
<1>9. g # None => g \in Grps /\ NewOnes(grp', grp, g, <<s>> \o grp[g].stats)
  <2> SUFFICES ASSUME g # None PROVE g \in Grps /\ NewOnes(grp', grp, g, <<s>> \o grp[g].stats)
    OBVIOUS
  <2> DEFINE m == <<s>> \o grp[g].stats
  <2>1. g \in Grps /\ grp[g] # None
    OBVIOUS
  <2>2. grp[g].stats \in Seq(Stats) /\ grp \in [Grps -> GroupRecords \cup {None}]
    BY <2>1, ReadyFacts, GroupHolds DEF TableTypes
  <2>3. m \in Seq(Stats) /\ grp' = [grp EXCEPT ![g].stats = m]
    BY <2>2, ConsList
  <2> HIDE DEF m
  <2>4. NewOnes(grp', grp, g, m)
    BY <2>1, <2>2, <2>3, NewOnesIs
  <2> QED BY <2>1, <2>4 DEF m
<1>10. grp' \in [Grps -> GroupRecords \cup {None}] /\ Same(grp', grp)
  <2>1. grp \in [Grps -> GroupRecords \cup {None}]
    BY ReadyFacts DEF TableTypes
  <2>2. CASE g = None
    BY <2>1, <2>2 DEF Same
  <2>3. CASE g # None
    BY <2>3, <1>9 DEF NewOnes, Same
  <2> QED BY <2>2, <2>3
<1>11. thr[s].pc = "none"
  BY ReadyFacts DEF ThreadKept
<1>12. ASSUME ~dangling' PROVE Plain(ctx', grp', stat', status')
  <2>1. ASSUME NEW h \in Grps, grp'[h] # None PROVE PlainGroup(h, ctx', grp', stat')
    <3>1. /\ grp[h] # None /\ PlainGroup(h, ctx, grp, stat) /\ grp[h].ctx \in Ctxs
          /\ grp[h].stats \in Seq(Stats)
      BY <2>1, <1>10, ReadyFacts, GroupHolds DEF Plain, Same
    <3>2. CASE h = g /\ g # None
      <4>1. /\ ToSet(grp[h].stats) = {x \in Stats : stat[x] # None /\ stat[x].grp = h}
            /\ IsInjective(grp[h].stats)
        BY <3>1, <3>2, <1>12 DEF PlainGroup
      <4>2. s \notin ToSet(grp[h].stats)
        BY <4>1
      <4>3. /\ ToSet(<<s>> \o grp[h].stats) = {s} \cup ToSet(grp[h].stats)
            /\ IsInjective(<<s>> \o grp[h].stats)
        BY <3>1, <4>1, <4>2, ConsList
      <4>4. {x \in Stats : stat'[x] # None /\ stat'[x].grp = h}
              = {s} \cup {x \in Stats : stat[x] # None /\ stat[x].grp = h}
        BY <3>2, <1>1, <1>3
      <4>5. grp'[h].stats = <<s>> \o grp[h].stats /\ grp'[h].ctx = grp[h].ctx
        BY <3>2, <1>9 DEF NewOnes
      <4>6. ctx'[grp'[h].ctx] # None /\ ctx'[grp'[h].ctx].mapped
        BY <3>1, <4>5, <1>7 DEF PlainGroup, Alike
      <4> QED BY <4>1, <4>3, <4>4, <4>5, <4>6 DEF PlainGroup
    <3>3. CASE ~(h = g /\ g # None)
      <4>1. grp'[h] = grp[h]
        BY <3>3, <1>9 DEF NewOnes
      <4>2. {x \in Stats : stat'[x] # None /\ stat'[x].grp = h}
              = {x \in Stats : stat[x] # None /\ stat[x].grp = h}
        BY <3>3, <1>1, <1>3, LibraryAssumption
      <4>3. ctx'[grp'[h].ctx] # None /\ ctx'[grp'[h].ctx].mapped
        BY <3>1, <4>1, <1>7 DEF PlainGroup, Alike
      <4> QED BY <3>1, <4>1, <4>2, <4>3 DEF PlainGroup
    <3> QED BY <3>2, <3>3
  <2>2. ASSUME NEW x \in Stats, stat'[x] # None PROVE PlainStat(x, ctx', grp', stat')
    <3>1. CASE x = s
      <4>1. stat'[x] = q /\ q.ctx = c /\ q.grp = g /\ q.obj = o /\ Len(q.values) = n
        BY <3>1, <1>1, <1>3
      <4>2. ctx'[c] # None /\ ctx'[c].mapped
        BY <1>7 DEF Alike
      <4>3. g # None => /\ grp'[g] # None /\ grp'[g].ctx = c /\ Len(grp'[g].objs) = n
                        /\ o = 0
        BY <1>10 DEF Same
      <4> QED BY <4>1, <4>2, <4>3 DEF PlainStat
    <3>2. CASE x # s
      <4>1. stat'[x] = stat[x] /\ PlainStat(x, ctx, grp, stat)
            /\ stat[x].ctx \in Ctxs /\ stat[x].grp \in Grps \cup {None}
        BY <2>2, <3>2, <1>3, ReadyFacts, StatHolds DEF Plain
      <4> QED BY <4>1, <1>7, <1>10 DEF PlainStat, Alike, Same
    <3> QED BY <3>1, <3>2
  <2>3. \A u \in Statuses : status[u] # None => ctx'[status[u]] # None
    BY <1>7, ReadyFacts DEF Plain, Alike
  <2>4. ASSUME NEW d \in Ctxs, ctx'[d] # None PROVE PlainLists(d, ctx', grp', stat', status)
    <3>1. PlainLists(d, ctx, grp, stat, status)
      BY <2>4, <1>7, ReadyFacts DEF Plain, Alike
    <3>2. {h \in Grps : grp'[h] # None /\ grp'[h].ctx = d}
            = {h \in Grps : grp[h] # None /\ grp[h].ctx = d}
      BY <1>10 DEF Same
    <3>3. CASE d = c
      <4>1. {x \in Stats : stat'[x] # None /\ stat'[x].ctx = c}
              = {s} \cup {x \in Stats : stat[x] # None /\ stat[x].ctx = c}
        BY <1>1, <1>3
      <4>2. /\ ctx'[d].stats = l /\ ctx'[d].groups = ctx[d].groups
            /\ ctx'[d].statuses = ctx[d].statuses /\ ctx'[d].mapped /\ ctx[d].mapped
        BY <3>3, <1>6 DEF NewStats
      <4>3. ToSet(l) = {x \in Stats : stat'[x] # None /\ stat'[x].ctx = d}
        BY <3>1, <3>3, <4>1, <4>2, <1>5 DEF PlainLists
      <4> QED BY <3>1, <3>2, <4>2, <4>3, <1>5, Zenon DEF PlainLists
    <3>4. CASE d # c
      <4>1. {x \in Stats : stat'[x] # None /\ stat'[x].ctx = d}
              = {x \in Stats : stat[x] # None /\ stat[x].ctx = d}
        BY <1>1, <1>3, <3>4
      <4> QED BY <3>1, <3>2, <3>4, <4>1, <1>6 DEF PlainLists, NewStats
    <3> QED BY <3>3, <3>4
  <2> QED BY <2>1, <2>2, <2>3, <2>4 DEF Plain
<1>13. TableTypes'
  BY <1>3, <1>10, ReadyFacts DEF TableTypes
<1>14. ASSUME NEW x \in Stats, thr[x].pc # "none" PROVE ThreadKept(x, grp', stat', thr)
  <2>1. /\ ThreadKept(x, grp, stat, thr) /\ stat'[x] = stat[x] /\ stat[x] # None
        /\ stat[x].grp \in Grps \cup {None}
    BY <1>3, <1>11, <1>14, ReadyFacts, StatHolds DEF ThreadKept
  <2>2. stat[x].grp # None => grp[stat[x].grp] # None
    BY <2>1, ReadyFacts DEF Plain, PlainStat
  <2> QED BY <2>1, <2>2, <1>10 DEF ThreadKept, Same
<1>15. Values(grp', stat')
  <2>1. ASSUME NEW x \in Stats, stat'[x] # None PROVE ValuesKept(x, grp', stat')
    <3>1. CASE x = s
      BY <3>1, <1>1, <1>3 DEF ValuesKept
    <3>2. CASE x # s
      <4>1. /\ ValuesKept(x, grp, stat) /\ stat'[x] = stat[x] /\ stat[x] # None
            /\ stat[x].grp \in Grps \cup {None}
        BY <2>1, <3>2, <1>3, ReadyFacts, StatHolds DEF Values
      <4>2. stat[x].grp # None => grp[stat[x].grp] # None
        BY <4>1, ReadyFacts DEF Plain, PlainStat
      <4>3. stat[x].grp # None => grp'[stat[x].grp].objs = grp[stat[x].grp].objs
        BY <4>1, <4>2, <1>10 DEF Same
      <4> QED BY <4>1, <4>3, ValuesSame
    <3> QED BY <3>1, <3>2
  <2> QED BY <2>1 DEF Values
<1>16. InOrder(grp')
  BY <1>10, ReadyFacts DEF InOrder, Same
<1>17. \A x \in Stats : thr[x].pc # "none" => stat'[x].ctx = stat[x].ctx
  BY <1>3, <1>11
<1>18. /\ status' \in [Statuses -> Ctxs \cup {None}]
       /\ hint' \in [Hints -> HintRecords \cup {None}]
  BY ReadyFacts
<1> QED BY <1>7, <1>8, <1>12, <1>13, <1>14, <1>15, <1>16, <1>17, <1>18, ReadyKeeps

\* PWR_ObjCreateStat keeps the invariant.
LEMMA ObjCreateStatKeeps ==
    ASSUME IInv, NEW c \in Ctxs, NEW o \in prog.objs, NEW s \in Stats, ObjCreateStat(c, o, s)
    PROVE  IInv'
<1>1. /\ Ready /\ stat[s] = None /\ ctx[c] # None /\ ctx[c].mapped
      /\ AddStat(s, c, o, None, 1)
      /\ ctx' = [ctx EXCEPT ![c].stats = <<s>> \o @]
      /\ UNCHANGED <<prog, grp, thr, die, status, hint, initcount, logctx, main, failed,
                     dangling>>
  BY CallsReady DEF ObjCreateStat, Context
<1>2. o \in Objs \cup {0} /\ None \in Grps \cup {None} /\ 1 \in Nat \ {0}
  BY <1>1, ReadyFacts, LibraryAssumption DEF BaseTypes
<1>3. dangling' \in BOOLEAN /\ ~dangling'
  BY <1>1, ReadyFacts DEF BaseTypes
<1> QED BY <1>1, <1>2, <1>3, StatMade

\* PWR_GrpCreateStat keeps the invariant.
LEMMA GrpCreateStatKeeps ==
    ASSUME IInv, NEW g \in Grps, NEW s \in Stats, GrpCreateStat(g, s)
    PROVE  IInv'
<1>1. /\ Ready /\ stat[s] = None /\ grp[g] # None /\ grp[g].objs # <<>>
      /\ ctx[grp[g].ctx] # None /\ ctx[grp[g].ctx].mapped
      /\ Careful => ~grp[g].freed
      /\ AddStat(s, grp[g].ctx, 0, g, Len(grp[g].objs))
      /\ ctx' = [ctx EXCEPT ![grp[g].ctx].stats = <<s>> \o @]
      /\ grp' = [grp EXCEPT ![g].stats = <<s>> \o @]
      /\ dangling' = grp[g].freed
      /\ UNCHANGED <<prog, thr, die, status, hint, initcount, logctx, main, failed>>
  BY CallsReady DEF GrpCreateStat, Context
<1>2. /\ grp[g].ctx \in Ctxs /\ grp[g].freed \in BOOLEAN /\ grp[g].objs \in Seq(Objs)
      /\ g # None
  BY <1>1, ReadySound, GroupHolds, LibraryAssumption
<1>3. Len(grp[g].objs) \in Nat \ {0}
  <2> DEFINE l == grp[g].objs
  <2>1. l \in Seq(Objs) /\ l # <<>>
    BY <1>1, <1>2
  <2> HIDE DEF l
  <2>2. Len(l) \in Nat \ {0}
    BY <2>1
  <2> QED BY <2>2 DEF l
<1>4. g \in Grps \cup {None} /\ 0 \in Objs \cup {0}
  OBVIOUS
<1>5. dangling' \in BOOLEAN /\ (Careful => ~dangling')
  BY <1>1, <1>2
<1> QED BY <1>1, <1>2, <1>3, <1>4, <1>5, StatMade

-------------------------------------------------------------------------------
(* Calls that leave something to be done.                                      *)

\* The contexts, under a list that does nothing to them.
LEMMA PendingContexts ==
    ASSUME NEW w, NEW cx, NEW hn, PlainContexts(cx, hn),
           \A k \in 1..Len(w) : w[k].do \notin {"objects", "context"}
    PROVE  Contexts(w, cx, hn)
BY DEF PlainContexts, Contexts, ItemOfContext, ContextKept, HintKept

\* A call that leaves a work list behind keeps the invariant when the tables
\* agree with the list.
LEMMA PendingKeeps ==
    ASSUME IInv, Ready,
           UNCHANGED <<prog, initcount, logctx, failed, stat, thr, die, status, hint>>,
           Alike(ctx', ctx), grp' \in [Grps -> GroupRecords \cup {None}], Same(grp', grp),
           main' \in Seq(Entries),
           \A k \in 1..Len(main') : main'[k].do \notin {"objects", "context"},
           dangling' \in BOOLEAN, Careful => ~dangling',
           ~dangling' => Tables(main', ctx', grp', stat, status),
           ~dangling' => \A k \in 1..Len(main') : ItemOfThreads(main', k, stat, thr),
           Careful => \A k \in 1..Len(main') : main'[k].do = "start" =>
              main'[k].on \in Stats /\ stat[main'[k].on] # None
    PROVE  IInv'
<1>1. BaseTypes'
  BY ReadyFacts DEF BaseTypes, Alike
<1>2. Counted'
  BY ReadyFacts, AlikeCounted
<1>3. PlainContexts(ctx', hint')
  BY AlikeContexts, ReadyFacts
<1>4. Contexts(main', ctx', hint')
  BY <1>3, PendingContexts
<1>5. TableTypes'
  BY ReadyFacts DEF TableTypes
<1>6. ASSUME NEW x \in Stats, stat[x] # None, stat[x].grp # None
      PROVE  grp'[stat[x].grp].objs = grp[stat[x].grp].objs
  <2>1. stat[x].grp \in Grps /\ grp[stat[x].grp] # None
    BY <1>6, ReadyFacts, StatHolds DEF Plain, PlainStat
  <2> QED BY <2>1 DEF Same
<1>7. ASSUME NEW x \in Stats, thr[x].pc # "none" PROVE ThreadKept(x, grp', stat', thr')
  <2>1. ThreadKept(x, grp, stat, thr) /\ stat'[x] = stat[x] /\ thr'[x] = thr[x]
    BY <1>7, ReadyFacts
  <2>2. stat[x] # None
    BY <2>1 DEF ThreadKept
  <2> QED BY <2>1, <2>2, <1>6, ThreadSame
<1>8. Values(grp', stat')
  <2>1. ASSUME NEW x \in Stats, stat[x] # None PROVE ValuesKept(x, grp', stat')
    <3>1. ValuesKept(x, grp, stat) /\ stat'[x] = stat[x]
      BY <2>1, ReadyFacts DEF Values
    <3> QED BY <3>1, <2>1, <1>6, ValuesSame
  <2> QED BY <2>1 DEF Values
<1>9. InOrder(grp')
  BY ReadyFacts DEF InOrder, Same
<1>10. ~dangling' => Sound'
  BY <1>5, <1>7, <1>8, <1>9 DEF Sound, Threads
<1>11. Careful => Whole(main', ctx', stat', thr')
  <2> SUFFICES ASSUME Careful PROVE Whole(main', ctx', stat', thr')
    OBVIOUS
  <2>1. ASSUME NEW x \in Stats, stat[x] # None
        PROVE  ctx'[stat[x].ctx] # None /\ ctx'[stat[x].ctx].mapped /\ ctx'[stat[x].ctx].objs
    <3>1. stat[x].ctx \in Ctxs /\ ctx[stat[x].ctx] # None /\ ctx[stat[x].ctx].mapped
      BY <2>1, ReadyFacts, StatHolds DEF Plain, PlainStat
    <3>2. ctx[stat[x].ctx].objs
      BY <3>1, ReadyFacts DEF PlainContexts
    <3> QED BY <3>1, <3>2 DEF Alike
  <2>2. \A x \in Stats : thr[x].pc # "none" => stat[x] # None
    BY ReadyFacts DEF ThreadKept
  <2>3. \A k \in 1..Len(main') : main'[k].do = "start" =>
           main'[k].on \in Stats /\ stat[main'[k].on] # None
    OBVIOUS
  <2>4. stat' = stat /\ thr' = thr
    OBVIOUS
  <2> QED BY <2>1, <2>2, <2>3, <2>4 DEF Whole
<1> QED BY <1>1, <1>2, <1>4, <1>10, <1>11 DEF IInv

\* The items that group_invalidate_statistics and what follows it leave to be done.
LEMMA InvalidatesItems ==
    ASSUME NEW g \in Grps, NEW w, NEW n \in Nat \ {0}, Len(w) = n, Invalidates(w, n, g),
           w[n].on = g, w[n].do \in {"insert", "remove", "group"}
    PROVE  /\ \A x : ~Has(w, "stat", x)
           /\ \A x : Has(w, "group", x) => w[n].do = "group" /\ x = g
           /\ w[n].do = "group" => Has(w, "group", g)
           /\ \A k \in 1..Len(w) :
                 w[k].do \in {"stop", "detach", "freelist", "insert", "remove", "group"}
<1>1. ASSUME NEW k \in 1..Len(w)
      PROVE  k = n \/ w[k].do \in {"stop", "detach", "freelist"}
  BY <1>1 DEF Invalidates
<1>2. n \in 1..Len(w)
  OBVIOUS
<1> QED BY <1>1, <1>2 DEF Has

\* The list of group_invalidate_statistics agrees with the tables.
LEMMA InvalidatesAgrees ==
    ASSUME Sound, Plain(ctx, grp, stat, status),
           NEW g \in Grps, grp[g] # None, ~grp[g].freed,
           NEW w, NEW n \in Nat \ {0}, Len(w) = n, Invalidates(w, n, g),
           w[n].on = g, w[n].do \in {"insert", "remove", "group"},
           w[n].do # "group" => w[n].obj \in Objs,
           NEW k \in 1..Len(w)
    PROVE  ItemOfTables(w, k, grp, stat) /\ ItemOfThreads(w, k, stat, thr)
<1>1. ToSet(grp[g].stats) = {s \in Stats : stat[s] # None /\ stat[s].grp = g}
  BY DEF Plain, PlainGroup
<1>2. /\ \A x : ~Has(w, "stat", x)
      /\ w[n].do # "group" => \A x : ~Has(w, "group", x)
  BY InvalidatesItems
<1>3. CASE k = n
  <2>1. \A s \in Stats : stat[s] # None /\ stat[s].grp = g => Prior(w, k, "detach", s)
    BY <1>1, <1>3 DEF Invalidates
  <2>2. w[n].do # "group" => \A j \in 1..Len(w) : w[j].do # "group"
    BY <1>2 DEF Has
  <2> QED BY <2>1, <2>2, <1>3 DEF ItemOfTables, ItemOfThreads
<1>4. CASE k # n
  <2>1. /\ w[k].do \in {"stop", "detach", "freelist"}
        /\ w[k].do \in {"stop", "detach"} => w[k].on \in ToSet(grp[g].stats)
        /\ w[k].do = "freelist" => w[k].on = g
        /\ w[k].do = "detach" => Prior(w, k, "stop", w[k].on) /\ Later(w, k, "freelist", g)
    BY <1>4 DEF Invalidates
  <2>2. \A j \in 1..Len(w) : w[j].do # "stat"
    BY <1>2 DEF Has
  <2> QED BY <2>1, <2>2, <1>1 DEF ItemOfTables, ItemOfThreads
<1> QED BY <1>3, <1>4

\* Nothing changes in the groups.
LEMMA SameIs ==
    ASSUME NEW gr
    PROVE  Same(gr, gr)
BY DEF Same

\* Nothing changes in the contexts.
LEMMA AlikeIs ==
    ASSUME NEW cx \in [Ctxs -> ContextRecords \cup {None}]
    PROVE  Alike(cx, cx)
BY DEF Alike

\* A change of a group, before which its statistics are invalidated.
LEMMA ChangeKeeps ==
    ASSUME IInv, Ready, NEW g \in Grps, grp[g] # None, NEW o \in Objs,
           NEW do \in {"insert", "remove"}, Change(g, Invalidate(g) \o <<Item(do, g, o)>>)
    PROVE  IInv'
<1> DEFINE w == main'
           e == Item(do, g, o)
<1>1. /\ Careful => ~grp[g].freed
      /\ w = Invalidate(g) \o <<e>>
      /\ dangling' = grp[g].freed
      /\ UNCHANGED <<prog, ctx, grp, stat, thr, die, status, hint, initcount, logctx, failed>>
  BY DEF Change
<1>2. grp[g].stats \in Seq(Stats) /\ grp[g].freed \in BOOLEAN
  BY ReadySound, GroupHolds
<1>3. e \in Entries /\ e.do = do /\ e.on = g /\ e.obj = o
  BY ItemEntry DEF Items
<1> HIDE DEF w, e
<1>4. w \in Seq(Entries) /\ Len(w) \in Nat \ {0} /\ w[Len(w)] = e /\ Invalidates(w, Len(w), g)
  BY <1>1, <1>2, <1>3, InvalidateList
<1>5. /\ \A x : ~Has(w, "stat", x) /\ ~Has(w, "group", x)
      /\ \A k \in 1..Len(w) :
             w[k].do \in {"stop", "detach", "freelist", "insert", "remove", "group"}
  BY <1>3, <1>4, InvalidatesItems
<1>6. ASSUME ~dangling', NEW k \in 1..Len(w)
      PROVE  ItemOfTables(w, k, grp, stat) /\ ItemOfThreads(w, k, stat, thr)
  BY <1>1, <1>3, <1>4, <1>6, ReadyFacts, InvalidatesAgrees
<1>7. ASSUME ~dangling' PROVE Tables(w, ctx, grp, stat, status)
  <2>1. ASSUME NEW h \in Grps, grp[h] # None PROVE GroupKept(w, h, ctx, grp, stat)
    <3>1. PlainGroup(h, ctx, grp, stat)
      BY <2>1, ReadyFacts DEF Plain
    <3>2. {s \in Stats : stat[s] # None /\ stat[s].grp = h /\ ~Has(w, "stat", s)}
            = {s \in Stats : stat[s] # None /\ stat[s].grp = h}
      BY <1>5
    <3> QED BY <3>1, <3>2 DEF PlainGroup, GroupKept
  <2>2. ASSUME NEW s \in Stats, stat[s] # None PROVE StatKept(w, s, ctx, grp, stat)
    BY <2>2, ReadyFacts DEF Plain, PlainStat, StatKept
  <2>3. ASSUME NEW d \in Ctxs, ctx[d] # None PROVE ListsKept(w, d, ctx, grp, stat, status)
    <3>1. PlainLists(d, ctx, grp, stat, status)
      BY <2>3, ReadyFacts DEF Plain
    <3>2. /\ {h \in Grps : grp[h] # None /\ grp[h].ctx = d /\ ~Has(w, "group", h)}
               = {h \in Grps : grp[h] # None /\ grp[h].ctx = d}
          /\ {s \in Stats : stat[s] # None /\ stat[s].ctx = d /\ ~Has(w, "stat", s)}
               = {s \in Stats : stat[s] # None /\ stat[s].ctx = d}
      BY <1>5
    <3> QED BY <3>1, <3>2 DEF PlainLists, ListsKept
  <2> QED BY <1>6, <1>7, <2>1, <2>2, <2>3, ReadyFacts DEF Tables, Plain
<1>8. Alike(ctx', ctx) /\ Same(grp', grp) /\ grp' \in [Grps -> GroupRecords \cup {None}]
  BY <1>1, ReadyFacts, AlikeIs, SameIs DEF TableTypes
<1>9. dangling' \in BOOLEAN /\ (Careful => ~dangling')
  BY <1>1, <1>2
<1>10. \A k \in 1..Len(w) : w[k].do \notin {"objects", "context", "start"}
  BY <1>5
<1>11. ~dangling' => Tables(w, ctx', grp', stat, status)
  BY <1>1, <1>7
<1> QED BY <1>1, <1>4, <1>6, <1>8, <1>9, <1>10, <1>11, PendingKeeps DEF w

\* PWR_GrpAddObj and PWR_GrpRemoveObj keep the invariant.
LEMMA GrpAddObjKeeps ==
    ASSUME IInv, NEW g \in Grps, NEW o \in prog.objs, GrpAddObj(g, o) \/ GrpRemoveObj(g, o)
    PROVE  IInv'
<1>1. Ready /\ grp[g] # None
  BY CallsReady DEF GrpAddObj, GrpRemoveObj
<1>2. o \in Objs
  BY <1>1, ReadyFacts, LibraryAssumption DEF BaseTypes
<1>3. CASE GrpAddObj(g, o)
  BY <1>1, <1>2, <1>3, ChangeKeeps DEF GrpAddObj
<1>4. CASE GrpRemoveObj(g, o)
  BY <1>1, <1>2, <1>4, ChangeKeeps DEF GrpRemoveObj
<1> QED BY <1>3, <1>4

\* PWR_GrpDestroy keeps the invariant.
LEMMA GrpDestroyKeeps ==
    ASSUME IInv, NEW g \in Grps, GrpDestroy(g)
    PROVE  IInv'
<1> DEFINE w == main'
           c == grp[g].ctx
           l == RemoveFirst(ctx[c].groups, g)
<1>1. /\ Ready /\ grp[g] # None /\ ctx[c] # None /\ ctx[c].mapped
      /\ Careful => ~grp[g].freed
      /\ w = DelGroup(g) /\ dangling' = grp[g].freed
      /\ ctx' = [ctx EXCEPT ![c].groups = l]
      /\ UNCHANGED <<prog, grp, stat, thr, die, status, hint, initcount, logctx, failed>>
  BY CallsReady DEF GrpDestroy, Context
<1>2. grp[g].stats \in Seq(Stats) /\ grp[g].freed \in BOOLEAN /\ c \in Ctxs
  BY <1>1, ReadySound, GroupHolds
<1>3. ctx[c].groups \in Seq(Grps) /\ PlainLists(c, ctx, grp, stat, status)
  BY <1>1, <1>2, ReadyFacts, ContextLists DEF Plain
<1>4. l \in Seq(Grps) /\ IsInjective(l) /\ ToSet(l) = ToSet(ctx[c].groups) \ {g}
  BY <1>3, RemoveFirstInjective DEF PlainLists
<1>5. c = grp[g].ctx
  OBVIOUS
<1> HIDE DEF w, c, l
<1>6. /\ w \in Seq(Entries) /\ Len(w) \in Nat \ {0}
      /\ w[Len(w)].do = "group" /\ w[Len(w)].on = g /\ Invalidates(w, Len(w), g)
  BY <1>1, <1>2, DelGroupList
<1>7. NewGroups(ctx', ctx, c, l)
  BY <1>1, <1>2, <1>4, ReadyFacts, NewGroupsIs
<1>8. Alike(ctx', ctx)
  BY <1>1, <1>2, <1>7, NewStatusesAlike
<1>9. /\ \A x : ~Has(w, "stat", x)
      /\ \A x : Has(w, "group", x) => x = g
      /\ Has(w, "group", g)
      /\ \A k \in 1..Len(w) :
            w[k].do \in {"stop", "detach", "freelist", "insert", "remove", "group"}
  BY <1>6, InvalidatesItems
<1>10. ASSUME ~dangling', NEW k \in 1..Len(w)
       PROVE  ItemOfTables(w, k, grp, stat) /\ ItemOfThreads(w, k, stat, thr)
  BY <1>1, <1>6, <1>10, ReadyFacts, InvalidatesAgrees
<1>11. ASSUME ~dangling' PROVE Tables(w, ctx', grp, stat, status)
  <2>1. ASSUME NEW h \in Grps, grp[h] # None PROVE GroupKept(w, h, ctx', grp, stat)
    <3>1. PlainGroup(h, ctx, grp, stat) /\ grp[h].ctx \in Ctxs
      BY <2>1, <1>1, ReadyFacts, GroupHolds DEF Plain
    <3>2. {s \in Stats : stat[s] # None /\ stat[s].grp = h /\ ~Has(w, "stat", s)}
            = {s \in Stats : stat[s] # None /\ stat[s].grp = h}
      BY <1>9
    <3> QED BY <3>1, <3>2, <1>8 DEF PlainGroup, GroupKept, Alike
  <2>2. ASSUME NEW s \in Stats, stat[s] # None PROVE StatKept(w, s, ctx', grp, stat)
    <3>1. PlainStat(s, ctx, grp, stat) /\ stat[s].ctx \in Ctxs
      BY <2>2, <1>1, ReadyFacts, StatHolds DEF Plain
    <3> QED BY <3>1, <1>8 DEF PlainStat, StatKept, Alike
  <2>3. ASSUME NEW d \in Ctxs, ctx'[d] # None PROVE ListsKept(w, d, ctx', grp, stat, status)
    <3>1. PlainLists(d, ctx, grp, stat, status)
      BY <2>3, <1>1, <1>8, ReadyFacts DEF Plain, Alike
    <3>2. {s \in Stats : stat[s] # None /\ stat[s].ctx = d /\ ~Has(w, "stat", s)}
            = {s \in Stats : stat[s] # None /\ stat[s].ctx = d}
      BY <1>9
    <3>3. {h \in Grps : grp[h] # None /\ grp[h].ctx = d /\ ~Has(w, "group", h)}
            = {h \in Grps : grp[h] # None /\ grp[h].ctx = d} \ {g}
      BY <1>9
    <3>4. CASE d = c
      <4>1. /\ ctx'[d].groups = l /\ ctx'[d].stats = ctx[d].stats
            /\ ctx'[d].statuses = ctx[d].statuses /\ ctx'[d].mapped = ctx[d].mapped
        BY <3>4, <1>7 DEF NewGroups
      <4>2. ctx[d].mapped => ToSet(l) = {h \in Grps : grp[h] # None /\ grp[h].ctx = d} \ {g}
        BY <3>1, <3>4, <1>4 DEF PlainLists
      <4> QED BY <3>1, <3>2, <3>3, <4>1, <4>2, <1>4, Zenon DEF PlainLists, ListsKept
    <3>5. CASE d # c
      <4>1. {h \in Grps : grp[h] # None /\ grp[h].ctx = d} \ {g}
              = {h \in Grps : grp[h] # None /\ grp[h].ctx = d}
        BY <3>5, <1>5
      <4>2. ctx'[d] = ctx[d]
        BY <3>5, <1>7 DEF NewGroups
      <4> QED BY <3>1, <3>2, <3>3, <4>1, <4>2 DEF PlainLists, ListsKept
    <3> QED BY <3>4, <3>5
  <2>4. \A t \in Statuses : status[t] # None => ctx'[status[t]] # None
    BY <1>1, <1>8, ReadyFacts DEF Plain, Alike
  <2> QED BY <1>10, <1>11, <2>1, <2>2, <2>3, <2>4 DEF Tables
<1>12. Same(grp', grp) /\ grp' \in [Grps -> GroupRecords \cup {None}]
  BY <1>1, ReadyFacts, SameIs DEF TableTypes
<1>13. dangling' \in BOOLEAN /\ (Careful => ~dangling')
  BY <1>1, <1>2
<1>14. \A k \in 1..Len(w) : w[k].do \notin {"objects", "context", "start"}
  BY <1>9
<1>15. ~dangling' => Tables(w, ctx', grp', stat, status)
  BY <1>1, <1>11
<1> QED BY <1>1, <1>6, <1>8, <1>10, <1>12, <1>13, <1>14, <1>15, PendingKeeps DEF w

\* PWR_StatDestroy keeps the invariant.
LEMMA StatDestroyKeeps ==
    ASSUME IInv, NEW s \in Stats, StatDestroy(s)
    PROVE  IInv'
<1> DEFINE w == main'
           c == stat[s].ctx
           g == stat[s].grp
           l == RemoveFirst(ctx[c].stats, s)
<1>1. /\ Ready /\ stat[s] # None /\ ctx[c] # None /\ ctx[c].mapped
      /\ w = DelStat(s)
      /\ ctx' = [ctx EXCEPT ![c].stats = l]
      /\ grp' = IF g = None THEN grp
                ELSE [grp EXCEPT ![g].stats = RemoveFirst(@, s)]
      /\ UNCHANGED <<prog, stat, thr, die, status, hint, initcount, logctx, failed, dangling>>
  BY CallsReady DEF StatDestroy, Context
<1>2. c \in Ctxs /\ g \in Grps \cup {None} /\ PlainStat(s, ctx, grp, stat)
  BY <1>1, ReadyFacts, StatHolds DEF Plain
<1>3. ctx[c].stats \in Seq(Stats) /\ PlainLists(c, ctx, grp, stat, status)
  BY <1>1, <1>2, ReadyFacts, ContextLists DEF Plain
<1>4. l \in Seq(Stats) /\ IsInjective(l) /\ ToSet(l) = ToSet(ctx[c].stats) \ {s}
  BY <1>3, RemoveFirstInjective DEF PlainLists
<1>5. c = stat[s].ctx /\ g = stat[s].grp
  OBVIOUS
<1> HIDE DEF w, c, l, g
<1>6. /\ w \in Seq(Entries) /\ Len(w) = 2
      /\ w[1].do = "stop" /\ w[1].on = s /\ w[2].do = "stat" /\ w[2].on = s
      /\ \A k \in 1..2 : w[k].do \in {"stop", "stat"} /\ w[k].on = s
  BY <1>1, PairItems DEF DelStat
<1>7. NewStats(ctx', ctx, c, l)
  BY <1>1, <1>2, <1>4, ReadyFacts, NewStatsIs
<1>8. Alike(ctx', ctx)
  BY <1>1, <1>2, <1>7, NewStatusesAlike
<1>9. /\ \A x : Has(w, "stat", x) <=> x = s
      /\ \A x : ~Has(w, "group", x) /\ ~Has(w, "freelist", x)
      /\ \A k \in 1..Len(w) : w[k].do \in {"stop", "stat"} /\ w[k].on = s
  BY <1>6 DEF Has
<1>10. ASSUME g # None
       PROVE  /\ g \in Grps /\ grp[g] # None
              /\ NewOnes(grp', grp, g, RemoveFirst(grp[g].stats, s))
              /\ IsInjective(RemoveFirst(grp[g].stats, s))
              /\ ToSet(RemoveFirst(grp[g].stats, s)) = ToSet(grp[g].stats) \ {s}
  <2>1. g \in Grps /\ grp[g] # None
    BY <1>2, <1>5, <1>10 DEF PlainStat
  <2>2. /\ grp[g].stats \in Seq(Stats) /\ grp \in [Grps -> GroupRecords \cup {None}]
        /\ IsInjective(grp[g].stats)
    BY <2>1, <1>1, ReadyFacts, GroupHolds DEF TableTypes, Plain, PlainGroup
  <2> DEFINE m == RemoveFirst(grp[g].stats, s)
  <2>3. m \in Seq(Stats) /\ IsInjective(m) /\ ToSet(m) = ToSet(grp[g].stats) \ {s}
    BY <2>2, RemoveFirstInjective
  <2>4. grp' = [grp EXCEPT ![g].stats = m]
    BY <1>1, <1>10
  <2> HIDE DEF m
  <2>5. NewOnes(grp', grp, g, m)
    BY <2>1, <2>2, <2>3, <2>4, NewOnesIs
  <2> QED BY <2>1, <2>3, <2>5 DEF m
<1>11. grp' \in [Grps -> GroupRecords \cup {None}] /\ Same(grp', grp)
  <2>1. grp \in [Grps -> GroupRecords \cup {None}]
    BY <1>1, ReadyFacts DEF TableTypes
  <2>2. CASE g = None
    BY <2>1, <2>2, <1>1 DEF Same
  <2>3. CASE g # None
    BY <2>3, <1>10 DEF NewOnes, Same
  <2> QED BY <2>2, <2>3
<1>12. ASSUME NEW k \in 1..Len(w)
       PROVE  ItemOfTables(w, k, grp', stat) /\ ItemOfThreads(w, k, stat, thr)
  <2>1. k = 1 \/ k = 2
    BY <1>6
  <2>2. Prior(w, 2, "stop", s)
    BY <1>6 DEF Prior
  <2> QED BY <2>1, <2>2, <1>6 DEF ItemOfTables, ItemOfThreads
<1>13. Tables(w, ctx', grp', stat, status)
  <2>1. ASSUME NEW h \in Grps, grp'[h] # None PROVE GroupKept(w, h, ctx', grp', stat)
    <3>1. grp[h] # None /\ PlainGroup(h, ctx, grp, stat) /\ grp[h].ctx \in Ctxs
      BY <2>1, <1>1, <1>11, ReadyFacts, GroupHolds DEF Plain, Same
    <3>2. {x \in Stats : stat[x] # None /\ stat[x].grp = h /\ ~Has(w, "stat", x)}
            = {x \in Stats : stat[x] # None /\ stat[x].grp = h} \ {s}
      BY <1>9
    <3>3. /\ grp'[h].ctx = grp[h].ctx /\ grp'[h].freed = grp[h].freed
          /\ ctx'[grp'[h].ctx] # None /\ ctx'[grp'[h].ctx].mapped
      BY <3>1, <1>8, <1>11 DEF PlainGroup, Alike, Same
    <3>4. CASE h = g
      <4>1. /\ IsInjective(grp'[h].stats)
            /\ ToSet(grp'[h].stats) = ToSet(grp[h].stats) \ {s}
        BY <3>4, <1>10, LibraryAssumption DEF NewOnes
      <4> QED BY <3>1, <3>2, <3>3, <4>1 DEF PlainGroup, GroupKept
    <3>5. CASE h # g
      <4>1. grp'[h] = grp[h]
        BY <3>5, <1>1, <1>10 DEF NewOnes
      <4>2. {x \in Stats : stat[x] # None /\ stat[x].grp = h} \ {s}
              = {x \in Stats : stat[x] # None /\ stat[x].grp = h}
        BY <3>5, <1>5
      <4> QED BY <3>1, <3>2, <3>3, <4>1, <4>2 DEF PlainGroup, GroupKept
    <3> QED BY <3>4, <3>5
  <2>2. ASSUME NEW x \in Stats, stat[x] # None PROVE StatKept(w, x, ctx', grp', stat)
    <3>1. PlainStat(x, ctx, grp, stat) /\ stat[x].ctx \in Ctxs /\ stat[x].grp \in Grps \cup {None}
      BY <2>2, <1>1, ReadyFacts, StatHolds DEF Plain
    <3> QED BY <3>1, <1>8, <1>11 DEF PlainStat, StatKept, Alike, Same
  <2>3. ASSUME NEW d \in Ctxs, ctx'[d] # None PROVE ListsKept(w, d, ctx', grp', stat, status)
    <3>1. PlainLists(d, ctx, grp, stat, status)
      BY <2>3, <1>1, <1>8, ReadyFacts DEF Plain, Alike
    <3>2. {x \in Stats : stat[x] # None /\ stat[x].ctx = d /\ ~Has(w, "stat", x)}
            = {x \in Stats : stat[x] # None /\ stat[x].ctx = d} \ {s}
      BY <1>9
    <3>3. {h \in Grps : grp'[h] # None /\ grp'[h].ctx = d /\ ~Has(w, "group", h)}
            = {h \in Grps : grp[h] # None /\ grp[h].ctx = d}
      BY <1>9, <1>11 DEF Same
    <3>4. CASE d = c
      <4>1. /\ ctx'[d].stats = l /\ ctx'[d].groups = ctx[d].groups
            /\ ctx'[d].statuses = ctx[d].statuses /\ ctx'[d].mapped = ctx[d].mapped
        BY <3>4, <1>7 DEF NewStats
      <4>2. ctx[d].mapped => ToSet(l) = {x \in Stats : stat[x] # None /\ stat[x].ctx = d} \ {s}
        BY <3>1, <3>4, <1>4 DEF PlainLists
      <4> QED BY <3>1, <3>2, <3>3, <4>1, <4>2, <1>4, Zenon DEF PlainLists, ListsKept
    <3>5. CASE d # c
      <4>1. {x \in Stats : stat[x] # None /\ stat[x].ctx = d} \ {s}
              = {x \in Stats : stat[x] # None /\ stat[x].ctx = d}
        BY <3>5, <1>5
      <4>2. ctx'[d] = ctx[d]
        BY <3>5, <1>7 DEF NewStats
      <4> QED BY <3>1, <3>2, <3>3, <4>1, <4>2 DEF PlainLists, ListsKept
    <3> QED BY <3>4, <3>5
  <2>4. \A t \in Statuses : status[t] # None => ctx'[status[t]] # None
    BY <1>1, <1>8, ReadyFacts DEF Plain, Alike
  <2> QED BY <1>12, <2>1, <2>2, <2>3, <2>4 DEF Tables
<1>14. dangling' \in BOOLEAN /\ ~dangling'
  BY <1>1, ReadyFacts DEF BaseTypes
<1>15. \A k \in 1..Len(w) : w[k].do \notin {"objects", "context", "start"}
  BY <1>9
<1> QED BY <1>1, <1>6, <1>8, <1>11, <1>12, <1>13, <1>14, <1>15, PendingKeeps DEF w

\* PWR_StatStart and PWR_StatStop keep the invariant.
LEMMA StatCallKeeps ==
    ASSUME IInv, NEW s \in Stats, StatStart(s) \/ StatStop(s)
    PROVE  IInv'
<1> DEFINE w == main'
           a == Item("stop", s, 0)
           b == Item("start", s, 0)
<1>1. /\ Ready /\ stat[s] # None /\ (stat[s].obj # 0 \/ stat[s].grp # None)
      /\ w = <<a, b>> \/ w = <<a>>
      /\ UNCHANGED <<prog, ctx, grp, stat, thr, die, status, hint, initcount, logctx, failed,
                     dangling>>
  BY CallsReady DEF StatStart, StatStop, StatCall, Invalid
<1>2. /\ a \in Entries /\ a.do = "stop" /\ a.on = s
      /\ b \in Entries /\ b.do = "start" /\ b.on = s
  BY ItemEntry DEF Items
<1> HIDE DEF w, a, b
<1>3. /\ w \in Seq(Entries)
      /\ \A k \in 1..Len(w) : w[k].do \in {"stop", "start"} /\ w[k].on = s
  <2>1. CASE w = <<a>>
    BY <2>1, <1>2
  <2>2. CASE w = <<a, b>>
    <3>1. w \in Seq(Entries) /\ Len(w) = 2 /\ w[1] = a /\ w[2] = b
      BY <2>2, <1>2
    <3> QED BY <3>1, <1>2
  <2> QED BY <2>1, <2>2, <1>1
<1>4. \A x : ~Has(w, "stat", x) /\ ~Has(w, "group", x) /\ ~Has(w, "freelist", x)
  BY <1>3 DEF Has
<1>5. ASSUME NEW k \in 1..Len(w)
      PROVE  ItemOfTables(w, k, grp, stat) /\ ItemOfThreads(w, k, stat, thr)
  BY <1>1, <1>3 DEF ItemOfTables, ItemOfThreads
<1>6. Tables(w, ctx, grp, stat, status)
  <2>1. ASSUME NEW h \in Grps, grp[h] # None PROVE GroupKept(w, h, ctx, grp, stat)
    <3>1. PlainGroup(h, ctx, grp, stat)
      BY <2>1, <1>1, ReadyFacts DEF Plain
    <3>2. {x \in Stats : stat[x] # None /\ stat[x].grp = h /\ ~Has(w, "stat", x)}
            = {x \in Stats : stat[x] # None /\ stat[x].grp = h}
      BY <1>4
    <3> QED BY <3>1, <3>2 DEF PlainGroup, GroupKept
  <2>2. ASSUME NEW x \in Stats, stat[x] # None PROVE StatKept(w, x, ctx, grp, stat)
    BY <2>2, <1>1, ReadyFacts DEF Plain, PlainStat, StatKept
  <2>3. ASSUME NEW d \in Ctxs, ctx[d] # None PROVE ListsKept(w, d, ctx, grp, stat, status)
    <3>1. PlainLists(d, ctx, grp, stat, status)
      BY <2>3, <1>1, ReadyFacts DEF Plain
    <3>2. /\ {h \in Grps : grp[h] # None /\ grp[h].ctx = d /\ ~Has(w, "group", h)}
               = {h \in Grps : grp[h] # None /\ grp[h].ctx = d}
          /\ {x \in Stats : stat[x] # None /\ stat[x].ctx = d /\ ~Has(w, "stat", x)}
               = {x \in Stats : stat[x] # None /\ stat[x].ctx = d}
      BY <1>4
    <3> QED BY <3>1, <3>2 DEF PlainLists, ListsKept
  <2> QED BY <1>1, <1>5, <2>1, <2>2, <2>3, ReadyFacts DEF Tables, Plain
<1>7. Alike(ctx', ctx) /\ Same(grp', grp) /\ grp' \in [Grps -> GroupRecords \cup {None}]
  BY <1>1, ReadyFacts, AlikeIs, SameIs DEF TableTypes
<1>8. dangling' \in BOOLEAN /\ ~dangling'
  BY <1>1, ReadyFacts DEF BaseTypes
<1>9. \A k \in 1..Len(w) : w[k].do \notin {"objects", "context"} /\ w[k].on = s
  BY <1>3
<1>10. Tables(w, ctx', grp', stat, status)
  BY <1>1, <1>6
<1> QED BY <1>1, <1>3, <1>5, <1>7, <1>8, <1>9, <1>10, PendingKeeps DEF w

-------------------------------------------------------------------------------
(* The application thread does the first item of the list.                     *)

\* What a first item may do to the tables.
Onward(w, gr, gr2, st, st2, th, th2) ==
    /\ \A s \in Stats : st2[s] # None =>
          /\ st[s] # None /\ st2[s].ctx = st[s].ctx
          /\ st2[s].grp = st[s].grp \/ st2[s].grp = None
    /\ w[1].do = "detach" => st2[w[1].on].grp = None
    /\ w[1].do # "stat" => \A s \in Stats : st[s] # None => st2[s] # None
    /\ w[1].do \notin {"detach", "stat"} => st2 = st
    /\ w[1].do # "group" => \A g \in Grps : gr[g] # None => gr2[g] # None
    /\ w[1].do # "start" => \A s \in Stats : th[s].pc = "none" => th2[s].pc = "none"
    /\ w[1].do = "stop" => th2[w[1].on].pc = "none"

\* The items behind the first still agree with the tables after the first is done.
LEMMA RestItems ==
    ASSUME NEW v, NEW w, Rest(v, w), NEW gr, NEW gr2, NEW st, NEW st2, NEW th, NEW th2,
           Onward(w, gr, gr2, st, st2, th, th2),
           \A k \in 1..Len(w) : ItemOfTables(w, k, gr, st) /\ ItemOfThreads(w, k, st, th),
           NEW k \in 1..Len(v)
    PROVE  ItemOfTables(v, k, gr2, st2) /\ ItemOfThreads(v, k, st2, th2)
<1>1. /\ Len(w) \in Nat \ {0} /\ Len(v) \in Nat /\ Len(w) = Len(v) + 1
      /\ \A q \in 1..Len(v) : q + 1 \in 1..Len(w) /\ v[q] = w[q + 1]
      /\ 1 \in 1..Len(w)
  BY DEF Rest
<1>2. /\ ItemOfTables(w, k + 1, gr, st) /\ ItemOfThreads(w, k + 1, st, th)
      /\ ItemOfTables(w, 1, gr, st) /\ ItemOfThreads(w, 1, st, th)
      /\ v[k] = w[k + 1] /\ k + 1 \in 1..Len(w)
  BY <1>1
<1>3. /\ v[k].do \in {"stop", "detach", "stat", "start"} => v[k].on \in Stats
      /\ v[k].do \in {"freelist", "group", "insert", "remove"} => v[k].on \in Grps
  BY <1>2 DEF ItemOfTables
<1>4. ASSUME v[k].do \in {"insert", "remove"}
      PROVE  /\ v[k].obj \in Objs /\ k = Len(v) /\ gr2[v[k].on] # None
             /\ \A j \in 1..Len(v) : v[j].do # "group"
  <2>1. /\ w[k + 1].obj \in Objs /\ k + 1 = Len(w) /\ gr[w[k + 1].on] # None
        /\ \A j \in 1..Len(w) : w[j].do # "group"
    BY <1>2, <1>4 DEF ItemOfTables
  <2>2. w[1].do # "group"
    BY <2>1, <1>1
  <2>3. gr2[v[k].on] # None
    BY <2>1, <2>2, <1>2, <1>3, <1>4 DEF Onward
  <2> QED BY <2>1, <2>3, <1>1, <1>2
<1>5. ASSUME v[k].do \in {"group", "insert", "remove"},
             NEW s \in Stats, st2[s] # None, st2[s].grp = v[k].on
      PROVE  Prior(v, k, "detach", s)
  <2>1. st2[s].grp # None
    BY <1>3, <1>5, LibraryAssumption
  <2>2. st[s] # None /\ st[s].grp = w[k + 1].on
    BY <2>1, <1>2, <1>5 DEF Onward
  <2>3. Prior(w, k + 1, "detach", s)
    BY <2>2, <1>2, <1>5 DEF ItemOfTables
  <2>4. ~(w[1].do = "detach" /\ w[1].on = s)
    BY <2>1 DEF Onward
  <2> QED BY <2>3, <2>4, RestPrior
<1>6. ASSUME v[k].do = "detach"
      PROVE  /\ st2[v[k].on] # None
             /\ st2[v[k].on].grp # None => Later(v, k, "freelist", st2[v[k].on].grp)
             /\ \A j \in 1..Len(v) : v[j].do = "stat" => k < j
  <2>1. /\ st[w[k + 1].on] # None
        /\ st[w[k + 1].on].grp # None => Later(w, k + 1, "freelist", st[w[k + 1].on].grp)
        /\ \A j \in 1..Len(w) : w[j].do = "stat" => k + 1 < j
    BY <1>2, <1>6 DEF ItemOfTables
  <2>2. w[1].do # "stat"
    BY <2>1, <1>1
  <2>3. st2[v[k].on] # None
    BY <2>1, <2>2, <1>2, <1>3, <1>6 DEF Onward
  <2>4. st2[v[k].on].grp # None => st2[v[k].on].grp = st[w[k + 1].on].grp
    BY <2>3, <1>2, <1>3, <1>6 DEF Onward
  <2>5. st2[v[k].on].grp # None => Later(v, k, "freelist", st2[v[k].on].grp)
    BY <2>1, <2>4, RestPrior
  <2>6. ASSUME NEW j \in 1..Len(v), v[j].do = "stat" PROVE k < j
    <3>1. k + 1 < j + 1
      BY <2>1, <2>6, <1>1
    <3> QED BY <3>1
  <2> QED BY <2>3, <2>5, <2>6
<1>7. ItemOfTables(v, k, gr2, st2)
  BY <1>3, <1>4, <1>5, <1>6 DEF ItemOfTables
<1>8. ASSUME v[k].do \in {"detach", "stat"}
      PROVE  th2[v[k].on].pc = "none" \/ Prior(v, k, "stop", v[k].on)
  <2>1. th[w[k + 1].on].pc = "none" \/ Prior(w, k + 1, "stop", w[k + 1].on)
    BY <1>2, <1>8 DEF ItemOfThreads
  <2>2. w[1].do # "start"
    BY <1>1, <1>2, <1>8 DEF ItemOfThreads
  <2>3. CASE th[w[k + 1].on].pc = "none"
    BY <2>2, <2>3, <1>2, <1>3, <1>8 DEF Onward
  <2>4. CASE Prior(w, k + 1, "stop", w[k + 1].on)
    <3>1. Prior(v, k, "stop", w[k + 1].on) \/ (w[1].do = "stop" /\ w[1].on = w[k + 1].on)
      BY <2>4, RestPrior
    <3> QED BY <3>1, <1>2 DEF Onward
  <2> QED BY <2>1, <2>3, <2>4
<1>9. ASSUME v[k].do = "start"
      PROVE  /\ \A j \in 1..Len(v) : v[j].do \in {"stop", "start"}
             /\ st2[v[k].on] # None
             /\ st2[v[k].on].obj # 0 \/ st2[v[k].on].grp # None
  <2>1. /\ \A j \in 1..Len(w) : w[j].do \in {"stop", "start"}
        /\ st[w[k + 1].on] # None
        /\ st[w[k + 1].on].obj # 0 \/ st[w[k + 1].on].grp # None
    BY <1>2, <1>9 DEF ItemOfThreads
  <2>2. st2 = st
    BY <2>1, <1>1 DEF Onward
  <2> QED BY <2>1, <2>2, <1>1, <1>2
<1> QED BY <1>7, <1>8, <1>9 DEF ItemOfThreads

\* The contexts do so too.
LEMMA RestContexts ==
    ASSUME NEW v, NEW w, Rest(v, w), NEW cx, NEW hn, Contexts(w, cx, hn),
           w[1].do \notin {"objects", "context"}
    PROVE  Contexts(v, cx, hn)
<1>1. /\ Len(w) = Len(v) + 1
      /\ \A q \in 1..Len(v) : q + 1 \in 1..Len(w) /\ v[q] = w[q + 1]
      /\ Len(v) \in Nat
  BY DEF Rest
<1>2. \A x : /\ Has(w, "context", x) => Has(v, "context", x)
             /\ Has(w, "objects", x) => Has(v, "objects", x)
  BY RestHas
<1>3. ASSUME NEW k \in 1..Len(v) PROVE ItemOfContext(v, k, cx)
  <2>1. ItemOfContext(w, k + 1, cx) /\ v[k] = w[k + 1]
    BY <1>1 DEF Contexts
  <2> QED BY <2>1, <1>1 DEF ItemOfContext
<1> QED BY <1>2, <1>3 DEF Contexts, ContextKept, HintKept

\* What is not on the list any more was its first item.
LEMMA RestSame ==
    ASSUME NEW v, NEW w, Rest(v, w), NEW do, w[1].do # do
    PROVE  \A x : Has(v, do, x) <=> Has(w, do, x)
BY RestHas

\* An item that does nothing to a context.
LEMMA WorkKeeps ==
    ASSUME IInv, main # <<>>, main' = Tail(main),
           UNCHANGED <<prog, ctx, status, hint, initcount, logctx, failed, dangling>>,
           main[1].do \notin {"objects", "context"},
           ~dangling =>
              /\ TableTypes' /\ Onward(main, grp, grp', stat, stat', thr, thr')
              /\ \A g \in Grps : grp'[g] # None => GroupKept(main', g, ctx, grp', stat')
              /\ \A s \in Stats : stat'[s] # None => StatKept(main', s, ctx, grp', stat')
              /\ \A c \in Ctxs : ctx[c] # None => ListsKept(main', c, ctx, grp', stat', status)
              /\ \A s \in Stats : thr'[s].pc # "none" => ThreadKept(s, grp', stat', thr')
              /\ Values(grp', stat') /\ InOrder(grp'),
           \A s \in Stats : thr'[s].pc # "none" /\ ~dangling =>
              thr[s].pc # "none" \/ (main[1].do = "start" /\ main[1].on = s)
    PROVE  IInv'
<1> DEFINE v == main'
<1>1. Rest(v, main)
  BY RestOf DEF IInv, BaseTypes
<1>2. v \in Seq(Entries)
  BY <1>1 DEF Rest
<1>3. BaseTypes' /\ Counted'
  BY <1>2 DEF IInv, BaseTypes, Counted
<1> HIDE DEF v
<1>4. Contexts(v, ctx, hint)
  BY <1>1, RestContexts DEF IInv
<1>5. ASSUME ~dangling PROVE Sound' /\ (Careful => Whole(v, ctx, stat', thr'))
  <2>1. Sound
    BY <1>5 DEF IInv
  <2>2. \A k \in 1..Len(main) :
           ItemOfTables(main, k, grp, stat) /\ ItemOfThreads(main, k, stat, thr)
    BY <2>1 DEF Sound, Tables, Threads
  <2>3. ASSUME NEW k \in 1..Len(v)
        PROVE  ItemOfTables(v, k, grp', stat') /\ ItemOfThreads(v, k, stat', thr')
    <3> DEFINE gr2 == grp'
               st2 == stat'
               th2 == thr'
    <3>1. Onward(main, grp, gr2, stat, st2, thr, th2)
      BY <1>5
    <3> HIDE DEF gr2, st2, th2
    <3>2. ItemOfTables(v, k, gr2, st2) /\ ItemOfThreads(v, k, st2, th2)
      BY <3>1, <2>2, <1>1, RestItems
    <3> QED BY <3>2 DEF gr2, st2, th2
  <2>4. \A t \in Statuses : status[t] # None => ctx[status[t]] # None
    BY <2>1 DEF Sound, Tables
  <2>5. Tables(v, ctx, grp', stat', status)
    BY <2>3, <2>4, <1>5 DEF Tables, v
  <2>6. Threads(v, grp', stat', thr')
    BY <2>3, <1>5 DEF Threads
  <2>7. Sound'
    BY <2>5, <2>6, <1>5 DEF Sound, v
  <2>8. ASSUME Careful PROVE Whole(v, ctx, stat', thr')
    <3>1. Whole(main, ctx, stat, thr)
      BY <2>8 DEF IInv
    <3>2. ASSUME NEW s \in Stats, stat'[s] # None PROVE stat'[s].ctx = stat[s].ctx
      BY <3>2, <1>5 DEF Onward
    <3>3. ASSUME NEW s \in Stats, thr'[s].pc # "none"
          PROVE  ctx[stat'[s].ctx] # None /\ ctx[stat'[s].ctx].mapped /\ ctx[stat'[s].ctx].objs
      <4>1. stat'[s].ctx = stat[s].ctx
        BY <3>2, <3>3, <1>5 DEF ThreadKept
      <4>2. CASE thr[s].pc # "none"
        BY <4>1, <4>2, <3>1 DEF Whole
      <4>3. CASE main[1].do = "start" /\ main[1].on = s
        <5>1. 1 \in 1..Len(main)
          BY <1>1 DEF Rest
        <5> QED BY <5>1, <4>1, <4>3, <3>1 DEF Whole
      <4> QED BY <4>2, <4>3, <3>3, <1>5
    <3>4. ASSUME NEW k \in 1..Len(v), v[k].do = "start"
          PROVE  /\ ctx[stat'[v[k].on].ctx] # None
                 /\ ctx[stat'[v[k].on].ctx].mapped /\ ctx[stat'[v[k].on].ctx].objs
      <4>1. k + 1 \in 1..Len(main) /\ v[k] = main[k + 1]
        BY <1>1 DEF Rest
      <4>2. v[k].on \in Stats /\ stat'[v[k].on] # None
        BY <3>4, <2>3 DEF ItemOfTables, ItemOfThreads
      <4>3. stat'[v[k].on].ctx = stat[main[k + 1].on].ctx
        BY <4>1, <4>2, <3>2
      <4> QED BY <4>1, <4>3, <3>1, <3>4 DEF Whole
    <3> QED BY <3>3, <3>4 DEF Whole
  <2> QED BY <2>7, <2>8
<1>6. Careful => ~dangling
  BY DEF IInv
<1> QED BY <1>3, <1>4, <1>5, <1>6 DEF IInv, v

\* What the application thread finds when it takes up the first item.
LEMMA WorkFacts ==
    ASSUME IInv, ~dangling, main # <<>>
    PROVE  /\ Sound /\ TableTypes /\ Values(grp, stat) /\ InOrder(grp)
           /\ Rest(Tail(main), main) /\ 1 \in 1..Len(main) /\ Head(main) = main[1]
           /\ ItemOfTables(main, 1, grp, stat) /\ ItemOfThreads(main, 1, stat, thr)
           /\ \A do, x : ~Prior(main, 1, do, x)
           /\ \A g \in Grps : grp[g] # None => GroupKept(main, g, ctx, grp, stat)
           /\ \A s \in Stats : stat[s] # None => StatKept(main, s, ctx, grp, stat)
           /\ \A c \in Ctxs : ctx[c] # None => ListsKept(main, c, ctx, grp, stat, status)
           /\ \A s \in Stats : thr[s].pc # "none" => ThreadKept(s, grp, stat, thr)
<1>1. Sound /\ main \in Seq(Entries)
  BY DEF IInv, BaseTypes
<1>2. Rest(Tail(main), main)
  BY <1>1, RestOf
<1>3. 1 \in 1..Len(main) /\ Head(main) = main[1] /\ Len(main) \in Nat
  BY <1>2 DEF Rest
<1>4. \A do, x : ~Prior(main, 1, do, x)
  BY <1>3, NothingPrior
<1> QED BY <1>1, <1>2, <1>3, <1>4 DEF Sound, Tables, Threads

\* The tables agree with the rest of the list.
LEMMA RestTables ==
    ASSUME NEW v, NEW w, Rest(v, w), w[1].do \notin {"group", "freelist", "stat"},
           NEW cx, NEW gr, NEW st, NEW su
    PROVE  /\ \A g : GroupKept(w, g, cx, gr, st) => GroupKept(v, g, cx, gr, st)
           /\ \A s : StatKept(w, s, cx, gr, st) => StatKept(v, s, cx, gr, st)
           /\ \A c : ListsKept(w, c, cx, gr, st, su) => ListsKept(v, c, cx, gr, st, su)
<1>1. \A x : /\ Has(v, "group", x) <=> Has(w, "group", x)
             /\ Has(v, "freelist", x) <=> Has(w, "freelist", x)
             /\ Has(v, "stat", x) <=> Has(w, "stat", x)
  BY RestSame
<1>2. \A c :
        /\ {g \in Grps : gr[g] # None /\ gr[g].ctx = c /\ ~Has(v, "group", g)}
              = {g \in Grps : gr[g] # None /\ gr[g].ctx = c /\ ~Has(w, "group", g)}
        /\ {s \in Stats : st[s] # None /\ st[s].ctx = c /\ ~Has(v, "stat", s)}
              = {s \in Stats : st[s] # None /\ st[s].ctx = c /\ ~Has(w, "stat", s)}
        /\ {s \in Stats : st[s] # None /\ st[s].grp = c /\ ~Has(v, "stat", s)}
              = {s \in Stats : st[s] # None /\ st[s].grp = c /\ ~Has(w, "stat", s)}
  BY <1>1
<1>3. \A g : GroupKept(w, g, cx, gr, st) => GroupKept(v, g, cx, gr, st)
  BY <1>1, <1>2, Zenon DEF GroupKept
<1>4. \A s : StatKept(w, s, cx, gr, st) => StatKept(v, s, cx, gr, st)
  BY <1>1, Zenon DEF StatKept
<1>5. \A c : ListsKept(w, c, cx, gr, st, su) => ListsKept(v, c, cx, gr, st, su)
  BY <1>2, Zenon DEF ListsKept
<1> QED BY <1>3, <1>4, <1>5

\* The item of DoStop keeps the invariant.
LEMMA DoStopKeeps ==
    ASSUME IInv, Work, DoStop
    PROVE  IInv'
<1>1. /\ main # <<>> /\ main' = Tail(main)
      /\ UNCHANGED <<prog, ctx, grp, stat, status, hint, initcount, logctx, failed, dangling>>
      /\ Head(main).do = "stop"
      /\ thr[Head(main).on].pc \in {"none", "done"}
      /\ thr' = [thr EXCEPT ![Head(main).on] = NoThread]
      /\ die' = [die EXCEPT ![Head(main).on] = FALSE]
  BY DEF Work, DoStop
<1>2. main[1].do = "stop" /\ Head(main) = main[1]
  BY <1>1, RestOf DEF IInv, BaseTypes, Rest
<1> DEFINE x == main[1].on
<1>3. ASSUME ~dangling
      PROVE  /\ x \in Stats /\ thr'[x] = NoThread
             /\ \A s \in Stats : s # x => thr'[s] = thr[s]
             /\ TableTypes'
  <2>1. x \in Stats
    BY <1>1, <1>2, <1>3, WorkFacts DEF ItemOfTables
  <2>2. NoThread \in [pc : {"none", "init", "test", "read", "use", "update", "done"},
                      i : Nat, reading : Seq(Objs \X Int)]
    BY DEF NoThread
  <2>3. TableTypes
    BY <1>1, <1>3, WorkFacts
  <2> HIDE DEF x, NoThread
  <2>4. thr' = [thr EXCEPT ![x] = NoThread] /\ die' = [die EXCEPT ![x] = FALSE]
    BY <1>1, <1>2 DEF x
  <2> QED BY <2>1, <2>2, <2>3, <2>4, <1>1 DEF TableTypes
<1> HIDE DEF x
<1>4. NoThread.pc = "none"
  BY DEF NoThread
<1>5. ~dangling =>
        /\ Onward(main, grp, grp', stat, stat', thr, thr')
        /\ \A s \in Stats : thr'[s].pc # "none" => thr[s].pc # "none" /\ thr'[s] = thr[s]
  BY <1>1, <1>2, <1>3, <1>4 DEF Onward, x
<1>6. ASSUME ~dangling
      PROVE  /\ \A g \in Grps : grp[g] # None => GroupKept(main', g, ctx, grp, stat)
             /\ \A s \in Stats : stat[s] # None => StatKept(main', s, ctx, grp, stat)
             /\ \A c \in Ctxs : ctx[c] # None => ListsKept(main', c, ctx, grp, stat, status)
  BY <1>1, <1>2, <1>6, WorkFacts, RestTables
<1>7. ASSUME ~dangling, NEW s \in Stats, thr'[s].pc # "none"
      PROVE  ThreadKept(s, grp', stat', thr')
  <2>1. ThreadKept(s, grp, stat, thr) /\ thr'[s] = thr[s] /\ grp' = grp /\ stat' = stat
    BY <1>1, <1>5, <1>7, WorkFacts
  <2> QED BY <2>1, ThreadSame
<1>8. ~dangling => Values(grp', stat') /\ InOrder(grp')
  BY <1>1, WorkFacts
<1> QED BY <1>1, <1>2, <1>3, <1>5, <1>6, <1>7, <1>8, WorkKeeps

\* The item of DoStart keeps the invariant.
LEMMA DoStartKeeps ==
    ASSUME IInv, Work, DoStart
    PROVE  IInv'
<1> DEFINE x == main[1].on
           y == [NoThread EXCEPT !.pc = "init"]
<1>1. /\ main # <<>> /\ main' = Tail(main)
      /\ UNCHANGED <<prog, ctx, grp, stat, die, status, hint, initcount, logctx, failed,
                     dangling>>
      /\ Head(main).do = "start"
      /\ thr' = [thr EXCEPT ![Head(main).on] = y]
  BY DEF Work, DoStart
<1>2. main[1].do = "start" /\ Head(main) = main[1]
  BY <1>1, RestOf DEF IInv, BaseTypes, Rest
<1>3. /\ y.pc = "init"
      /\ y \in [pc : {"none", "init", "test", "read", "use", "update", "done"},
                i : Nat, reading : Seq(Objs \X Int)]
  <2>1. y = [pc |-> "init", i |-> 0, reading |-> <<>>]
    BY DEF NoThread
  <2> HIDE DEF y
  <2> QED BY <2>1
<1> HIDE DEF x, y
<1>4. ASSUME ~dangling
      PROVE  /\ x \in Stats /\ thr'[x] = y
             /\ \A s \in Stats : s # x => thr'[s] = thr[s]
             /\ TableTypes'
  <2>1. x \in Stats
    BY <1>1, <1>2, <1>4, WorkFacts DEF ItemOfTables, x
  <2>2. TableTypes
    BY <1>1, <1>4, WorkFacts
  <2>3. thr' = [thr EXCEPT ![x] = y]
    BY <1>1, <1>2 DEF x
  <2> QED BY <2>1, <2>2, <2>3, <1>1, <1>3 DEF TableTypes
<1>5. ~dangling => Onward(main, grp, grp', stat, stat', thr, thr')
  BY <1>1, <1>2, <1>4 DEF Onward
<1>6. ASSUME ~dangling
      PROVE  /\ \A g \in Grps : grp[g] # None => GroupKept(main', g, ctx, grp, stat)
             /\ \A s \in Stats : stat[s] # None => StatKept(main', s, ctx, grp, stat)
             /\ \A c \in Ctxs : ctx[c] # None => ListsKept(main', c, ctx, grp, stat, status)
  BY <1>1, <1>2, <1>6, WorkFacts, RestTables
<1>7. ASSUME ~dangling, NEW s \in Stats, thr'[s].pc # "none"
      PROVE  ThreadKept(s, grp', stat', thr')
  <2>1. CASE s = x
    <3>1. stat[s] # None /\ (stat[s].obj # 0 \/ stat[s].grp # None)
      BY <2>1, <1>1, <1>2, <1>7, WorkFacts DEF ItemOfThreads, x
    <3>2. thr'[s].pc = "init"
      BY <2>1, <1>3, <1>4, <1>7
    <3> QED BY <3>1, <3>2, <1>1 DEF ThreadKept
  <2>2. CASE s # x
    <3>1. ThreadKept(s, grp, stat, thr) /\ thr'[s] = thr[s] /\ grp' = grp /\ stat' = stat
      BY <2>2, <1>1, <1>4, <1>7, WorkFacts
    <3> QED BY <3>1, ThreadSame
  <2> QED BY <2>1, <2>2
<1>8. ~dangling => Values(grp', stat') /\ InOrder(grp')
  BY <1>1, WorkFacts
<1>9. \A s \in Stats : thr'[s].pc # "none" /\ ~dangling =>
         thr[s].pc # "none" \/ (main[1].do = "start" /\ main[1].on = s)
  BY <1>2, <1>4 DEF x
<1> QED BY <1>1, <1>2, <1>4, <1>5, <1>6, <1>7, <1>8, <1>9, WorkKeeps

\* Raising the flag die keeps the invariant.
LEMMA RaiseDieKeeps ==
    ASSUME IInv, RaiseDie
    PROVE  IInv'
<1>1. /\ main # <<>> /\ Head(main).do = "stop"
      /\ die' = [die EXCEPT ![Head(main).on] = TRUE]
      /\ UNCHANGED <<prog, ctx, grp, stat, thr, status, hint, initcount, logctx, main, failed,
                     dangling>>
  BY DEF RaiseDie
<1>2. BaseTypes' /\ Contexts(main', ctx', hint') /\ Counted'
  BY <1>1 DEF IInv, BaseTypes, Counted
<1>3. ASSUME ~dangling PROVE TableTypes'
  BY <1>1, <1>3, WorkFacts DEF TableTypes
<1>4. ~dangling' => Sound'
  BY <1>1, <1>3 DEF IInv, Sound
<1>5. Careful => ~dangling' /\ Whole(main', ctx', stat', thr')
  BY <1>1 DEF IInv
<1> QED BY <1>2, <1>4, <1>5 DEF IInv

\* The item of DoDetach keeps the invariant.
LEMMA DoDetachKeeps ==
    ASSUME IInv, Work, DoDetach
    PROVE  IInv'
<1> DEFINE x == main[1].on
           q == [stat[x] EXCEPT !.obj = 0, !.grp = None]
           v == main'
<1>1. /\ main # <<>> /\ v = Tail(main)
      /\ UNCHANGED <<prog, ctx, grp, thr, die, status, hint, initcount, logctx, failed,
                     dangling>>
      /\ Head(main).do = "detach"
      /\ stat' = [stat EXCEPT ![Head(main).on].obj = 0, ![Head(main).on].grp = None]
  BY DEF Work, DoDetach
<1>2. main[1].do = "detach" /\ Head(main) = main[1]
  BY <1>1, RestOf DEF IInv, BaseTypes, Rest
<1>3. stat' = [stat EXCEPT ![x] = q]
  BY <1>1, <1>2
<1>4. x = main[1].on /\ q = [stat[x] EXCEPT !.obj = 0, !.grp = None]
  OBVIOUS
<1> HIDE DEF x, q, v
<1>5. ASSUME ~dangling
      PROVE  /\ x \in Stats /\ stat[x] # None /\ thr[x].pc = "none"
             /\ q \in StatRecords /\ q.ctx = stat[x].ctx /\ q.obj = 0 /\ q.grp = None
             /\ q.values = stat[x].values /\ q.seen = stat[x].seen /\ q.ready = stat[x].ready
             /\ stat'[x] = q /\ q # None
             /\ \A s \in Stats : s # x => stat'[s] = stat[s]
             /\ TableTypes'
  <2>1. x \in Stats /\ stat[x] # None /\ thr[x].pc = "none"
    BY <1>1, <1>2, <1>4, <1>5, WorkFacts DEF ItemOfTables, ItemOfThreads
  <2>2. stat[x] \in StatRecords /\ TableTypes
    BY <2>1, <1>1, <1>5, WorkFacts, StatHolds
  <2>3. /\ q \in StatRecords /\ q.ctx = stat[x].ctx /\ q.obj = 0 /\ q.grp = None
        /\ q.values = stat[x].values /\ q.seen = stat[x].seen /\ q.ready = stat[x].ready
    BY <2>2, <1>4 DEF StatRecords
  <2>4. q # None
    BY <2>3, LibraryAssumption
  <2>5. /\ stat'[x] = q /\ \A s \in Stats : s # x => stat'[s] = stat[s]
        /\ stat' \in [Stats -> StatRecords \cup {None}]
    BY <2>1, <2>2, <2>3, <1>3 DEF TableTypes
  <2>6. TableTypes'
    BY <2>2, <2>5, <1>1 DEF TableTypes
  <2> QED BY <2>1, <2>3, <2>4, <2>5, <2>6
<1>6. ~dangling => Onward(main, grp, grp', stat, stat', thr, thr')
  BY <1>1, <1>2, <1>4, <1>5 DEF Onward
<1>7. ASSUME ~dangling PROVE Rest(v, main)
  BY <1>1, <1>7, WorkFacts
<1>8. ASSUME ~dangling, NEW g \in Grps, grp[g] # None PROVE GroupKept(v, g, ctx, grp', stat')
  <2>1. GroupKept(main, g, ctx, grp, stat) /\ GroupKept(v, g, ctx, grp, stat)
    BY <1>1, <1>2, <1>7, <1>8, WorkFacts, RestTables
  <2>2. CASE stat[x].grp = g
    <3>1. Later(main, 1, "freelist", g)
      BY <2>2, <1>1, <1>2, <1>4, <1>8, WorkFacts, LibraryAssumption DEF ItemOfTables
    <3>2. Has(v, "freelist", g)
      BY <3>1, <1>7, <1>8, RestHas
    <3> QED BY <2>1, <3>2, <1>1 DEF GroupKept
  <2>3. CASE stat[x].grp # g
    <3>1. {s \in Stats : stat'[s] # None /\ stat'[s].grp = g /\ ~Has(v, "stat", s)}
            = {s \in Stats : stat[s] # None /\ stat[s].grp = g /\ ~Has(v, "stat", s)}
      BY <2>3, <1>5, <1>8, LibraryAssumption
    <3> QED BY <2>1, <3>1, <1>1 DEF GroupKept
  <2> QED BY <2>2, <2>3
<1>9. ASSUME ~dangling, NEW s \in Stats, stat'[s] # None PROVE StatKept(v, s, ctx, grp', stat')
  <2>1. stat[s] # None /\ StatKept(v, s, ctx, grp, stat)
    BY <1>1, <1>2, <1>5, <1>7, <1>9, WorkFacts, RestTables
  <2>2. s = x => stat'[s].ctx = stat[s].ctx /\ stat'[s].grp = None
    BY <1>5, <1>9
  <2>3. s # x => stat'[s] = stat[s]
    BY <1>5, <1>9
  <2> QED BY <2>1, <2>2, <2>3, <1>1 DEF StatKept
<1>10. ASSUME ~dangling, NEW c \in Ctxs, ctx[c] # None
       PROVE  ListsKept(v, c, ctx, grp', stat', status)
  <2>1. ListsKept(v, c, ctx, grp, stat, status)
    BY <1>1, <1>2, <1>7, <1>10, WorkFacts, RestTables
  <2>2. {s \in Stats : stat'[s] # None /\ stat'[s].ctx = c /\ ~Has(v, "stat", s)}
          = {s \in Stats : stat[s] # None /\ stat[s].ctx = c /\ ~Has(v, "stat", s)}
    BY <1>5, <1>10
  <2>3. grp' = grp
    BY <1>1
  <2> QED BY <2>1, <2>2, <2>3 DEF ListsKept
<1>11. ASSUME ~dangling, NEW s \in Stats, thr'[s].pc # "none"
       PROVE  ThreadKept(s, grp', stat', thr')
  <2>1. /\ ThreadKept(s, grp, stat, thr) /\ thr'[s] = thr[s] /\ grp' = grp
        /\ stat'[s] = stat[s]
    BY <1>1, <1>5, <1>11, WorkFacts
  <2> QED BY <2>1, ThreadSame
<1>12. ASSUME ~dangling PROVE Values(grp', stat') /\ InOrder(grp')
  <2>1. ASSUME NEW s \in Stats, stat'[s] # None PROVE ValuesKept(s, grp', stat')
    <3>1. stat[s] # None /\ ValuesKept(s, grp, stat) /\ grp' = grp
      BY <2>1, <1>1, <1>5, <1>12, WorkFacts DEF Values
    <3>2. CASE s # x
      BY <3>1, <3>2, <1>5, <1>12, ValuesSame
    <3>3. CASE s = x
      <4>1. /\ stat'[s].values = stat[s].values /\ stat'[s].seen = stat[s].seen
            /\ stat'[s].ready = stat[s].ready /\ stat'[s].grp = None
        BY <3>3, <1>5, <1>12
      <4> QED BY <3>1, <4>1, Zenon DEF ValuesKept
    <3> QED BY <3>2, <3>3
  <2>2. InOrder(grp')
    BY <1>1, <1>12, WorkFacts
  <2> QED BY <2>1, <2>2 DEF Values
<1> QED BY <1>1, <1>2, <1>5, <1>6, <1>8, <1>9, <1>10, <1>11, <1>12, WorkKeeps DEF v

\* The item of DoStat keeps the invariant.
LEMMA DoStatKeeps ==
    ASSUME IInv, Work, DoStat
    PROVE  IInv'
<1> DEFINE x == main[1].on
           v == main'
<1>1. /\ main # <<>> /\ v = Tail(main)
      /\ UNCHANGED <<prog, ctx, grp, thr, die, status, hint, initcount, logctx, failed,
                     dangling>>
      /\ Head(main).do = "stat"
      /\ stat' = [stat EXCEPT ![Head(main).on] = None]
  BY DEF Work, DoStat
<1>2. main[1].do = "stat" /\ Head(main) = main[1]
  BY <1>1, RestOf DEF IInv, BaseTypes, Rest
<1>3. stat' = [stat EXCEPT ![x] = None] /\ x = main[1].on
  BY <1>1, <1>2
<1> HIDE DEF x, v
<1>5. ASSUME ~dangling
      PROVE  /\ x \in Stats /\ thr[x].pc = "none" /\ stat'[x] = None
             /\ \A s \in Stats : s # x => stat'[s] = stat[s]
             /\ TableTypes' /\ Rest(v, main)
  <2>1. x \in Stats /\ thr[x].pc = "none" /\ TableTypes
    BY <1>1, <1>2, <1>3, <1>5, WorkFacts DEF ItemOfTables, ItemOfThreads
  <2>2. Rest(v, main)
    BY <1>1, <1>5, WorkFacts
  <2> QED BY <2>1, <2>2, <1>1, <1>3 DEF TableTypes
<1>6. ~dangling => Onward(main, grp, grp', stat, stat', thr, thr')
  BY <1>1, <1>2, <1>3, <1>5 DEF Onward
<1>7. ASSUME ~dangling
      PROVE  /\ \A y : Has(v, "group", y) <=> Has(main, "group", y)
             /\ \A y : Has(v, "freelist", y) <=> Has(main, "freelist", y)
             /\ \A s \in Stats : stat'[s] # None /\ ~Has(v, "stat", s)
                                   <=> stat[s] # None /\ ~Has(main, "stat", s)
             /\ \A s \in Stats : stat'[s] # None => stat'[s] = stat[s]
             /\ \A s \in Stats : stat'[s] # None => (Has(v, "stat", s) <=> Has(main, "stat", s))
  <2>1. /\ \A y : Has(v, "group", y) <=> Has(main, "group", y)
        /\ \A y : Has(v, "freelist", y) <=> Has(main, "freelist", y)
    BY <1>2, <1>5, <1>7, RestSame
  <2>2. \A s : Has(main, "stat", s) <=> Has(v, "stat", s) \/ s = x
    <3>1. Has(main, "stat", x)
      BY <1>1, <1>2, <1>3, <1>7, WorkFacts DEF Has
    <3> QED BY <3>1, <1>2, <1>3, <1>5, <1>7, RestHas
  <2> QED BY <2>1, <2>2, <1>5, <1>7
<1>8. ASSUME ~dangling, NEW g \in Grps, grp[g] # None PROVE GroupKept(v, g, ctx, grp', stat')
  <2>1. GroupKept(main, g, ctx, grp, stat)
    BY <1>1, <1>8, WorkFacts
  <2>2. {s \in Stats : stat'[s] # None /\ stat'[s].grp = g /\ ~Has(v, "stat", s)}
          = {s \in Stats : stat[s] # None /\ stat[s].grp = g /\ ~Has(main, "stat", s)}
    BY <1>7, <1>8
  <2> QED BY <2>1, <2>2, <1>1, <1>7, <1>8 DEF GroupKept
<1>9. ASSUME ~dangling, NEW s \in Stats, stat'[s] # None PROVE StatKept(v, s, ctx, grp', stat')
  <2>1. stat[s] # None /\ StatKept(main, s, ctx, grp, stat) /\ stat'[s] = stat[s] /\ grp' = grp
    BY <1>1, <1>5, <1>9, WorkFacts
  <2>2. Has(v, "stat", s) <=> Has(main, "stat", s)
    BY <1>7, <1>9
  <2> QED BY <2>1, <2>2 DEF StatKept
<1>10. ASSUME ~dangling, NEW c \in Ctxs, ctx[c] # None
       PROVE  ListsKept(v, c, ctx, grp', stat', status)
  <2>1. ListsKept(main, c, ctx, grp, stat, status)
    BY <1>1, <1>10, WorkFacts
  <2>2. {s \in Stats : stat'[s] # None /\ stat'[s].ctx = c /\ ~Has(v, "stat", s)}
          = {s \in Stats : stat[s] # None /\ stat[s].ctx = c /\ ~Has(main, "stat", s)}
    BY <1>7, <1>10
  <2>3. {h \in Grps : grp'[h] # None /\ grp'[h].ctx = c /\ ~Has(v, "group", h)}
          = {h \in Grps : grp[h] # None /\ grp[h].ctx = c /\ ~Has(main, "group", h)}
    BY <1>1, <1>7, <1>10
  <2> QED BY <2>1, <2>2, <2>3 DEF ListsKept
<1>11. ASSUME ~dangling, NEW s \in Stats, thr'[s].pc # "none"
       PROVE  ThreadKept(s, grp', stat', thr')
  <2>1. /\ ThreadKept(s, grp, stat, thr) /\ thr'[s] = thr[s] /\ grp' = grp
        /\ stat'[s] = stat[s]
    BY <1>1, <1>5, <1>11, WorkFacts
  <2> QED BY <2>1, ThreadSame
<1>12. ASSUME ~dangling PROVE Values(grp', stat') /\ InOrder(grp')
  <2>1. ASSUME NEW s \in Stats, stat'[s] # None PROVE ValuesKept(s, grp', stat')
    <3>1. ValuesKept(s, grp, stat) /\ grp' = grp /\ stat'[s] = stat[s]
      BY <2>1, <1>1, <1>5, <1>12, WorkFacts DEF Values
    <3> QED BY <3>1, ValuesSame
  <2>2. InOrder(grp')
    BY <1>1, <1>12, WorkFacts
  <2> QED BY <2>1, <2>2 DEF Values
<1> QED BY <1>1, <1>2, <1>5, <1>6, <1>8, <1>9, <1>10, <1>11, <1>12, WorkKeeps DEF v

\* The item of DoGroup keeps the invariant.
LEMMA DoGroupKeeps ==
    ASSUME IInv, Work, DoGroup
    PROVE  IInv'
<1> DEFINE x == main[1].on
           v == main'
<1>1. /\ main # <<>> /\ v = Tail(main)
      /\ UNCHANGED <<prog, ctx, stat, thr, die, status, hint, initcount, logctx, failed,
                     dangling>>
      /\ Head(main).do = "group"
      /\ grp' = [grp EXCEPT ![Head(main).on] = None]
  BY DEF Work, DoGroup
<1>2. main[1].do = "group" /\ Head(main) = main[1]
  BY <1>1, RestOf DEF IInv, BaseTypes, Rest
<1>3. grp' = [grp EXCEPT ![x] = None] /\ x = main[1].on
  BY <1>1, <1>2
<1> HIDE DEF x, v
<1>5. ASSUME ~dangling
      PROVE  /\ x \in Grps /\ grp'[x] = None
             /\ \A s \in Stats : stat[s] # None => stat[s].grp # x
             /\ \A h \in Grps : h # x => grp'[h] = grp[h]
             /\ TableTypes' /\ Rest(v, main)
  <2>1. /\ x \in Grps /\ TableTypes
        /\ \A s \in Stats : stat[s] # None => stat[s].grp # x
    BY <1>1, <1>2, <1>3, <1>5, WorkFacts DEF ItemOfTables
  <2>2. Rest(v, main)
    BY <1>1, <1>5, WorkFacts
  <2> QED BY <2>1, <2>2, <1>1, <1>3 DEF TableTypes
<1>6. ~dangling => Onward(main, grp, grp', stat, stat', thr, thr')
  BY <1>1, <1>2, <1>3, <1>5 DEF Onward
<1>7. ASSUME ~dangling
      PROVE  /\ \A y : Has(v, "stat", y) <=> Has(main, "stat", y)
             /\ \A y : Has(v, "freelist", y) <=> Has(main, "freelist", y)
             /\ \A h \in Grps : grp'[h] # None /\ ~Has(v, "group", h)
                                  <=> grp[h] # None /\ ~Has(main, "group", h)
             /\ \A h \in Grps : grp'[h] # None => (Has(v, "group", h) <=> Has(main, "group", h))
  <2>1. /\ \A y : Has(v, "stat", y) <=> Has(main, "stat", y)
        /\ \A y : Has(v, "freelist", y) <=> Has(main, "freelist", y)
    BY <1>2, <1>5, <1>7, RestSame
  <2>2. \A h : Has(main, "group", h) <=> Has(v, "group", h) \/ h = x
    <3>1. Has(main, "group", x)
      BY <1>1, <1>2, <1>3, <1>7, WorkFacts DEF Has
    <3> QED BY <3>1, <1>2, <1>3, <1>5, <1>7, RestHas
  <2> QED BY <2>1, <2>2, <1>5, <1>7
<1>8. ASSUME ~dangling, NEW g \in Grps, grp'[g] # None PROVE GroupKept(v, g, ctx, grp', stat)
  <2>1. grp'[g] = grp[g] /\ GroupKept(main, g, ctx, grp, stat)
    BY <1>1, <1>5, <1>8, WorkFacts
  <2>2. {s \in Stats : stat[s] # None /\ stat[s].grp = g /\ ~Has(v, "stat", s)}
          = {s \in Stats : stat[s] # None /\ stat[s].grp = g /\ ~Has(main, "stat", s)}
    BY <1>7, <1>8
  <2>3. Has(v, "group", g) <=> Has(main, "group", g)
    BY <1>7, <1>8
  <2> QED BY <2>1, <2>2, <2>3, <1>7, <1>8 DEF GroupKept
<1>9. ASSUME ~dangling, NEW s \in Stats, stat[s] # None PROVE StatKept(v, s, ctx, grp', stat)
  <2>1. StatKept(main, s, ctx, grp, stat) /\ stat[s].grp \in Grps \cup {None} /\ stat[s].grp # x
    BY <1>1, <1>5, <1>9, WorkFacts, StatHolds
  <2> QED BY <2>1, <1>5, <1>7, <1>9 DEF StatKept
<1>10. ASSUME ~dangling, NEW c \in Ctxs, ctx[c] # None
       PROVE  ListsKept(v, c, ctx, grp', stat, status)
  <2>1. ListsKept(main, c, ctx, grp, stat, status)
    BY <1>1, <1>10, WorkFacts
  <2>2. {s \in Stats : stat[s] # None /\ stat[s].ctx = c /\ ~Has(v, "stat", s)}
          = {s \in Stats : stat[s] # None /\ stat[s].ctx = c /\ ~Has(main, "stat", s)}
    BY <1>7, <1>10
  <2>3. {h \in Grps : grp'[h] # None /\ grp'[h].ctx = c /\ ~Has(v, "group", h)}
          = {h \in Grps : grp[h] # None /\ grp[h].ctx = c /\ ~Has(main, "group", h)}
    BY <1>5, <1>7, <1>10
  <2> QED BY <2>1, <2>2, <2>3 DEF ListsKept
<1>11. ASSUME ~dangling, NEW s \in Stats, stat[s] # None, stat[s].grp # None
       PROVE  grp'[stat[s].grp].objs = grp[stat[s].grp].objs
  BY <1>1, <1>5, <1>11, WorkFacts, StatHolds
<1>12. ASSUME ~dangling, NEW s \in Stats, thr'[s].pc # "none"
       PROVE  ThreadKept(s, grp', stat', thr')
  <2>1. ThreadKept(s, grp, stat, thr) /\ thr'[s] = thr[s] /\ stat'[s] = stat[s]
    BY <1>1, <1>12, WorkFacts
  <2>2. stat[s] # None
    BY <2>1 DEF ThreadKept
  <2> QED BY <2>1, <2>2, <1>11, <1>12, ThreadSame
<1>13. ASSUME ~dangling PROVE Values(grp', stat') /\ InOrder(grp')
  <2>1. ASSUME NEW s \in Stats, stat[s] # None PROVE ValuesKept(s, grp', stat')
    <3>1. ValuesKept(s, grp, stat) /\ stat'[s] = stat[s]
      BY <2>1, <1>1, <1>13, WorkFacts DEF Values
    <3> QED BY <3>1, <2>1, <1>11, <1>13, ValuesSame
  <2>2. InOrder(grp')
    BY <1>1, <1>5, <1>13, WorkFacts DEF InOrder
  <2> QED BY <2>1, <2>2, <1>1 DEF Values
<1> QED BY <1>1, <1>2, <1>5, <1>6, <1>8, <1>9, <1>10, <1>12, <1>13, WorkKeeps DEF v

\* Two tables of groups that differ in the objects of g, or in its list being
\* freed.
Like(gr2, gr, g) ==
    /\ gr2 \in [Grps -> GroupRecords \cup {None}]
    /\ \A h \in Grps : h # g => gr2[h] = gr[h]
    /\ gr2[g] # None <=> gr[g] # None
    /\ gr[g] # None => /\ gr2[g].ctx = gr[g].ctx /\ gr2[g].stats = gr[g].stats
                       /\ gr[g].freed => gr2[g].freed

\* The item of DoFreeList keeps the invariant.
LEMMA DoFreeListKeeps ==
    ASSUME IInv, Work, DoFreeList
    PROVE  IInv'
<1> DEFINE x == main[1].on
           v == main'
           q == IF grp[x] = None THEN None ELSE [grp[x] EXCEPT !.freed = TRUE]
<1>1. /\ main # <<>> /\ v = Tail(main)
      /\ UNCHANGED <<prog, ctx, stat, thr, die, status, hint, initcount, logctx, failed,
                     dangling>>
      /\ Head(main).do = "freelist"
      /\ grp' = [grp EXCEPT ![Head(main).on] =
                    IF @ = None THEN None ELSE [@ EXCEPT !.freed = TRUE]]
  BY DEF Work, DoFreeList
<1>2. main[1].do = "freelist" /\ Head(main) = main[1]
  BY <1>1, RestOf DEF IInv, BaseTypes, Rest
<1>3. grp' = [grp EXCEPT ![x] = q] /\ x = main[1].on
  BY <1>1, <1>2
<1>4. /\ grp[x] = None => q = None
      /\ grp[x] \in GroupRecords =>
            /\ q \in GroupRecords /\ q.ctx = grp[x].ctx /\ q.stats = grp[x].stats
            /\ q.objs = grp[x].objs /\ q.freed
  <2>1. ASSUME grp[x] \in GroupRecords
        PROVE  /\ q \in GroupRecords /\ q.ctx = grp[x].ctx /\ q.stats = grp[x].stats
               /\ q.objs = grp[x].objs /\ q.freed
    <3>1. q = [grp[x] EXCEPT !.freed = TRUE]
      BY <2>1, LibraryAssumption
    <3> HIDE DEF q
    <3> QED BY <2>1, <3>1 DEF GroupRecords
  <2> QED BY <2>1
<1> HIDE DEF x, v, q
<1>5. ASSUME ~dangling
      PROVE  /\ x \in Grps /\ Like(grp', grp, x) /\ TableTypes' /\ Rest(v, main)
             /\ grp[x] # None => grp'[x].objs = grp[x].objs /\ grp'[x].freed
  <2>1. x \in Grps /\ TableTypes
    BY <1>1, <1>2, <1>3, <1>5, WorkFacts DEF ItemOfTables
  <2>2. grp[x] # None => grp[x] \in GroupRecords
    BY <2>1 DEF TableTypes
  <2>3. grp'[x] = q /\ \A h \in Grps : h # x => grp'[h] = grp[h]
    BY <2>1, <1>3 DEF TableTypes
  <2>4. grp' \in [Grps -> GroupRecords \cup {None}]
    BY <2>1, <2>2, <1>3, <1>4 DEF TableTypes
  <2>5. Like(grp', grp, x)
    BY <2>1, <2>2, <2>3, <2>4, <1>4, LibraryAssumption DEF Like
  <2>6. TableTypes'
    BY <2>1, <2>4, <1>1 DEF TableTypes
  <2>7. Rest(v, main)
    BY <1>1, <1>5, WorkFacts
  <2> QED BY <2>1, <2>2, <2>3, <2>5, <2>6, <2>7, <1>4
<1>6. ~dangling => Onward(main, grp, grp', stat, stat', thr, thr')
  BY <1>1, <1>2, <1>3, <1>5 DEF Onward, Like
<1>7. ASSUME ~dangling
      PROVE  /\ \A y : Has(v, "stat", y) <=> Has(main, "stat", y)
             /\ \A y : Has(v, "group", y) <=> Has(main, "group", y)
             /\ \A h : Has(main, "freelist", h) => Has(v, "freelist", h) \/ h = x
             /\ \A h \in Grps : grp[h] # None => grp'[h].objs = grp[h].objs
  <2>1. /\ \A y : Has(v, "stat", y) <=> Has(main, "stat", y)
        /\ \A y : Has(v, "group", y) <=> Has(main, "group", y)
    BY <1>2, <1>5, <1>7, RestSame
  <2>2. \A h : Has(main, "freelist", h) => Has(v, "freelist", h) \/ h = x
    BY <1>3, <1>5, <1>7, RestHas
  <2> QED BY <2>1, <2>2, <1>5, <1>7 DEF Like
<1>8. ASSUME ~dangling, NEW g \in Grps, grp'[g] # None PROVE GroupKept(v, g, ctx, grp', stat)
  <2>1. grp[g] # None /\ GroupKept(main, g, ctx, grp, stat)
    BY <1>1, <1>5, <1>8, WorkFacts DEF Like
  <2>2. {s \in Stats : stat[s] # None /\ stat[s].grp = g /\ ~Has(v, "stat", s)}
          = {s \in Stats : stat[s] # None /\ stat[s].grp = g /\ ~Has(main, "stat", s)}
    BY <1>7, <1>8
  <2>3. grp'[g].ctx = grp[g].ctx /\ grp'[g].stats = grp[g].stats
    BY <2>1, <1>5, <1>8 DEF Like
  <2>4. g = x => grp'[g].freed
    BY <2>1, <1>5, <1>8
  <2>5. g # x => grp'[g].freed = grp[g].freed
    BY <1>5, <1>8 DEF Like
  <2> QED BY <2>1, <2>2, <2>3, <2>4, <2>5, <1>7, <1>8 DEF GroupKept
<1>9. ASSUME ~dangling, NEW s \in Stats, stat[s] # None PROVE StatKept(v, s, ctx, grp', stat)
  <2>1. StatKept(main, s, ctx, grp, stat) /\ stat[s].grp \in Grps \cup {None}
    BY <1>1, <1>9, WorkFacts, StatHolds
  <2> QED BY <2>1, <1>5, <1>7, <1>9 DEF StatKept, Like
<1>10. ASSUME ~dangling, NEW c \in Ctxs, ctx[c] # None
       PROVE  ListsKept(v, c, ctx, grp', stat, status)
  <2>1. ListsKept(main, c, ctx, grp, stat, status)
    BY <1>1, <1>10, WorkFacts
  <2>2. {s \in Stats : stat[s] # None /\ stat[s].ctx = c /\ ~Has(v, "stat", s)}
          = {s \in Stats : stat[s] # None /\ stat[s].ctx = c /\ ~Has(main, "stat", s)}
    BY <1>7, <1>10
  <2>3. {h \in Grps : grp'[h] # None /\ grp'[h].ctx = c /\ ~Has(v, "group", h)}
          = {h \in Grps : grp[h] # None /\ grp[h].ctx = c /\ ~Has(main, "group", h)}
    BY <1>5, <1>7, <1>10 DEF Like
  <2> QED BY <2>1, <2>2, <2>3 DEF ListsKept
<1>11. ASSUME ~dangling, NEW s \in Stats, stat[s] # None, stat[s].grp # None
       PROVE  grp'[stat[s].grp].objs = grp[stat[s].grp].objs
  <2>1. stat[s].grp \in Grps /\ grp[stat[s].grp] # None
    BY <1>1, <1>11, WorkFacts, StatHolds DEF StatKept
  <2> QED BY <2>1, <1>7, <1>11
<1>12. ASSUME ~dangling, NEW s \in Stats, thr'[s].pc # "none"
       PROVE  ThreadKept(s, grp', stat', thr')
  <2>1. ThreadKept(s, grp, stat, thr) /\ thr'[s] = thr[s] /\ stat'[s] = stat[s]
    BY <1>1, <1>12, WorkFacts
  <2>2. stat[s] # None
    BY <2>1 DEF ThreadKept
  <2> QED BY <2>1, <2>2, <1>11, <1>12, ThreadSame
<1>13. ASSUME ~dangling PROVE Values(grp', stat') /\ InOrder(grp')
  <2>1. ASSUME NEW s \in Stats, stat[s] # None PROVE ValuesKept(s, grp', stat')
    <3>1. ValuesKept(s, grp, stat) /\ stat'[s] = stat[s]
      BY <2>1, <1>1, <1>13, WorkFacts DEF Values
    <3> QED BY <3>1, <2>1, <1>11, <1>13, ValuesSame
  <2>2. InOrder(grp')
    BY <1>1, <1>5, <1>7, <1>13, WorkFacts DEF InOrder, Like
  <2> QED BY <2>1, <2>2, <1>1 DEF Values
<1> QED BY <1>1, <1>2, <1>5, <1>6, <1>8, <1>9, <1>10, <1>12, <1>13, WorkKeeps DEF v

\* group_insert_obj and group_remove_obj keep the invariant.
LEMMA ReorderKeeps ==
    ASSUME IInv, Work, Head(main).do \in {"insert", "remove"},
           UNCHANGED <<ctx, stat, thr, die, status, hint, dangling>>,
           NEW o, grp' = [grp EXCEPT ![Head(main).on].objs = o],
           ~dangling => o \in Seq(Objs) /\ Sorted(o)
    PROVE  IInv'
<1> DEFINE x == main[1].on
           v == main'
           q == [grp[x] EXCEPT !.objs = o]
<1>1. /\ main # <<>> /\ v = Tail(main)
      /\ UNCHANGED <<prog, ctx, stat, thr, die, status, hint, initcount, logctx, failed,
                     dangling>>
  BY DEF Work
<1>2. main[1].do \in {"insert", "remove"} /\ Head(main) = main[1]
  BY <1>1, RestOf DEF IInv, BaseTypes, Rest
<1>3. grp' = [grp EXCEPT ![x] = q] /\ x = main[1].on
  BY <1>1, <1>2
<1>4. grp[x] \in GroupRecords /\ o \in Seq(Objs) =>
         /\ q \in GroupRecords /\ q.ctx = grp[x].ctx /\ q.stats = grp[x].stats
         /\ q.objs = o /\ q.freed = grp[x].freed
  BY DEF GroupRecords
<1> HIDE DEF x, v, q
<1>5. ASSUME ~dangling
      PROVE  /\ x \in Grps /\ Like(grp', grp, x) /\ TableTypes' /\ Rest(v, main)
             /\ grp'[x].freed = grp[x].freed /\ grp'[x].objs = o
             /\ \A s \in Stats : stat[s] # None => stat[s].grp # x
  <2>1. /\ x \in Grps /\ TableTypes /\ grp[x] # None
        /\ \A s \in Stats : stat[s] # None => stat[s].grp # x
    BY <1>1, <1>2, <1>3, <1>5, WorkFacts DEF ItemOfTables
  <2>2. grp[x] \in GroupRecords
    BY <2>1 DEF TableTypes
  <2>3. grp'[x] = q /\ \A h \in Grps : h # x => grp'[h] = grp[h]
    BY <2>1, <1>3 DEF TableTypes
  <2>4. grp' \in [Grps -> GroupRecords \cup {None}]
    BY <2>1, <2>2, <1>3, <1>4, <1>5 DEF TableTypes
  <2>5. Like(grp', grp, x)
    BY <2>1, <2>2, <2>3, <2>4, <1>4, <1>5, LibraryAssumption DEF Like
  <2>6. TableTypes'
    BY <2>1, <2>4, <1>1 DEF TableTypes
  <2>7. Rest(v, main)
    BY <1>1, <1>5, WorkFacts
  <2> QED BY <2>1, <2>2, <2>3, <2>5, <2>6, <2>7, <1>4, <1>5
<1>6. ~dangling => Onward(main, grp, grp', stat, stat', thr, thr')
  BY <1>1, <1>2, <1>3, <1>5 DEF Onward, Like
<1>8. ASSUME ~dangling, NEW g \in Grps, grp'[g] # None PROVE GroupKept(v, g, ctx, grp', stat)
  <2>1. grp[g] # None
    BY <1>5, <1>8 DEF Like
  <2>2. GroupKept(v, g, ctx, grp, stat)
    BY <2>1, <1>1, <1>2, <1>5, <1>8, WorkFacts, RestTables
  <2>3. /\ grp'[g].ctx = grp[g].ctx /\ grp'[g].stats = grp[g].stats
        /\ grp'[g].freed = grp[g].freed
    BY <2>1, <1>5, <1>8 DEF Like
  <2> QED BY <2>2, <2>3 DEF GroupKept
<1>11. ASSUME ~dangling, NEW s \in Stats, stat[s] # None, stat[s].grp # None
       PROVE  stat[s].grp \in Grps /\ grp'[stat[s].grp] = grp[stat[s].grp]
  BY <1>1, <1>5, <1>11, WorkFacts, StatHolds DEF Like
<1>9. ASSUME ~dangling, NEW s \in Stats, stat[s] # None PROVE StatKept(v, s, ctx, grp', stat)
  <2>1. StatKept(v, s, ctx, grp, stat)
    BY <1>1, <1>2, <1>5, <1>9, WorkFacts, RestTables
  <2> QED BY <2>1, <1>9, <1>11 DEF StatKept
<1>10. ASSUME ~dangling, NEW c \in Ctxs, ctx[c] # None
       PROVE  ListsKept(v, c, ctx, grp', stat, status)
  <2>1. ListsKept(v, c, ctx, grp, stat, status)
    BY <1>1, <1>2, <1>5, <1>10, WorkFacts, RestTables
  <2>3. {h \in Grps : grp'[h] # None /\ grp'[h].ctx = c /\ ~Has(v, "group", h)}
          = {h \in Grps : grp[h] # None /\ grp[h].ctx = c /\ ~Has(v, "group", h)}
    BY <1>5, <1>10 DEF Like
  <2> QED BY <2>1, <2>3 DEF ListsKept
<1>12. ASSUME ~dangling, NEW s \in Stats, thr'[s].pc # "none"
       PROVE  ThreadKept(s, grp', stat', thr')
  <2>1. ThreadKept(s, grp, stat, thr) /\ thr'[s] = thr[s] /\ stat'[s] = stat[s]
    BY <1>1, <1>12, WorkFacts
  <2>2. stat[s] # None
    BY <2>1 DEF ThreadKept
  <2> QED BY <2>1, <2>2, <1>11, <1>12, ThreadSame
<1>13. ASSUME ~dangling PROVE Values(grp', stat') /\ InOrder(grp')
  <2>1. ASSUME NEW s \in Stats, stat[s] # None PROVE ValuesKept(s, grp', stat')
    <3>1. ValuesKept(s, grp, stat) /\ stat'[s] = stat[s]
      BY <2>1, <1>1, <1>13, WorkFacts DEF Values
    <3> QED BY <3>1, <2>1, <1>11, <1>13, ValuesSame
  <2>2. ASSUME NEW h \in Grps, grp'[h] # None PROVE Sorted(grp'[h].objs)
    <3>1. CASE h = x
      BY <3>1, <1>5, <1>13
    <3>2. CASE h # x
      BY <3>2, <2>2, <1>1, <1>5, <1>13, WorkFacts DEF InOrder, Like
    <3> QED BY <3>1, <3>2
  <2> QED BY <2>1, <2>2, <1>1 DEF Values, InOrder
<1> QED BY <1>1, <1>2, <1>5, <1>6, <1>8, <1>9, <1>10, <1>12, <1>13, WorkKeeps DEF v

\* The items that change the objects of a group keep the invariant.
LEMMA DoInsertKeeps ==
    ASSUME IInv, Work, DoInsert \/ DoRemove
    PROVE  IInv'
<1> DEFINE x == main[1].on
           b == main[1].obj
<1>1. /\ main # <<>> /\ Head(main).do \in {"insert", "remove"}
      /\ UNCHANGED <<ctx, stat, thr, die, status, hint, dangling>>
  BY DEF Work, DoInsert, DoRemove
<1>2. Head(main) = main[1]
  BY <1>1, RestOf DEF IInv, BaseTypes, Rest
<1>3. ASSUME ~dangling PROVE x \in Grps /\ grp[x] # None /\ b \in Objs /\ Sound
  BY <1>1, <1>2, <1>3, WorkFacts DEF ItemOfTables
<1> HIDE DEF x, b
<1>4. CASE DoInsert
  <2> DEFINE o == InsertSorted(grp[x].objs, b)
  <2>1. grp' = [grp EXCEPT ![Head(main).on].objs = o]
    BY <1>2, <1>4 DEF DoInsert, x, b
  <2>2. ASSUME ~dangling PROVE o \in Seq(Objs) /\ Sorted(o)
    <3>1. /\ grp[x].objs \in Seq(Nat) /\ Sorted(grp[x].objs) /\ b \in Nat /\ b \in Objs
          /\ ToSet(grp[x].objs) \subseteq Objs
      BY <1>3, <2>2, GroupHolds, ObjsNat
    <3>2. o \in Seq(Nat) /\ Sorted(o) /\ ToSet(o) = ToSet(grp[x].objs) \cup {b}
      BY <3>1, InsertSortedIs
    <3> HIDE DEF o
    <3>3. ToSet(o) \subseteq Objs
      BY <3>1, <3>2
    <3> QED BY <3>2, <3>3, Within2
  <2> HIDE DEF o
  <2> QED BY <2>1, <2>2, <1>1, ReorderKeeps
<1>5. CASE DoRemove
  <2> DEFINE o == RemoveFirst(grp[x].objs, b)
  <2>1. grp' = [grp EXCEPT ![Head(main).on].objs = o]
    BY <1>2, <1>5 DEF DoRemove, x, b
  <2>2. ASSUME ~dangling PROVE o \in Seq(Objs) /\ Sorted(o)
    <3>1. /\ grp[x].objs \in Seq(Nat) /\ Sorted(grp[x].objs)
          /\ grp[x].objs \in Seq(Objs)
      BY <1>3, <2>2, GroupHolds
    <3>2. IsInjective(grp[x].objs)
      BY <3>1, SortedInjective
    <3>3. o \in Seq(Objs)
      BY <3>1, <3>2, RemoveFirstInjective
    <3>4. Sorted(o)
      BY <3>1, RemoveFirstSorted
    <3> QED BY <3>3, <3>4
  <2> HIDE DEF o
  <2> QED BY <2>1, <2>2, <1>1, ReorderKeeps
<1> QED BY <1>4, <1>5

\* An item of a context changes no thread and no group.
LEMMA ContextItems ==
    ASSUME IInv, ~dangling, main # <<>>, main[1].do \in {"objects", "context"}
    PROVE  \A k \in 1..Len(Tail(main)) :
              /\ ItemOfTables(Tail(main), k, grp, stat)
              /\ ItemOfThreads(Tail(main), k, stat, thr)
<1> DEFINE v == Tail(main)
<1>1. Rest(v, main)
  BY WorkFacts
<1> HIDE DEF v
<1>2. Onward(main, grp, grp, stat, stat, thr, thr)
  BY DEF Onward
<1>3. \A k \in 1..Len(main) : ItemOfTables(main, k, grp, stat) /\ ItemOfThreads(main, k, stat, thr)
  BY DEF IInv, Sound, Tables, Threads
<1>4. \A k \in 1..Len(v) : ItemOfTables(v, k, grp, stat) /\ ItemOfThreads(v, k, stat, thr)
  BY <1>1, <1>2, <1>3, RestItems
<1> QED BY <1>4 DEF v

\* The item of DoObjects keeps the invariant.
LEMMA DoObjectsKeeps ==
    ASSUME IInv, Work, DoObjects
    PROVE  IInv'
<1> DEFINE c == main[1].on
           v == main'
           gone == {h \in Live(hint) : hint[h].ctx = c}
           S == ctx[c].names \ {hint[h].name : h \in gone}
           r == [ctx[c] EXCEPT !.objs = FALSE, !.names = S]
<1>1. /\ main # <<>> /\ v = Tail(main)
      /\ UNCHANGED <<prog, grp, stat, thr, die, status, initcount, logctx, failed, dangling>>
      /\ main[1].do = "objects"
      /\ Rest(v, main)
      /\ 1 \in 1..Len(main)
  BY RestOf DEF Work, DoObjects, IInv, BaseTypes, Rest
<1>2. Head(main) = main[1]
  BY <1>1 DEF Rest
<1>3. /\ hint' = [h \in Hints |-> IF h \in gone THEN None ELSE hint[h]]
      /\ ctx' = [ctx EXCEPT ![c].objs = FALSE, ![c].names = S]
  BY <1>2 DEF DoObjects
<1>4. c \in Ctxs /\ ctx[c] # None /\ ~ctx[c].mapped /\ BaseTypes /\ Contexts(main, ctx, hint)
  BY <1>1 DEF IInv, Contexts, ItemOfContext
<1>5. /\ r \in ContextRecords /\ r # None /\ r.mapped = ctx[c].mapped /\ ~r.objs
      /\ r.groups = ctx[c].groups /\ r.stats = ctx[c].stats /\ r.statuses = ctx[c].statuses
  <2>1. ctx[c] \in ContextRecords
    BY <1>4 DEF BaseTypes
  <2>2. S \in SUBSET HintNames
    <3>1. ctx[c].names \in SUBSET HintNames
      BY <2>1 DEF ContextRecords
    <3> QED BY <3>1
  <2> HIDE DEF S
  <2>3. /\ r \in ContextRecords /\ r.mapped = ctx[c].mapped /\ ~r.objs
        /\ r.groups = ctx[c].groups /\ r.stats = ctx[c].stats /\ r.statuses = ctx[c].statuses
    BY <2>1, <2>2 DEF ContextRecords
  <2> QED BY <2>3, LibraryAssumption
<1>6. ctx' = [ctx EXCEPT ![c] = r]
  BY <1>3
<1>7. /\ hint' \in [Hints -> HintRecords \cup {None}]
      /\ \A h \in Hints : hint'[h] # None => hint'[h] = hint[h] /\ hint[h].ctx # c
  <2>1. DOMAIN hint = Hints
    BY <1>4 DEF BaseTypes
  <2> QED BY <2>1, <1>3, <1>4 DEF BaseTypes, Live
<1>c. c = main[1].on
  OBVIOUS
<1> HIDE DEF c, v, S, r, gone
<1>8. /\ ctx' \in [Ctxs -> ContextRecords \cup {None}] /\ ctx'[c] = r
      /\ \A d \in Ctxs : d # c => ctx'[d] = ctx[d]
  BY <1>4, <1>5, <1>6 DEF BaseTypes
<1>9. BaseTypes'
  <2>1. v \in Seq(Entries)
    BY <1>1 DEF Rest
  <2> QED BY <2>1, <1>1, <1>4, <1>7, <1>8 DEF BaseTypes, v
<1>10. \A d \in Ctxs : (ctx'[d] # None /\ ctx'[d].mapped) <=> (ctx[d] # None /\ ctx[d].mapped)
  BY <1>4, <1>5, <1>8
<1>11. Counted'
  <2>1. Cardinality(Opened(ctx')) = Cardinality(Opened(ctx))
    <3> DEFINE cx2 == ctx'
    <3>1. \A d \in Ctxs : (cx2[d] # None /\ cx2[d].mapped) <=> (ctx[d] # None /\ ctx[d].mapped)
      BY <1>10
    <3> HIDE DEF cx2
    <3>2. Cardinality(Opened(cx2)) = Cardinality(Opened(ctx))
      BY <3>1, CountSame
    <3> QED BY <3>2 DEF cx2
  <2> QED BY <2>1, <1>1 DEF IInv, Counted
<1>12. Contexts(v, ctx', hint')
  <2>1. \A x : Has(v, "context", x) <=> Has(main, "context", x)
    BY <1>1, RestSame
  <2>2. ASSUME NEW k \in 1..Len(v) PROVE ItemOfContext(v, k, ctx')
    <3>1. /\ ItemOfContext(main, k + 1, ctx) /\ v[k] = main[k + 1]
          /\ Len(main) = Len(v) + 1 /\ Len(v) \in Nat
      BY <1>1, <1>4 DEF Contexts, Rest
    <3> QED BY <3>1, <1>4, <1>5, <1>8 DEF ItemOfContext
  <2>3. ASSUME NEW d \in Ctxs, ctx'[d] # None PROVE ContextKept(v, d, ctx')
    <3>1. ContextKept(main, d, ctx)
      BY <2>3, <1>4, <1>8 DEF Contexts
    <3> QED BY <3>1, <2>1, <1>4, <1>8 DEF ContextKept
  <2>4. ASSUME NEW h \in Hints, hint'[h] # None PROVE HintKept(v, h, ctx', hint')
    <3>1. hint'[h] = hint[h] /\ hint[h].ctx # c /\ HintKept(main, h, ctx, hint)
      BY <2>4, <1>4, <1>7 DEF Contexts
    <3>2. hint[h].ctx \in Ctxs
      BY <2>4, <3>1, <1>4 DEF BaseTypes, HintRecords
    <3>3. Has(main, "objects", hint[h].ctx) => Has(v, "objects", hint[h].ctx)
      BY <3>1, <1>1, <1>c, RestHas
    <3>4. ctx'[hint[h].ctx] = ctx[hint[h].ctx]
      BY <3>1, <3>2, <1>8
    <3> QED BY <3>1, <3>3, <3>4 DEF HintKept
  <2> QED BY <2>2, <2>3, <2>4 DEF Contexts
<1>13. ASSUME ~dangling PROVE Sound' /\ (Careful => Whole(v, ctx', stat, thr))
  <2>1. \A g \in Grps : grp[g] # None => GroupKept(v, g, ctx, grp, stat) /\ grp[g].ctx \in Ctxs
    BY <1>1, <1>13, WorkFacts, RestTables, GroupHolds
  <2>2. \A s \in Stats : stat[s] # None => StatKept(v, s, ctx, grp, stat) /\ stat[s].ctx \in Ctxs
    BY <1>1, <1>13, WorkFacts, RestTables, StatHolds
  <2>3. \A d \in Ctxs : ctx[d] # None => ListsKept(v, d, ctx, grp, stat, status)
    BY <1>1, <1>13, WorkFacts, RestTables
  <2>4. \A d \in Ctxs :
          /\ ctx'[d] # None <=> ctx[d] # None
          /\ ctx'[d] # None => /\ ctx'[d].mapped = ctx[d].mapped /\ ctx'[d].groups = ctx[d].groups
                               /\ ctx'[d].stats = ctx[d].stats
                               /\ ctx'[d].statuses = ctx[d].statuses
    BY <1>4, <1>5, <1>8
  <2>5. \A g \in Grps : grp[g] # None => GroupKept(v, g, ctx', grp, stat)
    BY <2>1, <2>4 DEF GroupKept
  <2>6. \A s \in Stats : stat[s] # None => StatKept(v, s, ctx', grp, stat)
    BY <2>2, <2>4 DEF StatKept
  <2>7. ASSUME NEW d \in Ctxs, ctx'[d] # None PROVE ListsKept(v, d, ctx', grp, stat, status)
    BY <2>3, <2>4, <2>7 DEF ListsKept
  <2>8. \A t \in Statuses : status[t] # None => ctx'[status[t]] # None
    BY <2>4, <1>4, <1>13 DEF IInv, Sound, Tables, BaseTypes
  <2>9. \A k \in 1..Len(v) : ItemOfTables(v, k, grp, stat) /\ ItemOfThreads(v, k, stat, thr)
    BY <1>1, <1>13, ContextItems
  <2>10. Tables(v, ctx', grp, stat, status)
    BY <2>5, <2>6, <2>7, <2>8, <2>9 DEF Tables
  <2>11. Threads(v, grp, stat, thr) /\ Values(grp, stat) /\ InOrder(grp) /\ TableTypes
    BY <2>9, <1>1, <1>13, WorkFacts DEF Threads
  <2>12. Sound'
    BY <2>10, <2>11, <1>1 DEF Sound, TableTypes, v
  <2>13. ASSUME Careful PROVE Whole(v, ctx', stat, thr)
    <3>1. Whole(main, ctx, stat, thr)
      BY <2>13 DEF IInv
    <3>2. ASSUME NEW s \in Stats, stat[s] # None,
                 ctx[stat[s].ctx].mapped /\ ctx[stat[s].ctx].objs
          PROVE  ctx'[stat[s].ctx] = ctx[stat[s].ctx]
      BY <3>2, <2>2, <1>4, <1>8
    <3>3. ASSUME NEW s \in Stats, thr[s].pc # "none"
          PROVE  ctx'[stat[s].ctx] # None /\ ctx'[stat[s].ctx].mapped /\ ctx'[stat[s].ctx].objs
      <4>1. stat[s] # None
        BY <3>3, <2>11 DEF Threads, ThreadKept
      <4> QED BY <4>1, <3>1, <3>2, <3>3 DEF Whole
    <3>4. ASSUME NEW k \in 1..Len(v) PROVE v[k].do # "start"
      <4>1. v[k].do = "start" => main[1].do \in {"stop", "start"}
        <5>1. ItemOfThreads(main, k + 1, stat, thr) /\ v[k] = main[k + 1]
          BY <1>1, <1>13 DEF Rest, IInv, Sound, Threads
        <5> QED BY <5>1, <1>1 DEF ItemOfThreads
      <4> QED BY <4>1, <1>1
    <3> QED BY <3>3, <3>4 DEF Whole
  <2> QED BY <2>12, <2>13
<1>14. Careful => ~dangling
  BY DEF IInv
<1> QED BY <1>1, <1>9, <1>11, <1>12, <1>13, <1>14 DEF IInv, v

\* The item of DoContext keeps the invariant.
LEMMA DoContextKeeps ==
    ASSUME IInv, Work, DoContext
    PROVE  IInv'
<1> DEFINE c == main[1].on
           v == main'
<1>1. /\ main # <<>> /\ v = Tail(main)
      /\ UNCHANGED <<prog, grp, stat, thr, die, hint, initcount, logctx, failed, dangling>>
      /\ main[1].do = "context"
      /\ Rest(v, main)
      /\ 1 \in 1..Len(main)
  BY RestOf DEF Work, DoContext, IInv, BaseTypes, Rest
<1>2. Head(main) = main[1]
  BY <1>1 DEF Rest
<1>3. /\ status' = [t \in Statuses |->
                       IF t \in ToSet(ctx[c].statuses) THEN None ELSE status[t]]
      /\ ctx' = [ctx EXCEPT ![c] = None]
  BY <1>2 DEF DoContext
<1>4. /\ c \in Ctxs /\ ctx[c] # None /\ ~ctx[c].mapped /\ 1 = Len(main)
      /\ BaseTypes /\ Contexts(main, ctx, hint)
  BY <1>1 DEF IInv, Contexts, ItemOfContext
<1>c. c = main[1].on
  OBVIOUS
<1> HIDE DEF c, v
<1>5. /\ \A do, x : ~Has(v, do, x)
      /\ \A k \in 1..Len(v) : FALSE
      /\ v = <<>>
  <2>1. Len(v) = 0 /\ v \in Seq(Entries)
    BY <1>1, <1>4 DEF Rest
  <2>2. v = <<>>
    BY <2>1
  <2> QED BY <2>2, NothingPending
<1>6. /\ \A do, x : do # "context" => ~Has(main, do, x)
      /\ \A x : Has(main, "context", x) => x = c
  BY <1>1, <1>5, <1>c, RestHas
<1>7. /\ ctx' \in [Ctxs -> ContextRecords \cup {None}] /\ ctx'[c] = None
      /\ \A d \in Ctxs : d # c => ctx'[d] = ctx[d]
      /\ status' \in [Statuses -> Ctxs \cup {None}]
  BY <1>3, <1>4 DEF BaseTypes
<1>8. BaseTypes'
  <2>1. v \in Seq(Entries)
    BY <1>1 DEF Rest
  <2> QED BY <2>1, <1>1, <1>4, <1>7 DEF BaseTypes, v
<1>9. Counted'
  <2>1. Cardinality(Opened(ctx')) = Cardinality(Opened(ctx))
    <3> DEFINE cx2 == ctx'
    <3>1. \A d \in Ctxs : (cx2[d] # None /\ cx2[d].mapped) <=> (ctx[d] # None /\ ctx[d].mapped)
      BY <1>4, <1>7
    <3> HIDE DEF cx2
    <3>2. Cardinality(Opened(cx2)) = Cardinality(Opened(ctx))
      BY <3>1, CountSame
    <3> QED BY <3>2 DEF cx2
  <2> QED BY <2>1, <1>1 DEF IInv, Counted
<1>10. Contexts(v, ctx', hint')
  <2>1. ASSUME NEW d \in Ctxs, ctx'[d] # None PROVE ContextKept(v, d, ctx')
    BY <2>1, <1>4, <1>6, <1>7 DEF Contexts, ContextKept
  <2>2. ASSUME NEW h \in Hints, hint[h] # None PROVE HintKept(v, h, ctx', hint)
    <3>1. HintKept(main, h, ctx, hint) /\ hint[h].ctx \in Ctxs
      BY <2>2, <1>4 DEF Contexts, BaseTypes, HintRecords
    <3> QED BY <3>1, <1>4, <1>6, <1>7 DEF HintKept
  <2> QED BY <2>1, <2>2, <1>1, <1>5 DEF Contexts
<1>11. ASSUME ~dangling PROVE Sound' /\ (Careful => Whole(v, ctx', stat, thr))
  <2>1. ASSUME NEW g \in Grps, grp[g] # None PROVE GroupKept(v, g, ctx', grp, stat)
    <3>1. GroupKept(main, g, ctx, grp, stat) /\ grp[g].ctx \in Ctxs
      BY <2>1, <1>1, <1>11, WorkFacts, GroupHolds
    <3>2. {s \in Stats : stat[s] # None /\ stat[s].grp = g /\ ~Has(v, "stat", s)}
            = {s \in Stats : stat[s] # None /\ stat[s].grp = g /\ ~Has(main, "stat", s)}
      BY <1>5, <1>6
    <3>3. ctx[grp[g].ctx].mapped /\ ctx'[grp[g].ctx] = ctx[grp[g].ctx]
      BY <3>1, <1>4, <1>6, <1>7 DEF GroupKept
    <3> QED BY <3>1, <3>2, <3>3, <1>6 DEF GroupKept
  <2>2. ASSUME NEW s \in Stats, stat[s] # None
        PROVE  StatKept(v, s, ctx', grp, stat) /\ stat[s].ctx \in Ctxs /\ stat[s].ctx # c
    <3>1. StatKept(main, s, ctx, grp, stat) /\ stat[s].ctx \in Ctxs
      BY <2>2, <1>1, <1>11, WorkFacts, StatHolds
    <3>2. ctx[stat[s].ctx].mapped /\ ctx'[stat[s].ctx] = ctx[stat[s].ctx] /\ stat[s].ctx # c
      BY <3>1, <1>4, <1>6, <1>7 DEF StatKept
    <3> QED BY <3>1, <3>2 DEF StatKept
  <2>3. ToSet(ctx[c].statuses) = {t \in Statuses : status[t] = c}
    BY <1>1, <1>4, <1>11, WorkFacts DEF ListsKept
  <2>4. \A t \in Statuses : status'[t] = IF status[t] = c THEN None ELSE status[t]
    BY <2>3, <1>3
  <2>5. \A t \in Statuses : status'[t] # None => ctx'[status'[t]] # None
    BY <2>4, <1>4, <1>7, <1>11 DEF IInv, Sound, Tables, BaseTypes
  <2>6. ASSUME NEW d \in Ctxs, ctx'[d] # None PROVE ListsKept(v, d, ctx', grp, stat, status')
    <3>1. ListsKept(main, d, ctx, grp, stat, status) /\ ctx'[d] = ctx[d] /\ d # c
      BY <2>6, <1>1, <1>7, <1>11, WorkFacts
    <3>2. {t \in Statuses : status'[t] = d} = {t \in Statuses : status[t] = d}
      BY <2>4, <3>1, LibraryAssumption
    <3>3. /\ {h \in Grps : grp[h] # None /\ grp[h].ctx = d /\ ~Has(v, "group", h)}
               = {h \in Grps : grp[h] # None /\ grp[h].ctx = d /\ ~Has(main, "group", h)}
          /\ {s \in Stats : stat[s] # None /\ stat[s].ctx = d /\ ~Has(v, "stat", s)}
               = {s \in Stats : stat[s] # None /\ stat[s].ctx = d /\ ~Has(main, "stat", s)}
      BY <1>5, <1>6
    <3> QED BY <3>1, <3>2, <3>3 DEF ListsKept
  <2>7. Tables(v, ctx', grp, stat, status')
    BY <2>1, <2>2, <2>5, <2>6, <1>5 DEF Tables
  <2>8. Threads(v, grp, stat, thr) /\ Values(grp, stat) /\ InOrder(grp) /\ TableTypes
    BY <1>1, <1>5, <1>11, WorkFacts DEF Threads
  <2>9. Sound'
    BY <2>7, <2>8, <1>1 DEF Sound, TableTypes, v
  <2>10. ASSUME Careful PROVE Whole(v, ctx', stat, thr)
    <3>1. Whole(main, ctx, stat, thr)
      BY <2>10 DEF IInv
    <3>2. \A s \in Stats : thr[s].pc # "none" => stat[s] # None
      BY <2>8 DEF Threads, ThreadKept
    <3> QED BY <3>1, <3>2, <2>2, <1>5, <1>7 DEF Whole
  <2> QED BY <2>9, <2>10
<1>12. Careful => ~dangling
  BY DEF IInv
<1> QED BY <1>1, <1>8, <1>9, <1>10, <1>11, <1>12 DEF IInv, v

\* Every item of the work list keeps the invariant.
LEMMA AllWorkKeeps ==
    ASSUME IInv, Work
    PROVE  IInv'
BY DoObjectsKeeps, DoContextKeeps, DoInsertKeeps, DoFreeListKeeps, DoGroupKeeps, DoStopKeeps,
   DoStartKeeps, DoDetachKeeps, DoStatKeeps DEF Work

-------------------------------------------------------------------------------
(* The sampling threads                                                        *)

\* What a step of the thread of s leaves alone.
Sampled(s, gr, st, st2, th, th2) ==
    /\ st2 \in [Stats -> StatRecords \cup {None}]
    /\ \A x \in Stats : x # s => st2[x] = st[x] /\ th2[x] = th[x]
    /\ st2[s] # None /\ st2[s].ctx = st[s].ctx /\ st2[s].obj = st[s].obj
    /\ st2[s].grp = st[s].grp /\ Len(st2[s].values) = Len(st[s].values)
    /\ th2[s].pc # "none"
    /\ ThreadKept(s, gr, st2, th2) /\ ValuesKept(s, gr, st2)

\* The tables do not depend on what a thread does.
LEMMA SampledTables ==
    ASSUME NEW s \in Stats, NEW w, NEW cx, NEW gr, NEW st, NEW st2, NEW th, NEW th2, NEW su,
           Sampled(s, gr, st, st2, th, th2), st[s] # None, th[s].pc # "none",
           \A k \in 1..Len(w) : w[k].do \in {"detach", "stat", "start"} => w[k].on \in Stats
    PROVE  /\ Tables(w, cx, gr, st, su) => Tables(w, cx, gr, st2, su)
           /\ Threads(w, gr, st, th) => Threads(w, gr, st2, th2)
           /\ Values(gr, st) => Values(gr, st2)
           /\ Whole(w, cx, st, th) => Whole(w, cx, st2, th2)
<1>1. \A x \in Stats :
        /\ st2[x] # None <=> st[x] # None
        /\ st[x] # None => /\ st2[x].ctx = st[x].ctx /\ st2[x].obj = st[x].obj
                           /\ st2[x].grp = st[x].grp
                           /\ Len(st2[x].values) = Len(st[x].values)
        /\ th2[x].pc = "none" <=> th[x].pc = "none"
  BY DEF Sampled
<1>2. \A c :
        /\ {x \in Stats : st2[x] # None /\ st2[x].ctx = c /\ ~Has(w, "stat", x)}
              = {x \in Stats : st[x] # None /\ st[x].ctx = c /\ ~Has(w, "stat", x)}
        /\ {x \in Stats : st2[x] # None /\ st2[x].grp = c /\ ~Has(w, "stat", x)}
              = {x \in Stats : st[x] # None /\ st[x].grp = c /\ ~Has(w, "stat", x)}
  BY <1>1
<1>3. ASSUME Tables(w, cx, gr, st, su) PROVE Tables(w, cx, gr, st2, su)
  <2>1. ASSUME NEW k \in 1..Len(w) PROVE ItemOfTables(w, k, gr, st2)
    <3>1. ItemOfTables(w, k, gr, st)
      BY <1>3 DEF Tables
    <3> QED BY <3>1, <1>1 DEF ItemOfTables
  <2>2. ASSUME NEW g \in Grps, gr[g] # None PROVE GroupKept(w, g, cx, gr, st2)
    <3>1. GroupKept(w, g, cx, gr, st)
      BY <1>3, <2>2 DEF Tables
    <3> QED BY <3>1, <1>2, Zenon DEF GroupKept
  <2>3. ASSUME NEW x \in Stats, st2[x] # None PROVE StatKept(w, x, cx, gr, st2)
    <3>1. StatKept(w, x, cx, gr, st)
      BY <1>1, <1>3, <2>3 DEF Tables
    <3> QED BY <3>1, <1>1, <2>3 DEF StatKept
  <2>4. ASSUME NEW c \in Ctxs, cx[c] # None PROVE ListsKept(w, c, cx, gr, st2, su)
    <3>1. ListsKept(w, c, cx, gr, st, su)
      BY <1>3, <2>4 DEF Tables
    <3> QED BY <3>1, <1>2, Zenon DEF ListsKept
  <2> QED BY <1>3, <2>1, <2>2, <2>3, <2>4 DEF Tables
<1>4. ASSUME Threads(w, gr, st, th) PROVE Threads(w, gr, st2, th2)
  <2>1. ASSUME NEW k \in 1..Len(w) PROVE ItemOfThreads(w, k, st2, th2)
    <3>1. ItemOfThreads(w, k, st, th)
      BY <1>4 DEF Threads
    <3> QED BY <3>1, <1>1 DEF ItemOfThreads
  <2>2. ASSUME NEW x \in Stats, th2[x].pc # "none" PROVE ThreadKept(x, gr, st2, th2)
    <3>1. CASE x = s
      BY <3>1 DEF Sampled
    <3>2. CASE x # s
      <4>1. st2[x] = st[x] /\ th2[x] = th[x] /\ ThreadKept(x, gr, st, th)
        BY <3>2, <2>2, <1>1, <1>4 DEF Sampled, Threads
      <4> QED BY <4>1, ThreadSame
    <3> QED BY <3>1, <3>2
  <2> QED BY <2>1, <2>2 DEF Threads
<1>5. ASSUME Values(gr, st) PROVE Values(gr, st2)
  <2>1. ASSUME NEW x \in Stats, st2[x] # None PROVE ValuesKept(x, gr, st2)
    <3>1. CASE x = s
      BY <3>1 DEF Sampled
    <3>2. CASE x # s
      <4>1. st2[x] = st[x] /\ ValuesKept(x, gr, st)
        BY <3>2, <2>1, <1>1, <1>5 DEF Sampled, Values
      <4> QED BY <4>1, ValuesSame
    <3> QED BY <3>1, <3>2
  <2> QED BY <2>1 DEF Values
<1>7. ASSUME Whole(w, cx, st, th) PROVE Whole(w, cx, st2, th2)
  <2>1. \A x \in Stats : x # s => st2[x] = st[x]
    BY DEF Sampled
  <2>2. \A x \in Stats : st2[x].ctx = st[x].ctx
    BY <2>1, <1>1
  <2> QED BY <2>2, <1>1, <1>7 DEF Whole
<1> QED BY <1>3, <1>4, <1>5, <1>7

\* A step of the thread of s keeps the invariant when its values do.
LEMMA SampleKeeps ==
    ASSUME IInv, ~dangling, NEW s \in Stats, thr[s].pc # "none", OnlyThread,
           dangling' = dangling, Sampled(s, grp, stat, stat', thr, thr'),
           thr' \in [Stats -> [pc : {"none", "init", "test", "read", "use", "update", "done"},
                               i : Nat, reading : Seq(Objs \X Int)]]
    PROVE  IInv'
<1>1. /\ UNCHANGED <<prog, ctx, grp, die, status, hint, initcount, logctx, main, failed,
                     dangling>>
      /\ Sound
  BY DEF OnlyThread, IInv
<1>2. BaseTypes' /\ Contexts(main', ctx', hint') /\ Counted'
  BY <1>1 DEF IInv, BaseTypes, Counted
<1>3. TableTypes'
  BY <1>1 DEF Sound, TableTypes, Sampled
<1>4. /\ stat[s] # None
      /\ \A k \in 1..Len(main) :
            main[k].do \in {"detach", "stat", "start"} => main[k].on \in Stats
  BY <1>1 DEF Sound, Threads, ThreadKept, Tables, ItemOfTables
<1>5. /\ Tables(main, ctx, grp, stat', status) /\ Threads(main, grp, stat', thr')
      /\ Values(grp, stat')
      /\ Whole(main, ctx, stat, thr) => Whole(main, ctx, stat', thr')
  <2> DEFINE st2 == stat'
             th2 == thr'
  <2>1. Sampled(s, grp, stat, st2, thr, th2)
    OBVIOUS
  <2>2. Tables(main, ctx, grp, stat, status) /\ Threads(main, grp, stat, thr) /\ Values(grp, stat)
    BY <1>1 DEF Sound
  <2> HIDE DEF st2, th2
  <2>3. /\ Tables(main, ctx, grp, st2, status) /\ Threads(main, grp, st2, th2)
        /\ Values(grp, st2)
        /\ Whole(main, ctx, stat, thr) => Whole(main, ctx, st2, th2)
    BY <2>1, <2>2, <1>4, SampledTables
  <2> QED BY <2>3 DEF st2, th2
<1>6. InOrder(grp)
  BY <1>1 DEF Sound
<1>7. Sound'
  BY <1>1, <1>3, <1>5, <1>6 DEF Sound
<1>8. Careful => ~dangling' /\ Whole(main', ctx', stat', thr')
  BY <1>1, <1>5 DEF IInv
<1> QED BY <1>2, <1>7, <1>8 DEF IInv

\* Where a thread may be, and what it holds.
Pcs == {"none", "init", "test", "read", "use", "update", "done"}
ThreadRecords == [pc : Pcs, i : Nat, reading : Seq(Objs \X Int)]

\* What a thread finds.
LEMMA SampleFacts ==
    ASSUME IInv, ~dangling, NEW s \in Stats, thr[s].pc # "none"
    PROVE  /\ Sound /\ TableTypes
           /\ stat \in [Stats -> StatRecords \cup {None}] /\ thr \in [Stats -> ThreadRecords]
           /\ thr[s] \in ThreadRecords
           /\ stat[s] # None /\ stat[s] \in StatRecords
           /\ ThreadKept(s, grp, stat, thr) /\ ValuesKept(s, grp, stat)
           /\ StatKept(main, s, ctx, grp, stat)
           /\ stat[s].grp # None =>
                 /\ stat[s].obj = 0 /\ stat[s].grp \in Grps /\ grp[stat[s].grp] # None
                 /\ Len(grp[stat[s].grp].objs) = Len(stat[s].values)
                 /\ grp[stat[s].grp].objs \in Seq(Objs)
<1>1. Sound /\ TableTypes
  BY DEF IInv, Sound
<1>2. ThreadKept(s, grp, stat, thr) /\ stat[s] # None
  BY <1>1 DEF Sound, Threads, ThreadKept
<1>3. /\ stat \in [Stats -> StatRecords \cup {None}] /\ thr \in [Stats -> ThreadRecords]
      /\ thr[s] \in ThreadRecords
  BY <1>1 DEF TableTypes, ThreadRecords, Pcs
<1>4. stat[s] \in StatRecords /\ ValuesKept(s, grp, stat) /\ StatKept(main, s, ctx, grp, stat)
  BY <1>1, <1>2, <1>3 DEF Sound, Values, Tables
<1>5. ASSUME stat[s].grp # None
      PROVE  /\ stat[s].obj = 0 /\ stat[s].grp \in Grps /\ grp[stat[s].grp] # None
             /\ Len(grp[stat[s].grp].objs) = Len(stat[s].values)
             /\ grp[stat[s].grp].objs \in Seq(Objs)
  BY <1>1, <1>2, <1>4, <1>5, StatHolds, GroupHolds DEF StatKept
<1> QED BY <1>1, <1>2, <1>3, <1>4, <1>5

\* A step that moves the thread of s alone.
LEMMA MovedKeeps ==
    ASSUME IInv, ~dangling, NEW s \in Stats, thr[s].pc # "none", OnlyThread,
           dangling' = dangling, stat' = stat,
           NEW r \in ThreadRecords, r.pc # "none",
           thr' = [thr EXCEPT ![s] = r],
           r.pc \in {"read", "use"} =>
              /\ r.i \in 1..Len(stat[s].values) /\ Len(r.reading) = r.i - 1,
           r.pc = "update" => Len(r.reading) = Len(stat[s].values),
           r.pc \in {"read", "use", "update"} /\ stat[s].grp # None =>
              \A j \in 1..Len(r.reading) : r.reading[j][1] = grp[stat[s].grp].objs[j]
    PROVE  IInv'
<1>1. thr'[s] = r /\ \A x \in Stats : x # s => thr'[x] = thr[x]
  BY SampleFacts
<1>2. thr' \in [Stats -> ThreadRecords]
  BY SampleFacts
<1>3. ThreadKept(s, grp, stat', thr')
  BY <1>1, SampleFacts DEF ThreadKept
<1>4. Sampled(s, grp, stat, stat', thr, thr')
  BY <1>1, <1>3, SampleFacts DEF Sampled
<1> QED BY <1>2, <1>4, SampleKeeps DEF ThreadRecords, Pcs

\* A step STest of a sampling thread keeps the invariant.
LEMMA STestKeeps ==
    ASSUME IInv, NEW s \in Stats, STest(s)
    PROVE  IInv'
<1>1. /\ ~dangling /\ thr[s].pc = "test" /\ OnlyThread /\ stat' = stat /\ dangling' = dangling
      /\ thr' = [thr EXCEPT ![s] = IF die[s] THEN [@ EXCEPT !.pc = "done"]
                                   ELSE [pc |-> "read", i |-> 1, reading |-> <<>>]]
  BY DEF STest, Sampler
<1>2. thr[s] \in ThreadRecords
  BY <1>1, SampleFacts
<1>3. CASE die[s]
  <2> DEFINE r == [thr[s] EXCEPT !.pc = "done"]
  <2>1. r \in ThreadRecords /\ r.pc = "done" /\ thr' = [thr EXCEPT ![s] = r]
    BY <1>1, <1>2, <1>3 DEF ThreadRecords, Pcs
  <2> HIDE DEF r
  <2> QED BY <2>1, <1>1, MovedKeeps
<1>4. CASE ~die[s]
  <2> DEFINE r == [pc |-> "read", i |-> 1, reading |-> <<>>]
  <2>1. /\ r \in ThreadRecords /\ r.pc = "read" /\ r.i = 1 /\ Len(r.reading) = 0
        /\ thr' = [thr EXCEPT ![s] = r]
    BY <1>1, <1>2, <1>4 DEF ThreadRecords, Pcs
  <2>2. 1 \in 1..Len(stat[s].values) /\ Len(r.reading) = 1 - 1
    <3>1. stat[s].values \in Seq(Int) /\ Len(stat[s].values) >= 1
      BY <1>1, SampleFacts DEF ValuesKept, StatRecords
    <3> QED BY <3>1, <2>1
  <2>3. \A j \in 1..Len(r.reading) : r.reading[j][1] = grp[stat[s].grp].objs[j]
    BY <2>1
  <2> HIDE DEF r
  <2>4. /\ r.pc # "none" /\ r.pc # "update"
        /\ r.i \in 1..Len(stat[s].values) /\ Len(r.reading) = r.i - 1
    BY <2>1, <2>2
  <2> QED BY <2>1, <2>3, <2>4, <1>1, MovedKeeps
<1> QED BY <1>3, <1>4

\* A step SRead of a sampling thread keeps the invariant.
LEMMA SReadKeeps ==
    ASSUME IInv, NEW s \in Stats, SRead(s)
    PROVE  IInv'
<1>1. /\ ~dangling /\ thr[s].pc = "read" /\ OnlyThread /\ stat' = stat /\ dangling' = dangling
      /\ thr' = [thr EXCEPT ![s].pc = IF Found(s) THEN "use" ELSE "test"]
  BY DEF SRead, Sampler
<1>2. thr[s] \in ThreadRecords /\ ThreadKept(s, grp, stat, thr)
  BY <1>1, SampleFacts
<1> DEFINE p == IF Found(s) THEN "use" ELSE "test"
           r == [thr[s] EXCEPT !.pc = p]
<1>3. p \in {"use", "test"}
  OBVIOUS
<1> HIDE DEF p
<1>4. /\ r \in ThreadRecords /\ r.pc = p /\ r.i = thr[s].i /\ r.reading = thr[s].reading
  BY <1>2, <1>3 DEF ThreadRecords, Pcs
<1>5. thr' = [thr EXCEPT ![s] = r]
  BY <1>1 DEF p
<1> HIDE DEF r
<1>6. /\ r.i \in 1..Len(stat[s].values) /\ Len(r.reading) = r.i - 1
      /\ stat[s].grp # None =>
            \A j \in 1..Len(r.reading) : r.reading[j][1] = grp[stat[s].grp].objs[j]
  BY <1>1, <1>2, <1>4 DEF ThreadKept
<1> QED BY <1>1, <1>3, <1>4, <1>5, <1>6, MovedKeeps

\* A step SFail of a sampling thread keeps the invariant.
LEMMA SFailKeeps ==
    ASSUME IInv, NEW s \in Stats, SFail(s)
    PROVE  IInv'
<1>1. /\ ~dangling /\ thr[s].pc = "use" /\ OnlyThread /\ stat' = stat /\ dangling' = dangling
      /\ thr' = [thr EXCEPT ![s].pc = "test"]
  BY DEF SFail, Sampler
<1> DEFINE r == [thr[s] EXCEPT !.pc = "test"]
<1>2. r \in ThreadRecords /\ r.pc = "test" /\ thr' = [thr EXCEPT ![s] = r]
  <2>1. thr[s] \in ThreadRecords
    BY <1>1, SampleFacts
  <2> QED BY <1>1, <2>1 DEF ThreadRecords, Pcs
<1> HIDE DEF r
<1> QED BY <1>1, <1>2, MovedKeeps

\* A step SUse of a sampling thread keeps the invariant.
LEMMA SUseKeeps ==
    ASSUME IInv, NEW s \in Stats, SUse(s)
    PROVE  IInv'
<1>1. ~dangling /\ thr[s].pc = "use" /\ OnlyThread /\ stat' = stat
  BY DEF SUse, Sampler
<1> DEFINE n == Len(stat[s].values)
           k == thr[s].i
<1>2. /\ thr[s] \in ThreadRecords /\ ThreadKept(s, grp, stat, thr) /\ k \in 1..n
      /\ Len(thr[s].reading) = k - 1 /\ n \in Nat
      /\ stat[s] # None /\ (stat[s].obj # 0 \/ stat[s].grp # None)
      /\ stat[s].obj \in Objs \cup {0} /\ thr[s].reading \in Seq(Objs \X Int) /\ k \in Nat
  BY <1>1, SampleFacts DEF ThreadKept, ThreadRecords, StatRecords
<1>3. stat[s].grp # None =>
         /\ stat[s].obj = 0 /\ grp[stat[s].grp] # None
         /\ k \in DOMAIN grp[stat[s].grp].objs /\ grp[stat[s].grp].objs[k] \in Objs
  BY <1>1, <1>2, SampleFacts
<1>4. CASE ~Found(s) /\ dangling' = TRUE /\ thr' = thr
  <2>1. ~Careful
    <3> SUFFICES ASSUME Careful PROVE FALSE
      OBVIOUS
    <3>1. ctx[stat[s].ctx] # None /\ ctx[stat[s].ctx].objs
      BY <1>1 DEF IInv, Whole
    <3> QED BY <3>1, <1>2, <1>3, <1>4 DEF Found
  <2> QED BY <2>1, <1>1, <1>4 DEF IInv, OnlyThread, BaseTypes, Counted
<1>5. CASE /\ dangling' = dangling
           /\ \E v \in prog.readings :
                 thr' = [thr EXCEPT
                           ![s].reading = Append(@, <<Target(s), v>>), ![s].i = @ + 1,
                           ![s].pc = IF thr[s].i = Len(stat[s].values)
                                     THEN "update" ELSE "read"]
  <2>1. PICK v \in prog.readings :
           thr' = [thr EXCEPT
                     ![s].reading = Append(@, <<Target(s), v>>), ![s].i = @ + 1,
                     ![s].pc = IF thr[s].i = Len(stat[s].values)
                               THEN "update" ELSE "read"]
    BY <1>5
  <2> DEFINE e == <<Target(s), v>>
             l == Append(thr[s].reading, e)
             p == IF k = n THEN "update" ELSE "read"
             r == [thr[s] EXCEPT !.reading = l, !.i = k + 1, !.pc = p]
  <2>2. thr' = [thr EXCEPT ![s] = r]
    <3>1. thr \in [Stats -> ThreadRecords]
      BY <1>1, SampleFacts
    <3> QED BY <2>1, <3>1 DEF ThreadRecords
  <2>3. /\ e \in Objs \X Int /\ e[1] = Target(s)
        /\ stat[s].grp # None => e[1] = grp[stat[s].grp].objs[k]
    <3>1. v \in Int
      BY LibraryAssumption DEF IInv, BaseTypes
    <3> QED BY <3>1, <1>2, <1>3 DEF Target
  <2> HIDE DEF e
  <2>4. /\ l \in Seq(Objs \X Int) /\ Len(l) = k /\ l[k] = e
        /\ \A j \in 1..k - 1 : l[j] = thr[s].reading[j]
    BY <2>3, <1>2
  <2>5. p \in {"update", "read"} /\ (p = "update" <=> k = n)
    OBVIOUS
  <2> HIDE DEF l, p, n, k
  <2>6. r \in ThreadRecords /\ r.reading = l /\ r.i = k + 1 /\ r.pc = p
    <3>1. k + 1 \in Nat /\ p \in Pcs
      BY <2>5, <1>2 DEF Pcs
    <3>2. thr[s] \in [pc : Pcs, i : Nat, reading : Seq(Objs \X Int)]
      BY <1>2 DEF ThreadRecords
    <3> QED BY <2>4, <3>1, <3>2 DEF ThreadRecords
  <2> HIDE DEF r
  <2>7. stat[s].grp # None =>
           \A j \in 1..Len(r.reading) : r.reading[j][1] = grp[stat[s].grp].objs[j]
    <3> SUFFICES ASSUME stat[s].grp # None, NEW j \in 1..k
                 PROVE  l[j][1] = grp[stat[s].grp].objs[j]
      BY <2>4, <2>6
    <3>1. CASE j = k
      BY <3>1, <2>3, <2>4
    <3>2. CASE j # k
      <4>1. j \in 1..k - 1
        BY <3>2, <1>2
      <4>2. thr[s].reading[j][1] = grp[stat[s].grp].objs[j]
        BY <4>1, <1>1, <1>2 DEF ThreadKept
      <4> QED BY <4>1, <4>2, <2>4
    <3> QED BY <3>1, <3>2
  <2>8. r.pc \in {"read", "use"} =>
           r.i \in 1..Len(stat[s].values) /\ Len(r.reading) = r.i - 1
    BY <2>4, <2>5, <2>6, <1>2 DEF n
  <2>9. r.pc = "update" => Len(r.reading) = Len(stat[s].values)
    BY <2>4, <2>5, <2>6 DEF n
  <2>10. r.pc # "none"
    BY <2>5, <2>6
  <2> QED BY <2>2, <2>6, <2>7, <2>8, <2>9, <2>10, <1>1, <1>5, MovedKeeps
<1> QED BY <1>4, <1>5 DEF SUse

\* A reading for one value.
LEMMA Lowered ==
    ASSUME NEW v \in Int, NEW S, NEW r \in Objs \X Int,
           Least1(v, {e[2] : e \in S} \cup {Inf}), \A e \in S : e[2] \in Int
    PROVE  /\ Lower(v, r[2]) \in Int
           /\ Least1(Lower(v, r[2]), {e[2] : e \in S \cup {r}} \cup {Inf})
<1>1. r[2] \in Int /\ Inf \in Int
  BY DEF Inf
<1> DEFINE T == {e[2] : e \in S} \cup {Inf}
<1>2. {e[2] : e \in S \cup {r}} \cup {Inf} = T \cup {r[2]}
  OBVIOUS
<1>3. v \in T /\ (\A x \in T : v <= x) /\ (\A x \in T : x \in Int)
  BY <1>1 DEF Least1
<1> HIDE DEF T
<1>4. Lower(v, r[2]) \in T \cup {r[2]} /\ \A x \in T \cup {r[2]} : Lower(v, r[2]) <= x
  BY <1>1, <1>3 DEF Lower
<1> QED BY <1>1, <1>2, <1>4 DEF Least1, Lower

\* A step SInit of a sampling thread keeps the invariant.
LEMMA SInitKeeps ==
    ASSUME IInv, NEW s \in Stats, SInit(s)
    PROVE  IInv'
<1> DEFINE n == Len(stat[s].values)
           r == [thr[s] EXCEPT !.pc = "test"]
           v == [i \in DOMAIN stat[s].values |-> Inf]
           S == [i \in DOMAIN stat[s].seen |-> {}]
           q == [stat[s] EXCEPT !.values = v, !.seen = S, !.ready = TRUE]
<1>1. ~dangling /\ thr[s].pc = "init" /\ OnlyThread /\ dangling' = dangling
  BY DEF SInit, Sampler
<1>2. /\ thr[s] \in ThreadRecords /\ stat[s] \in StatRecords /\ stat[s] # None
      /\ stat \in [Stats -> StatRecords \cup {None}] /\ thr \in [Stats -> ThreadRecords]
      /\ ThreadKept(s, grp, stat, thr) /\ ValuesKept(s, grp, stat)
  BY <1>1, SampleFacts
<1>3. thr' = [thr EXCEPT ![s] = r] /\ stat' = [stat EXCEPT ![s] = q]
  BY <1>2 DEF SInit
<1>4. r \in ThreadRecords /\ r.pc = "test"
  BY <1>2 DEF ThreadRecords, Pcs
<1>5. n \in Nat /\ n >= 1 /\ Len(stat[s].seen) = n
      /\ DOMAIN stat[s].values = 1..n /\ DOMAIN stat[s].seen = 1..n
  BY <1>2 DEF ValuesKept, StatRecords
<1>6. v = [i \in 1..n |-> Inf] /\ S = [i \in 1..n |-> {}]
  BY <1>5
<1> HIDE DEF v, S
<1>7. /\ v \in Seq(Int) /\ Len(v) = n /\ S \in Seq(SUBSET (Objs \X Int)) /\ Len(S) = n
  BY <1>5, <1>6 DEF Inf
<1>8. /\ q \in StatRecords /\ q # None
      /\ q.values = v /\ q.seen = S
      /\ q.ctx = stat[s].ctx /\ q.obj = stat[s].obj /\ q.grp = stat[s].grp
  <2> DEFINE x == stat[s]
  <2>1. x \in StatRecords
    BY <1>2
  <2> HIDE DEF x
  <2>2. q \in StatRecords
    BY <2>1, <1>7 DEF StatRecords, x
  <2>3. /\ q.values = v /\ q.seen = S
        /\ q.ctx = stat[s].ctx /\ q.obj = stat[s].obj /\ q.grp = stat[s].grp
    BY <1>2 DEF StatRecords
  <2> QED BY <2>2, <2>3, LibraryAssumption
<1> HIDE DEF q, r
<1>9. /\ thr'[s] = r /\ stat'[s] = q
      /\ \A x \in Stats : x # s => stat'[x] = stat[x] /\ thr'[x] = thr[x]
      /\ thr' \in [Stats -> ThreadRecords] /\ stat' \in [Stats -> StatRecords \cup {None}]
  BY <1>2, <1>3, <1>4, <1>8
<1>10. ThreadKept(s, grp, stat', thr')
  BY <1>2, <1>4, <1>8, <1>9 DEF ThreadKept
<1>11. ASSUME NEW i \in 1..n
       PROVE  /\ Least1(q.values[i], {e[2] : e \in q.seen[i]} \cup {Inf})
              /\ \A e \in q.seen[i] : FALSE
  <2>1. q.values[i] = Inf /\ q.seen[i] = {}
    BY <1>6, <1>8
  <2> QED BY <2>1 DEF Least1, Inf
<1>12. ValuesKept(s, grp, stat')
  BY <1>5, <1>7, <1>8, <1>9, <1>11 DEF ValuesKept
<1>13. Sampled(s, grp, stat, stat', thr, thr')
  <2>1. Len(stat'[s].values) = Len(stat[s].values)
    BY <1>7, <1>8, <1>9
  <2> QED BY <2>1, <1>4, <1>8, <1>9, <1>10, <1>12 DEF Sampled
<1> QED BY <1>1, <1>9, <1>13, SampleKeeps DEF ThreadRecords, Pcs

\* A step SUpdate of a sampling thread keeps the invariant.
LEMMA SUpdateKeeps ==
    ASSUME IInv, NEW s \in Stats, SUpdate(s)
    PROVE  IInv'
<1> DEFINE n == Len(stat[s].values)
           l == thr[s].reading
           r == [pc |-> "test", i |-> 0, reading |-> <<>>]
           v == [i \in DOMAIN stat[s].values |-> Lower(stat[s].values[i], l[i][2])]
           S == [i \in DOMAIN stat[s].seen |-> stat[s].seen[i] \cup {l[i]}]
           q == [stat[s] EXCEPT !.values = v, !.seen = S]
<1>1. ~dangling /\ thr[s].pc = "update" /\ OnlyThread /\ dangling' = dangling
  BY DEF SUpdate, Sampler
<1>2. /\ thr[s] \in ThreadRecords /\ stat[s] \in StatRecords /\ stat[s] # None
      /\ stat \in [Stats -> StatRecords \cup {None}] /\ thr \in [Stats -> ThreadRecords]
      /\ ThreadKept(s, grp, stat, thr) /\ ValuesKept(s, grp, stat)
  BY <1>1, SampleFacts
<1>3. thr' = [thr EXCEPT ![s] = r] /\ stat' = [stat EXCEPT ![s] = q]
  BY <1>2 DEF SUpdate
<1>4. r \in ThreadRecords /\ r.pc = "test"
  BY DEF ThreadRecords, Pcs
<1>5. /\ n \in Nat /\ n >= 1 /\ Len(stat[s].seen) = n
      /\ DOMAIN stat[s].values = 1..n /\ DOMAIN stat[s].seen = 1..n
      /\ l \in Seq(Objs \X Int) /\ Len(l) = n
      /\ \A i \in 1..n : l[i] \in Objs \X Int
  BY <1>1, <1>2 DEF ValuesKept, ThreadKept, StatRecords, ThreadRecords
<1>6. /\ v = [i \in 1..n |-> Lower(stat[s].values[i], l[i][2])]
      /\ S = [i \in 1..n |-> stat[s].seen[i] \cup {l[i]}]
      /\ q.ready = stat[s].ready
  BY <1>2, <1>5 DEF StatRecords
<1> HIDE DEF v, S
<1>7. ASSUME NEW i \in 1..n
      PROVE  /\ stat[s].values[i] \in Int /\ stat[s].seen[i] \subseteq Objs \X Int
             /\ l[i] \in Objs \X Int /\ l[i][2] \in Int
             /\ Lower(stat[s].values[i], l[i][2]) \in Int
             /\ stat[s].seen[i] \cup {l[i]} \in SUBSET (Objs \X Int)
  <2>1. stat[s].values \in Seq(Int) /\ stat[s].seen \in Seq(SUBSET (Objs \X Int))
    BY <1>2 DEF StatRecords
  <2>2. stat[s].values[i] \in Int /\ stat[s].seen[i] \in SUBSET (Objs \X Int)
    BY <2>1, <1>5
  <2>3. l[i] \in Objs \X Int
    BY <1>5
  <2> QED BY <2>2, <2>3 DEF Lower
<1>8. v \in Seq(Int) /\ Len(v) = n /\ S \in Seq(SUBSET (Objs \X Int)) /\ Len(S) = n
  <2>1. [i \in 1..n |-> Lower(stat[s].values[i], l[i][2])] \in [1..n -> Int]
    BY <1>7
  <2>2. [i \in 1..n |-> stat[s].seen[i] \cup {l[i]}] \in [1..n -> SUBSET (Objs \X Int)]
    BY <1>7
  <2> QED BY <2>1, <2>2, <1>5, <1>6
<1>9. /\ q \in StatRecords /\ q # None
      /\ q.values = v /\ q.seen = S
      /\ q.ctx = stat[s].ctx /\ q.obj = stat[s].obj /\ q.grp = stat[s].grp
  <2> DEFINE x == stat[s]
  <2>1. x \in StatRecords
    BY <1>2
  <2> HIDE DEF x
  <2>2. q \in StatRecords
    BY <2>1, <1>8 DEF StatRecords, x
  <2>3. /\ q.values = v /\ q.seen = S
        /\ q.ctx = stat[s].ctx /\ q.obj = stat[s].obj /\ q.grp = stat[s].grp
    BY <1>2 DEF StatRecords
  <2> QED BY <2>2, <2>3, LibraryAssumption
<1> HIDE DEF q, r
<1>10. /\ thr'[s] = r /\ stat'[s] = q
       /\ \A x \in Stats : x # s => stat'[x] = stat[x] /\ thr'[x] = thr[x]
       /\ thr' \in [Stats -> ThreadRecords] /\ stat' \in [Stats -> StatRecords \cup {None}]
  BY <1>2, <1>3, <1>4, <1>9
<1>11. ThreadKept(s, grp, stat', thr')
  BY <1>2, <1>4, <1>9, <1>10 DEF ThreadKept
<1>12. ASSUME stat[s].ready, NEW i \in 1..n
       PROVE  /\ Least1(q.values[i], {e[2] : e \in q.seen[i]} \cup {Inf})
              /\ q.grp # None => \A e \in q.seen[i] : e[1] = grp[q.grp].objs[i]
  <2> DEFINE w == stat[s].values[i]
             T == stat[s].seen[i]
             e0 == l[i]
  <2>1. /\ Least1(w, {e[2] : e \in T} \cup {Inf})
        /\ stat[s].grp # None => \A e \in T : e[1] = grp[stat[s].grp].objs[i]
    BY <1>2, <1>5, <1>12 DEF ValuesKept
  <2>2. q.values[i] = Lower(w, e0[2]) /\ q.seen[i] = T \cup {e0}
    BY <1>6, <1>9
  <2>3. w \in Int /\ e0 \in Objs \X Int /\ \A e \in T : e[2] \in Int
    BY <1>7
  <2>4. stat[s].grp # None => e0[1] = grp[stat[s].grp].objs[i]
    BY <1>1, <1>2, <1>5 DEF ThreadKept
  <2> HIDE DEF w, T, e0
  <2>5. Least1(Lower(w, e0[2]), {e[2] : e \in T \cup {e0}} \cup {Inf})
    BY <2>1, <2>3, Lowered
  <2>6. Least1(q.values[i], {e[2] : e \in q.seen[i]} \cup {Inf})
    BY <2>2, <2>5
  <2>7. q.grp # None => \A e \in q.seen[i] : e[1] = grp[q.grp].objs[i]
    BY <2>1, <2>2, <2>4, <1>9
  <2> QED BY <2>6, <2>7
<1>13. ValuesKept(s, grp, stat')
  <2>1. Len(q.values) >= 1 /\ Len(q.seen) = Len(q.values)
    BY <1>5, <1>8, <1>9
  <2>2. ASSUME q.ready, NEW i \in 1..Len(q.values)
        PROVE  /\ Least1(q.values[i], {e[2] : e \in q.seen[i]} \cup {Inf})
               /\ q.grp # None => \A e \in q.seen[i] : e[1] = grp[q.grp].objs[i]
    BY <2>2, <1>6, <1>8, <1>9, <1>12
  <2> QED BY <2>1, <2>2, <1>10 DEF ValuesKept
<1>14. Sampled(s, grp, stat, stat', thr, thr')
  <2>1. Len(stat'[s].values) = Len(stat[s].values)
    BY <1>8, <1>9, <1>10
  <2> QED BY <2>1, <1>4, <1>9, <1>10, <1>11, <1>13 DEF Sampled
<1> QED BY <1>1, <1>10, <1>14, SampleKeeps DEF ThreadRecords, Pcs

-------------------------------------------------------------------------------
(* The invariant, and what it says                                             *)

\* The invariant holds before the first call.
LEMMA LibraryInit ==
    ASSUME Init
    PROVE  IInv
<1>1. /\ ctx = [c \in Ctxs |-> None] /\ grp = [g \in Grps |-> None]
      /\ stat = [s \in Stats |-> None] /\ thr = [s \in Stats |-> NoThread]
      /\ die = [s \in Stats |-> FALSE] /\ status = [t \in Statuses |-> None]
      /\ hint = [h \in Hints |-> None] /\ initcount = 0 /\ logctx = FALSE
      /\ main = <<>> /\ failed = FALSE /\ dangling = FALSE /\ prog \in Programs
  BY DEF Init
<1>2. BaseTypes
  <2>1. /\ ctx \in [Ctxs -> ContextRecords \cup {None}]
        /\ status \in [Statuses -> Ctxs \cup {None}]
        /\ hint \in [Hints -> HintRecords \cup {None}]
        /\ main \in Seq(Entries) /\ initcount \in Nat
    BY <1>1
  <2> QED BY <1>1, <2>1, Zenon DEF BaseTypes
<1>3. TableTypes
  BY <1>1 DEF TableTypes, NoThread
<1>4. Contexts(main, ctx, hint)
  <2>1. PlainContexts(ctx, hint)
    BY <1>1 DEF PlainContexts
  <2> QED BY <2>1, <1>1, ReadyContexts
<1>5. Tables(main, ctx, grp, stat, status)
  <2>1. Plain(ctx, grp, stat, status)
    BY <1>1 DEF Plain
  <2> QED BY <2>1, <1>1, ReadyTables
<1>6. /\ Threads(main, grp, stat, thr)
      /\ Whole(main, ctx, stat, thr)
  <2>1. \A s \in Stats : thr[s].pc = "none"
    BY <1>1 DEF NoThread
  <2> QED BY <2>1, <1>1, ReadyThreads, ReadyWhole
<1>7. Values(grp, stat) /\ InOrder(grp)
  BY <1>1 DEF Values, InOrder
<1>8. Counted
  <2>1. Opened(ctx) = {}
    BY <1>1 DEF Opened
  <2>2. Cardinality(Opened(ctx)) = 0
    BY <2>1, FS_EmptySet
  <2>3. logctx = (LogPath /\ initcount > 0)
    <3>1. ~(initcount > 0)
      BY <1>1
    <3> QED BY <3>1, <1>1, Zenon
  <2> QED BY <2>2, <2>3, <1>1 DEF Counted
<1> QED BY <1>1, <1>2, <1>3, <1>4, <1>5, <1>6, <1>7, <1>8 DEF IInv, Sound

\* Every step keeps the invariant.
LEMMA LibraryNext ==
    ASSUME IInv, [Next]_vars
    PROVE  IInv'
<1>1. CASE ContextCall
  BY <1>1, CntxtInitKeeps, CntxtDestroyKeeps DEF ContextCall
<1>2. CASE GroupCall
  BY <1>2, GrpCreateKeeps, ObjGetChildrenKeeps, CntxtGetGrpByNameKeeps, GrpDuplicateKeeps,
     CombineKeeps, GrpAddObjKeeps, GrpDestroyKeeps DEF GroupCall
<1>3. CASE StatisticCall
  BY <1>3, ObjCreateStatKeeps, GrpCreateStatKeeps, StatDestroyKeeps, StatCallKeeps
     DEF StatisticCall
<1>4. CASE OtherCall
  BY <1>4, StatusCreateKeeps, StatusDestroyKeeps, HintCreateKeeps, HintDestroyKeeps
     DEF OtherCall
<1>5. CASE RaiseDie
  BY <1>5, RaiseDieKeeps
<1>6. CASE Work
  BY <1>6, AllWorkKeeps
<1>7. ASSUME NEW s \in Stats, Sample(s) PROVE IInv'
  BY <1>7, SInitKeeps, STestKeeps, SReadKeeps, SUseKeeps, SFailKeeps, SUpdateKeeps DEF Sample
<1>8. CASE UNCHANGED vars
  BY <1>8 DEF vars, IInv, BaseTypes, Counted, Sound, TableTypes
<1> QED BY <1>1, <1>2, <1>3, <1>4, <1>5, <1>6, <1>7, <1>8 DEF Next

\* A least element is the minimum.
LEMMA MinIs ==
    ASSUME NEW v, NEW S \in SUBSET Int, Least1(v, S)
    PROVE  v = Min(S)
<1>1. v \in S /\ \A y \in S : v <= y
  BY DEF Least1
<1>2. ASSUME NEW x \in S, \A y \in S : x <= y PROVE x = v
  <2>1. x <= v /\ v <= x /\ x \in Int /\ v \in Int
    BY <1>1, <1>2
  <2> QED BY <2>1
<1> QED BY <1>1, <1>2 DEF Min

\* The invariant implies the types.
LEMMA InvTypeOK ==
    ASSUME IInv, Careful
    PROVE  TypeOK
<1>1. BaseTypes /\ TableTypes /\ Counted
  BY DEF IInv, Sound
<1>2. initcount \in 0..Cardinality(Ctxs)
  <2>1. Opened(ctx) \in SUBSET Ctxs /\ IsFiniteSet(Ctxs)
    BY LibraryAssumption DEF Opened
  <2>2. Cardinality(Opened(ctx)) <= Cardinality(Ctxs) /\ Cardinality(Ctxs) \in Nat
    BY <2>1, FS_Subset, FS_CardinalityType
  <2>3. initcount \in Nat /\ initcount <= Cardinality(Opened(ctx))
        /\ Cardinality(Opened(ctx)) \in Nat
    BY <1>1, OpenedFinite DEF BaseTypes, Counted
  <2> QED BY <2>2, <2>3
<1>3. main \in Seq([do : Items, on : Ctxs \cup Grps \cup Stats, obj : Objs \cup {0}])
  BY <1>1 DEF BaseTypes, Entries
<1>4. /\ grp \in [Grps -> GroupRecords \cup {None}]
      /\ stat \in [Stats -> StatRecords \cup {None}]
      /\ thr \in [Stats -> [pc : {"none", "init", "test", "read", "use", "update", "done"},
                            i : Nat, reading : Seq(Objs \X Int)]]
      /\ die \in [Stats -> BOOLEAN]
  BY <1>1, Zenon DEF TableTypes
<1>5. /\ prog \in Programs
      /\ ctx \in [Ctxs -> ContextRecords \cup {None}]
      /\ status \in [Statuses -> Ctxs \cup {None}]
      /\ hint \in [Hints -> HintRecords \cup {None}]
      /\ logctx \in BOOLEAN /\ failed \in BOOLEAN /\ dangling \in BOOLEAN
  BY <1>1, Zenon DEF BaseTypes
<1> QED BY <1>2, <1>3, <1>4, <1>5, Zenon DEF TypeOK

\* The invariant implies that the lists agree.
LEMMA InvListsAgree ==
    ASSUME IInv
    PROVE  ListsAgree
<1> SUFFICES ASSUME main = <<>>, ~dangling
    PROVE  /\ \A g \in Live(grp) : Context(grp[g].ctx)
           /\ \A s \in Live(stat) : Context(stat[s].ctx)
           /\ \A c \in Live(ctx) :
                 /\ Context(c)
                 /\ ToSet(ctx[c].groups) = {g \in Live(grp) : grp[g].ctx = c}
                 /\ ToSet(ctx[c].stats) = {s \in Live(stat) : stat[s].ctx = c}
                 /\ ToSet(ctx[c].statuses) = {t \in Live(status) : status[t] = c}
                 /\ IsInjective(ctx[c].groups) /\ IsInjective(ctx[c].stats)
           /\ \A g \in Live(grp) :
                 ~grp[g].freed =>
                     ToSet(grp[g].stats) = {s \in Live(stat) : stat[s].grp = g}
  BY DEF ListsAgree
<1>1. /\ Sound /\ TableTypes /\ BaseTypes
      /\ Plain(ctx, grp, stat, status) /\ PlainContexts(ctx, hint)
  BY ReadyTables, ReadyContexts DEF IInv, Sound
<1>2. /\ Live(grp) = {g \in Grps : grp[g] # None} /\ Live(stat) = {s \in Stats : stat[s] # None}
      /\ Live(ctx) = {c \in Ctxs : ctx[c] # None}
      /\ Live(status) = {t \in Statuses : status[t] # None}
  BY <1>1 DEF Live, TableTypes, BaseTypes
<1>3. None \notin Ctxs
  BY LibraryAssumption
<1>4. ASSUME NEW g \in Grps, grp[g] # None
      PROVE  /\ Context(grp[g].ctx)
             /\ ~grp[g].freed =>
                   ToSet(grp[g].stats) = {s \in Live(stat) : stat[s].grp = g}
  <2>1. PlainGroup(g, ctx, grp, stat) /\ grp[g].ctx \in Ctxs
    BY <1>1, <1>4, GroupHolds DEF Plain
  <2>2. {s \in Live(stat) : stat[s].grp = g}
           = {s \in Stats : stat[s] # None /\ stat[s].grp = g}
    BY <1>2
  <2> QED BY <2>1, <2>2, <1>3 DEF PlainGroup, Context
<1>5. ASSUME NEW s \in Stats, stat[s] # None PROVE Context(stat[s].ctx)
  <2>1. PlainStat(s, ctx, grp, stat) /\ stat[s].ctx \in Ctxs
    BY <1>1, <1>5, StatHolds DEF Plain
  <2> QED BY <2>1, <1>3 DEF PlainStat, Context
<1>6. ASSUME NEW c \in Ctxs, ctx[c] # None
      PROVE  /\ Context(c)
             /\ ToSet(ctx[c].groups) = {g \in Live(grp) : grp[g].ctx = c}
             /\ ToSet(ctx[c].stats) = {s \in Live(stat) : stat[s].ctx = c}
             /\ ToSet(ctx[c].statuses) = {t \in Live(status) : status[t] = c}
             /\ IsInjective(ctx[c].groups) /\ IsInjective(ctx[c].stats)
  <2>1. PlainLists(c, ctx, grp, stat, status) /\ ctx[c].mapped
    BY <1>1, <1>6 DEF Plain, PlainContexts
  <2>2. /\ {g \in Live(grp) : grp[g].ctx = c} = {g \in Grps : grp[g] # None /\ grp[g].ctx = c}
        /\ {s \in Live(stat) : stat[s].ctx = c}
              = {s \in Stats : stat[s] # None /\ stat[s].ctx = c}
        /\ {t \in Live(status) : status[t] = c} = {t \in Statuses : status[t] = c}
    BY <1>2, <1>3
  <2> QED BY <2>1, <2>2, <1>3, <1>6 DEF PlainLists, Context
<1> QED BY <1>2, <1>4, <1>5, <1>6

\* The invariant implies that threads read what exists.
LEMMA InvSamplersOwned ==
    ASSUME IInv, Careful
    PROVE  SamplersOwned
<1>1. ~dangling
  BY DEF IInv
<1>2. ASSUME NEW s \in Stats, thr[s].pc # "none"
      PROVE  /\ stat[s] # None
             /\ ~Invalid(s)
             /\ stat[s].grp # None =>
                   /\ grp[stat[s].grp] # None
                   /\ Len(grp[stat[s].grp].objs) = Len(stat[s].values)
  BY <1>1, <1>2, SampleFacts DEF ThreadKept, Invalid
<1> QED BY <1>1, <1>2 DEF SamplersOwned

\* The invariant implies that the values are minima.
LEMMA InvMinimumSinceStart ==
    ASSUME IInv, Careful
    PROVE  MinimumSinceStart
<1>1. Sound /\ TableTypes
  BY DEF IInv, Sound
<1> SUFFICES ASSUME NEW s \in Stats, stat[s] # None, stat[s].ready,
                    NEW i \in DOMAIN stat[s].values
    PROVE  /\ stat[s].values[i] = Min({r[2] : r \in stat[s].seen[i]} \cup {Inf})
           /\ stat[s].grp # None =>
                 \A r \in stat[s].seen[i] : r[1] = grp[stat[s].grp].objs[i]
  BY <1>1 DEF MinimumSinceStart, Live, TableTypes
<1>2. /\ stat[s].values \in Seq(Int) /\ stat[s].seen \in Seq(SUBSET (Objs \X Int))
      /\ ValuesKept(s, grp, stat)
  BY <1>1, StatHolds DEF Sound, Values
<1>3. i \in 1..Len(stat[s].values) /\ i \in 1..Len(stat[s].seen)
  BY <1>2 DEF ValuesKept
<1>4. /\ Least1(stat[s].values[i], {r[2] : r \in stat[s].seen[i]} \cup {Inf})
      /\ stat[s].grp # None => \A r \in stat[s].seen[i] : r[1] = grp[stat[s].grp].objs[i]
  BY <1>2, <1>3 DEF ValuesKept
<1>5. {r[2] : r \in stat[s].seen[i]} \cup {Inf} \in SUBSET Int
  <2>1. stat[s].seen[i] \in SUBSET (Objs \X Int)
    BY <1>2, <1>3
  <2> QED BY <2>1 DEF Inf
<1> QED BY <1>4, <1>5, MinIs

\* The invariant, with WalkIs, implies that groups are sets.
LEMMA InvGroupsAreSets ==
    ASSUME IInv, Careful
    PROVE  GroupsAreSets
<1>1. Sound /\ TableTypes
  BY DEF IInv, Sound
<1>2. Live(grp) = {g \in Grps : grp[g] # None}
  BY <1>1 DEF Live, TableTypes
<1>3. ASSUME NEW g \in Live(grp)
      PROVE  grp[g].objs \in Seq(Nat) /\ Sorted(grp[g].objs)
  BY <1>1, <1>2, GroupHolds
<1>4. ASSUME NEW g \in Live(grp)
      PROVE  LET At(i) == GrpGetObjByIndx(g, i)
                 inside == 0..(GrpGetNumObjs(g) - 1)
             IN  /\ \A i \in -1..Cardinality(Objs) : (At(i).ret = "SUCCESS") <=> i \in inside
                 /\ \A i, j \in inside : i < j => At(i).obj < At(j).obj
  <2> DEFINE l == grp[g].objs
             inside == 0..(Len(l) - 1)
  <2>1. l \in Seq(Nat) /\ Sorted(l)
    BY <1>3
  <2>2. ASSUME NEW i \in Int
        PROVE  /\ GrpGetObjByIndx(g, i).ret = "SUCCESS" <=> i \in inside
               /\ i \in inside => GrpGetObjByIndx(g, i).obj = l[i + 1]
    BY <2>1 DEF GrpGetObjByIndx
  <2>3. ASSUME NEW i \in inside, NEW j \in inside, i < j
        PROVE  GrpGetObjByIndx(g, i).obj < GrpGetObjByIndx(g, j).obj
    <3>1. i + 1 \in DOMAIN l /\ j + 1 \in DOMAIN l /\ i + 1 < j + 1
      BY <2>1, <2>3
    <3>2. l[i + 1] < l[j + 1]
      BY <3>1, <2>1 DEF Sorted
    <3>3. i \in Int /\ j \in Int
      OBVIOUS
    <3>4. /\ GrpGetObjByIndx(g, i).obj = l[i + 1]
          /\ GrpGetObjByIndx(g, j).obj = l[j + 1]
      BY <3>3, <2>2
    <3> QED BY <3>2, <3>4
  <2>4. ASSUME NEW i \in -1..Cardinality(Objs)
        PROVE  (GrpGetObjByIndx(g, i).ret = "SUCCESS") <=> i \in inside
    <3>1. i \in Int
      OBVIOUS
    <3> QED BY <3>1, <2>2
  <2> QED BY <2>3, <2>4 DEF GrpGetNumObjs
<1>5. ASSUME NEW g \in Live(grp), NEW h \in Live(grp)
      PROVE  LET s == grp[g].objs  t == grp[h].objs
                 Is(walk, S) == /\ ToSet(walk) = S
                                /\ \A i, j \in DOMAIN walk : i < j => walk[i] < walk[j]
             IN  /\ Is(group_union(s, t), ToSet(s) \cup ToSet(t))
                 /\ Is(group_intersection(s, t), ToSet(s) \cap ToSet(t))
                 /\ Is(group_difference(s, t), ToSet(s) \ ToSet(t))
                 /\ Is(group_sym_difference(s, t),
                       (ToSet(s) \ ToSet(t)) \cup (ToSet(t) \ ToSet(s)))
  <2> DEFINE s == grp[g].objs
             t == grp[h].objs
  <2>1. s \in Seq(Nat) /\ Sorted(s) /\ t \in Seq(Nat) /\ Sorted(t)
    BY <1>3
  <2> HIDE DEF s, t
  <2>2. ASSUME NEW l1 \in BOOLEAN, NEW e \in BOOLEAN, NEW l2 \in BOOLEAN
        PROVE  /\ ToSet(Walk(s, t, l1, e, l2)) = Picked(l1, e, l2, ToSet(s), ToSet(t))
               /\ Sorted(Walk(s, t, l1, e, l2))
    BY <2>1, <2>2, WalkIs
  <2>3. /\ Picked(TRUE, TRUE, TRUE, ToSet(s), ToSet(t)) = ToSet(s) \cup ToSet(t)
        /\ Picked(FALSE, TRUE, FALSE, ToSet(s), ToSet(t)) = ToSet(s) \cap ToSet(t)
        /\ Picked(TRUE, FALSE, FALSE, ToSet(s), ToSet(t)) = ToSet(s) \ ToSet(t)
        /\ Picked(TRUE, FALSE, TRUE, ToSet(s), ToSet(t))
              = (ToSet(s) \ ToSet(t)) \cup (ToSet(t) \ ToSet(s))
    BY DEF Picked
  <2>4. /\ ToSet(group_union(s, t)) = ToSet(s) \cup ToSet(t)
        /\ Sorted(group_union(s, t))
    BY <2>2, <2>3 DEF group_union
  <2>5. /\ ToSet(group_intersection(s, t)) = ToSet(s) \cap ToSet(t)
        /\ Sorted(group_intersection(s, t))
    BY <2>2, <2>3 DEF group_intersection
  <2>6. /\ ToSet(group_difference(s, t)) = ToSet(s) \ ToSet(t)
        /\ Sorted(group_difference(s, t))
    BY <2>2, <2>3 DEF group_difference
  <2>7. /\ ToSet(group_sym_difference(s, t))
              = (ToSet(s) \ ToSet(t)) \cup (ToSet(t) \ ToSet(s))
        /\ Sorted(group_sym_difference(s, t))
    BY <2>2, <2>3 DEF group_sym_difference
  <2> QED BY <2>4, <2>5, <2>6, <2>7 DEF Sorted, s, t
<1> QED BY <1>4, <1>5 DEF GroupsAreSets

\* The invariant implies that the hint log is open when it should be.
LEMMA InvHintLogOpen ==
    ASSUME IInv
    PROVE  HintLogOpen
<1>1. Opened(ctx) = {c \in Ctxs : Context(c)}
  BY LibraryAssumption DEF Opened, Context
<1> QED BY <1>1 DEF IInv, Counted, HintLogOpen

\* The variables stay in their ranges while an application stops a statistic
\* before it destroys the context; _initcount of hint.c never exceeds the number
\* of contexts, whatever fails.
THEOREM LibraryTypes == ASSUME Careful PROVE Spec => []TypeOK
<1>1. IInv => TypeOK
  BY InvTypeOK
<1> QED BY LibraryInit, LibraryNext, <1>1, PTL DEF Spec

\* Between two calls every list of context_t holds exactly the groups, statistics
\* and statuses made from the context, and a group lists the statistics on it,
\* for every application: del_context, del_group and del_stat leave nothing
\* behind and free nothing twice unless freed memory was used before.
THEOREM ListsAlwaysAgree == Spec => []ListsAgree
<1>1. IInv => ListsAgree
  BY InvListsAgree
<1> QED BY LibraryInit, LibraryNext, <1>1, PTL DEF Spec

\* With a careful application no thread of calculate_stat reads a statistic, a
\* group or an object that was freed, or a group that changed under it:
\* group_invalidate_statistics and del_stat join it first.
THEOREM SamplersAlwaysOwned == ASSUME Careful PROVE Spec => []SamplersOwned
<1>1. IInv => SamplersOwned
  BY InvSamplersOwned
<1> QED BY LibraryInit, LibraryNext, <1>1, PTL DEF Spec

\* With a careful application the values of a statistic are the minima of what
\* calculate_stat read since the statistic was started, value i from the i-th
\* object of its group, whatever calls come in between.
THEOREM ValuesAlwaysMinima == ASSUME Careful PROVE Spec => []MinimumSinceStart
<1>1. IInv => MinimumSinceStart
  BY InvMinimumSinceStart
<1> QED BY LibraryInit, LibraryNext, <1>1, PTL DEF Spec

\* Groups of any size stay in address order without duplicates; the walks of
\* group_union, group_intersection, group_difference and group_sym_difference
\* give on any two of them the set operation they are named for, in order.
THEOREM GroupsAlwaysSets == ASSUME Careful PROVE Spec => []GroupsAreSets
<1>1. IInv => GroupsAreSets
  BY InvGroupsAreSets
<1> QED BY LibraryInit, LibraryNext, <1>1, PTL DEF Spec

\* However contexts come and go, the hint log is open exactly while there is a
\* context and a path, unless building a context failed (app_hint_init and
\* app_hint_term count them).
THEOREM HintLogAlwaysOpen == Spec => []HintLogOpen
<1>1. IInv => HintLogOpen
  BY InvHintLogOpen
<1> QED BY LibraryInit, LibraryNext, <1>1, PTL DEF Spec
=============================================================================
