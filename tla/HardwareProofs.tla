--------------------------- MODULE HardwareProofs ----------------------------
(***************************************************************************)
(* Theorems about the hierarchy that the x86 plugin builds (X86) and the   *)
(* sleep and performance states (CpuDev), for any machine.                 *)
(***************************************************************************)
EXTENDS CpuDev, FiniteSetTheorems, WellFoundedInduction, TLAPS

(***************************************************************************)
(* Lists of numbers in order.                                              *)
(***************************************************************************)
\* Every nonempty set of numbers has a least element.
LEMMA Least ==
    ASSUME NEW T \in SUBSET Nat, T # {}
    PROVE  \E x \in T : \A y \in T : x <= y
<1> DEFINE R == {ss \in Nat \X Nat : ss[1] < ss[2]}
<1>1. IsWellFoundedOn(R, Nat)
  BY NatLessThanWellFounded, Zenon DEF OpToRel
<1>2. \A x, y \in Nat : y < x => <<y, x>> \in R
  OBVIOUS
<1> HIDE DEF R
<1>3. PICK x \in T : \A y \in T : ~ (<<y, x>> \in R)
  BY <1>1, WFMin
<1>4. ASSUME NEW y \in T PROVE x <= y
  <2>1. x \in Nat /\ y \in Nat
    OBVIOUS
  <2>2. ~ (y < x)
    BY <2>1, <1>2, <1>3
  <2> QED BY <2>1, <2>2
<1> QED BY <1>4

\* s lists the elements of S in order.
Increases(s, S) ==
    /\ Cardinality(S) \in Nat
    /\ s \in [1..Cardinality(S) -> S]
    /\ \A i, j \in 1..Cardinality(S) : i < j => s[i] < s[j]

\* An increasing list of as many elements as S has misses none.
LEMMA IncreasesOnto ==
    ASSUME NEW S \in SUBSET Nat, IsFiniteSet(S), NEW s, Increases(s, S), NEW x \in S
    PROVE  \E i \in 1..Cardinality(S) : s[i] = x
<1> DEFINE n == Cardinality(S)
<1>1. n \in Nat /\ s \in [1..n -> S]
  BY DEF Increases
<1>2. IsFiniteSet(1..n) /\ Cardinality(1..n) = n
  BY <1>1, FS_Interval
<1>3. \A i, j \in 1..n : s[i] = s[j] => i = j
  <2>1. ASSUME NEW i \in 1..n, NEW j \in 1..n, s[i] = s[j], i # j PROVE FALSE
    <3>1. s[i] \in Nat /\ s[j] \in Nat
      BY <1>1
    <3>2. i < j \/ j < i
      BY <1>1, <2>1
    <3> QED BY <2>1, <3>1, <3>2 DEF Increases
  <2> QED BY <2>1
<1>4. s \in Injection(1..n, S)
  BY <1>1, <1>3 DEF Injection, IsInjective
<1>5. s \in Surjection(1..n, S)
  BY <1>2, <1>4, FS_Injection
<1> QED BY <1>5 DEF Surjection

\* InOrder lists a finite set in order: the list that gives each element the
\* place of its rank shows that there is one.
LEMMA InOrderIs ==
    ASSUME NEW S \in SUBSET Nat, IsFiniteSet(S)
    PROVE  Increases(InOrder(S), S)
<1> DEFINE n == Cardinality(S)
           upto(x) == {y \in S : y <= x}
           r == [x \in S |-> Cardinality(upto(x))]
           q == [k \in 1..n |-> CHOOSE x \in S : r[x] = k]
<1>1. n \in Nat
  BY FS_CardinalityType
<1>2. ASSUME NEW x \in S
      PROVE  IsFiniteSet(upto(x)) /\ Cardinality(upto(x)) \in 1..n
  <2>1. upto(x) \in SUBSET S /\ x \in upto(x)
    OBVIOUS
  <2> HIDE DEF upto
  <2>2. IsFiniteSet(upto(x)) /\ Cardinality(upto(x)) <= n
    BY <2>1, FS_Subset
  <2>3. Cardinality(upto(x)) \in Nat /\ Cardinality(upto(x)) # 0
    BY <2>1, <2>2, FS_CardinalityType, FS_EmptySet
  <2> QED BY <1>1, <2>2, <2>3
<1>3. ASSUME NEW x \in S, NEW y \in S, x < y
      PROVE  Cardinality(upto(x)) < Cardinality(upto(y))
  <2>0. x \in Nat /\ y \in Nat /\ \A z \in S : z \in Nat
    OBVIOUS
  <2>1. /\ upto(x) \in SUBSET upto(y)
        /\ y \in upto(y) /\ y \notin upto(x)
    <3>1. \A z \in S : z <= x => z <= y
      BY <1>3, <2>0
    <3>2. y <= y /\ ~(y <= x)
      BY <1>3, <2>0
    <3> QED BY <3>1, <3>2
  <2>2. /\ Cardinality(upto(x)) \in 1..n /\ Cardinality(upto(y)) \in 1..n
        /\ IsFiniteSet(upto(y))
    BY <1>2
  <2> HIDE DEF upto
  <2>3. /\ Cardinality(upto(x)) <= Cardinality(upto(y))
        /\ Cardinality(upto(x)) = Cardinality(upto(y)) => upto(x) = upto(y)
    BY <2>1, <2>2, FS_Subset
  <2> QED BY <1>1, <2>1, <2>2, <2>3
<1>4. /\ r \in [S -> 1..n]
      /\ \A x, y \in S : x < y => r[x] < r[y]
  BY <1>2, <1>3
<1> HIDE DEF r
<1>5. r \in Injection(S, 1..n)
  <2>1. ASSUME NEW x \in S, NEW y \in S, r[x] = r[y], x # y PROVE FALSE
    <3>1. (x < y \/ y < x) /\ r[x] \in Nat /\ r[y] \in Nat
      BY <2>1, <1>4
    <3> QED BY <3>1, <2>1, <1>4
  <2> QED BY <2>1, <1>4 DEF Injection, IsInjective
<1>6. r \in Surjection(S, 1..n)
  <2>1. IsFiniteSet(1..n) /\ Cardinality(1..n) = n
    BY <1>1, FS_Interval
  <2> QED BY <2>1, <1>5, FS_Injection
<1>7. \A k \in 1..n : q[k] \in S /\ r[q[k]] = k
  BY <1>6, Zenon DEF Surjection
<1>8. q \in [1..n -> S]
  BY <1>7, Zenon
<1> HIDE DEF q
<1>9. \A i, j \in 1..n : i < j => q[i] < q[j]
  <2>1. ASSUME NEW i \in 1..n, NEW j \in 1..n, i < j PROVE q[i] < q[j]
    <3>0. q[i] \in S /\ q[j] \in S
      BY <1>7
    <3>1. \A z \in S : z \in Nat
      OBVIOUS
    <3>2. q[i] \in Nat /\ q[j] \in Nat
      BY <3>0, <3>1
    <3>3. i \in Nat /\ j \in Nat
      BY <1>1
    <3>4. q[i] # q[j]
      BY <1>7, <2>1, <3>0, <3>2, <3>3
    <3>5. ~(q[j] < q[i])
      BY <1>4, <1>7, <2>1, <3>0, <3>2, <3>3
    <3> QED BY <3>2, <3>4, <3>5
  <2> QED BY <2>1
<1>10. DOMAIN q = 1..n
  BY <1>8
<1>11. \E s \in [1..n -> S] : \A i, j \in DOMAIN s : i < j => s[i] < s[j]
  BY <1>8, <1>9, <1>10
<1>12. /\ InOrder(S) \in [1..n -> S]
       /\ \A i, j \in DOMAIN InOrder(S) : i < j => InOrder(S)[i] < InOrder(S)[j]
  BY <1>11, Zenon DEF InOrder
<1> QED BY <1>1, <1>12 DEF Increases

(***************************************************************************)
(* The list of the online CPUs, printed by the kernel and parsed.          *)
(***************************************************************************)
\* e is the end of the run of S that contains b.
EndOfRun(S, b, e) == e \in S /\ b <= e /\ b..e \subseteq S /\ e + 1 \notin S

\* Every element of a finite set is in a run that ends.
LEMMA RunEnds ==
    ASSUME NEW S \in SUBSET Nat, IsFiniteSet(S), NEW b \in S
    PROVE  \E e \in S : EndOfRun(S, b, e)
<1> DEFINE n == Cardinality(S)
           s == InOrder(S)
           T == {e \in Nat : b <= e /\ e + 1 \notin S}
<1>1. b \in Nat /\ \A x \in S : x \in Nat
  OBVIOUS
<1>2. Increases(s, S)
  BY InOrderIs
<1> HIDE DEF s
<1>3. n \in Nat /\ n # 0
  BY FS_CardinalityType, FS_EmptySet
<1>4. s[n] \in S /\ \A x \in S : x <= s[n]
  <2>1. s[n] \in S /\ s[n] \in Nat
    <3>1. s \in [1..n -> S] /\ n \in 1..n
      BY <1>2, <1>3 DEF Increases
    <3> QED BY <1>1, <3>1
  <2>2. ASSUME NEW x \in S PROVE x <= s[n]
    <3>1. PICK i \in 1..n : s[i] = x
      BY <1>2, IncreasesOnto
    <3>2. i = n \/ i < n
      BY <1>3
    <3> QED BY <1>1, <1>2, <1>3, <2>1, <3>1, <3>2 DEF Increases
  <2> QED BY <2>1, <2>2
<1>5. s[n] \in T
  <2>0. s[n] \in Nat
    BY <1>1, <1>4
  <2>1. s[n] \in Nat /\ b <= s[n] /\ ~(s[n] + 1 <= s[n])
    BY <1>4, <2>0
  <2>2. s[n] + 1 \notin S
    BY <1>4, <2>1
  <2> QED BY <2>1, <2>2
<1>6. T \in SUBSET Nat /\ T # {}
  BY <1>5
<1>7. PICK e \in T : \A y \in T : e <= y
  BY <1>6, Least
<1>8. \A y \in b..e : y \in S
  <2>1. ASSUME NEW y \in b..e, y \notin S PROVE FALSE
    <3>1. y \in Nat /\ y # b /\ e \in Nat
      BY <1>1, <2>1
    <3>2. y - 1 \in Nat /\ b <= y - 1 /\ (y - 1) + 1 = y /\ y - 1 < e
      BY <1>1, <2>1, <3>1
    <3>3. y - 1 \in T
      BY <2>1, <3>2
    <3> QED BY <1>7, <3>1, <3>2, <3>3
  <2> QED BY <2>1
<1>9. e \in S /\ b <= e /\ e + 1 \notin S
  BY <1>1, <1>8
<1> QED BY <1>8, <1>9 DEF EndOfRun

\* Every element of a set is in a run that begins.
LEMMA RunBegins ==
    ASSUME NEW S \in SUBSET Nat, NEW x \in S
    PROVE  \E b \in S : b - 1 \notin S /\ b <= x /\ b..x \subseteq S
<1> DEFINE T == {b \in S : b <= x /\ b..x \subseteq S}
<1>1. x \in Nat /\ \A y \in S : y \in Nat
  OBVIOUS
<1>2. x \in T
  BY <1>1
<1>3. T \in SUBSET Nat /\ T # {}
  BY <1>2
<1>4. PICK b \in T : \A y \in T : b <= y
  BY <1>3, Least
<1>5. b \in S /\ b \in Nat
  BY <1>1
<1>6. ASSUME b - 1 \in S PROVE FALSE
  <2>1. b - 1 \in Nat /\ b - 1 <= x /\ b - 1 < b
    BY <1>1, <1>5, <1>6
  <2>2. \A y \in (b - 1)..x : y = b - 1 \/ y \in b..x
    BY <1>1, <1>5
  <2>3. (b - 1)..x \subseteq S
    BY <1>6, <2>2
  <2>4. b - 1 \in T
    BY <1>6, <2>1, <2>3
  <2> QED BY <1>4, <1>5, <2>1, <2>4
<1> QED BY <1>5, <1>6

\* The numbers of a range whose increment is 1.
LEMMA RangeIs ==
    ASSUME NEW b \in Nat, NEW e \in Nat, b <= e
    PROVE  /\ RangeBits([beg |-> b, end |-> e, inc |-> 1]) = b..e
           /\ Sane([beg |-> b, end |-> e, inc |-> 1])
<1> DEFINE r == [beg |-> b, end |-> e, inc |-> 1]
<1>1. r.beg = b /\ r.end = e /\ r.inc = 1
  OBVIOUS
<1>2. (e - b) \div 1 = e - b /\ e - b \in Nat
  OBVIOUS
<1>3. \A y \in b..e : y - b \in 0..(e - b) /\ y = b + (y - b) * 1
  BY <1>2
<1>4. \A k \in 0..(e - b) : b + k * 1 \in b..e
  BY <1>2
<1> HIDE DEF r
<1>5. RangeBits(r) = {b + k * 1 : k \in 0..(e - b)}
  BY <1>1, <1>2 DEF RangeBits
<1>6. RangeBits(r) = b..e
  BY <1>3, <1>4, <1>5
<1>7. Sane(r)
  BY <1>1 DEF Sane
<1> QED BY <1>6, <1>7 DEF r

\* The parser gives back the CPUs that were printed and fit in the mask: the
\* ranges come in order and do not touch, so that all those before a range
\* with a number in the mask are in the mask.
LEMMA ListParsed ==
    ASSUME NEW S \in SUBSET Nat, IsFiniteSet(S), NEW used \in Nat
    PROVE  x86_list_parse_bitmask(CpuList(S), used) = {b \in S : b < used}
<1> DEFINE F == {b \in S : b - 1 \notin S}
           first == InOrder(F)
           n == Cardinality(F)
           lastOf(b) == CHOOSE e \in S : EndOfRun(S, b, e)
           list == CpuList(S)
<1>1. \A x \in S : x \in Nat
  OBVIOUS
<1>2. F \in SUBSET Nat /\ F \in SUBSET S
  OBVIOUS
<1>3. IsFiniteSet(F)
  BY <1>2, FS_Subset
<1>4. n \in Nat /\ first \in [1..n -> F] /\ \A i, j \in 1..n : i < j => first[i] < first[j]
  <2> HIDE DEF F
  <2> QED BY <1>2, <1>3, InOrderIs DEF Increases
<1>5. \A x \in F : \E k \in 1..n : first[k] = x
  <2> HIDE DEF F
  <2> QED BY <1>2, <1>3, InOrderIs, IncreasesOnto
<1>6. \A b \in S : EndOfRun(S, b, lastOf(b))
  BY RunEnds
<1>7. list = [k \in 1..n |-> [beg |-> first[k], end |-> lastOf(first[k]), inc |-> 1]]
  <2>1. DOMAIN first = 1..n
    BY <1>4
  <2> QED BY <2>1 DEF CpuList, EndOfRun
<1> HIDE DEF lastOf, list, first, n
<1>8. ASSUME NEW k \in 1..n
      PROVE  /\ first[k] \in F /\ first[k] \in S /\ first[k] \in Nat
             /\ lastOf(first[k]) \in Nat
             /\ EndOfRun(S, first[k], lastOf(first[k]))
             /\ Sane(list[k]) /\ RangeBits(list[k]) = first[k]..lastOf(first[k])
  <2>1. first[k] \in F
    BY <1>4
  <2>2. first[k] \in S /\ first[k] \in Nat
    BY <2>1, <1>1, <1>2
  <2>3. EndOfRun(S, first[k], lastOf(first[k]))
    BY <1>6, <2>2
  <2>4. lastOf(first[k]) \in Nat /\ first[k] <= lastOf(first[k])
    BY <1>1, <2>3 DEF EndOfRun
  <2>5. list[k] = [beg |-> first[k], end |-> lastOf(first[k]), inc |-> 1]
    BY <1>7
  <2> QED BY <2>1, <2>2, <2>3, <2>4, <2>5, RangeIs
<1>9. ASSUME NEW j \in 1..n, NEW k \in 1..n, j < k PROVE lastOf(first[j]) < first[k]
  <2>1. first[j] < first[k] /\ first[j] \in Nat /\ first[k] \in Nat /\ lastOf(first[j]) \in Nat
    BY <1>4, <1>8, <1>9
  <2>2. first[k] - 1 \notin S
    BY <1>8
  <2>3. ASSUME first[k] <= lastOf(first[j]) PROVE FALSE
    <3>1. first[k] - 1 \in first[j]..lastOf(first[j])
      BY <2>1, <2>3
    <3>2. first[j]..lastOf(first[j]) \subseteq S
      BY <1>8 DEF EndOfRun
    <3> QED BY <2>2, <3>1, <3>2
  <2> QED BY <2>1, <2>3
<1> DEFINE whole(k) == Sane(list[k]) /\ \A b \in RangeBits(list[k]) : b < used
           reached == {k \in DOMAIN list : \A j \in 1..(k - 1) : whole(j)}
<1>10. x86_list_parse_bitmask(list, used) =
         UNION {{b \in RangeBits(list[k]) : b < used} : k \in {k \in reached : Sane(list[k])}}
  BY DEF x86_list_parse_bitmask
<1>11. DOMAIN list = 1..n
  BY <1>7
<1>12. ASSUME NEW x \in S, x < used
       PROVE  \E k \in reached : Sane(list[k]) /\ x \in RangeBits(list[k])
  <2>1. PICK b \in S : b - 1 \notin S /\ b <= x /\ b..x \subseteq S
    BY RunBegins
  <2>2. b \in F
    BY <2>1
  <2>3. PICK k \in 1..n : first[k] = b
    BY <1>5, <2>2
  <2>4. x \in Nat /\ b \in Nat /\ lastOf(b) \in Nat /\ EndOfRun(S, b, lastOf(b))
    BY <1>1, <1>8, <2>3
  <2>5. ASSUME lastOf(b) < x PROVE FALSE
    <3>1. lastOf(b) + 1 \in b..x
      BY <2>4, <2>5 DEF EndOfRun
    <3> QED BY <2>1, <2>4, <3>1 DEF EndOfRun
  <2>6. x \in b..lastOf(b)
    BY <2>1, <2>4, <2>5
  <2>7. x \in RangeBits(list[k]) /\ Sane(list[k])
    BY <1>8, <2>3, <2>6
  <2>8. ASSUME NEW j \in 1..(k - 1) PROVE whole(j)
    <3>0. n \in Nat /\ k \in Nat
      BY <1>4
    <3>1. j \in 1..n /\ j < k
      BY <3>0
    <3>2. lastOf(first[j]) < b /\ lastOf(first[j]) \in Nat
      BY <1>8, <1>9, <2>3, <3>1
    <3>3. Sane(list[j]) /\ RangeBits(list[j]) = first[j]..lastOf(first[j]) /\ first[j] \in Nat
      BY <1>8, <3>1
    <3>4. \A y \in first[j]..lastOf(first[j]) : y < used
      BY <1>12, <2>1, <2>4, <3>2, <3>3
    <3> QED BY <3>3, <3>4
  <2>9. k \in reached
    BY <1>11, <2>8
  <2> QED BY <2>7, <2>9
<1>13. ASSUME NEW k \in reached, NEW x \in RangeBits(list[k]) PROVE x \in S
  <2>1. k \in 1..n
    BY <1>11
  <2> QED BY <1>8, <2>1 DEF EndOfRun
<1> HIDE DEF reached, whole
<1>14. UNION {{b \in RangeBits(list[k]) : b < used} : k \in {k \in reached : Sane(list[k])}} =
         {b \in S : b < used}
  <2> DEFINE bits(k) == {b \in RangeBits(list[k]) : b < used}
             good == {k \in reached : Sane(list[k])}
  <2>1. ASSUME NEW x \in S, x < used PROVE \E k \in good : x \in bits(k)
    BY <1>12, <2>1
  <2>2. ASSUME NEW k \in good, NEW x \in bits(k) PROVE x \in S /\ x < used
    BY <1>13
  <2> HIDE DEF bits, good
  <2>3. UNION {bits(k) : k \in good} = {b \in S : b < used}
    BY <2>1, <2>2
  <2> QED BY <2>3 DEF bits, good
<1> QED BY <1>10, <1>14 DEF list

(***************************************************************************)
(* The invariant of the construction.                                      *)
(***************************************************************************)
\* The possible CPUs have no holes below the largest: without this the
\* hardware thread that x86_read_topology numbers by counting is not the one
\* whose topology files it reads.
NoHole == \A i \in Cpus : 0..i \subseteq Cpus

\* Every CPU has a bit in the masks.
InMask == \A i \in Cpus : i < Machine.max

Metadata ==
    [rate : Int, window : Int,
     cstate : {<<>>, [k \in 1..Machine.cstates |-> k - 1]},
     freq : {<<>>, InOrder(Machine.freqs)}, gov : {<<>>, Machine.govs},
     node : BOOLEAN, socket : BOOLEAN]

MdOK == md \in Metadata

\* The object n of a hierarchy t: it is below an object of the hierarchy, a
\* core is below its socket and has a hardware thread, a socket has a memory.
ObjOK(t, n) ==
    /\ t[n] = [parent |-> t[n].parent, via |-> t[n].via, temp |-> t[n].temp]
    /\ n # Node => t[n].parent \in DOMAIN t
    /\ n[1] = "ht" => n = <<"ht", n[2]>> /\ n[2] \in Cpus /\ t[n].parent[1] = "core"
    /\ n[1] = "core" =>
          /\ t[n].parent = <<"socket", n[2]>>
          /\ \E h \in Cpus : <<"ht", h>> \in DOMAIN t /\ t[<<"ht", h>>].parent = n
    /\ n[1] = "socket" => <<"mem", n[2]>> \in DOMAIN t

TreeOK(t) == \A n \in DOMAIN t : ObjOK(t, n)

Jobs == [ctx : Ctxs \cup {NoCtx}, pc : {"idle", "info", "meta", "cpu", "temp"},
         i : Nat, ht : Nat, possible : SUBSET Nat, seen : SUBSET Nat,
         status : {"SUCCESS", "FAILURE"}]

\* The construction: the masks are what was online when they were read, and
\* the loop over the CPUs has added a hardware thread for each bit it passed.
JobOK ==
    /\ job \in Jobs
    /\ job.pc = "idle" => job = Idle
    /\ job.pc # "idle" =>
          /\ job.ctx \in Ctxs /\ Node \in DOMAIN tree[job.ctx]
          /\ Hts(tree[job.ctx]) = {h \in job.seen : h < job.i}
    /\ job.pc \in {"info", "meta"} => job.i = 0 /\ job.ht = 0
    /\ job.pc \in {"meta", "cpu", "temp"} =>
          /\ job.possible = {i \in Cpus : i < Machine.max}
          /\ job.seen \subseteq job.possible
          /\ \A i \in job.possible \ unplugged : i \in job.seen <=> i \in online
    /\ job.i = 0 \/ job.i - 1 \in job.possible => job.ht = job.i
    /\ job.pc = "temp" => job.i >= Machine.max

XInv ==
    /\ online \subseteq Cpus
    /\ DOMAIN tree = Ctxs
    /\ MdOK
    /\ JobOK
    /\ \A c \in Ctxs : TreeOK(tree[c])

\* An object is where the topology files say, if its CPU was left alone.
InPlace(t, n) ==
    /\ n[1] = "ht" /\ n[2] \notin unplugged =>
          t[n].parent = <<"core", Machine.topo[n[2]][1], Machine.topo[n[2]][2]>>
    /\ n[1] = "socket" /\ t[n].via \notin unplugged =>
          Machine.topo[t[n].via][1] = n[2]

\* What holds when the program has one context at a time.
AloneInv ==
    /\ \A c, d \in Ctxs : tree[c] # NoTree /\ tree[d] # NoTree => c = d
    /\ \A c \in Ctxs : \A n \in DOMAIN tree[c] : InPlace(tree[c], n)
    /\ \A c \in Ctxs : Live(c) /\ unplugged = {} =>
                           Hts(tree[c]) = {i \in online : i < Machine.max}

(***************************************************************************)
(* The steps of the construction.                                          *)
(***************************************************************************)
\* A hierarchy u that is t with the objects of the hardware thread h, in core
\* k of socket s.
Grown(t, u, s, k, h) ==
    /\ DOMAIN t \subseteq DOMAIN u
    /\ \A n \in DOMAIN u :
          \/ n \in DOMAIN t /\ u[n] = t[n]
          \/ n = <<"socket", s>> /\ u[n] = NewObj(Node, h)
          \/ n = <<"mem", s>> /\ u[n] = NewObj(<<"socket", s>>, h)
          \/ n = <<"core", s, k>> /\ u[n] = NewObj(<<"socket", s>>, h)
          \/ n = <<"ht", h>> /\ u[n] = NewObj(<<"core", s, k>>, h)
    /\ <<"socket", s>> \in DOMAIN u =>
          <<"socket", s>> \in DOMAIN t \/ <<"mem", s>> \in DOMAIN u

\* u is t with the object name below parent.
Insertion(u, t, parent, name, via) ==
    /\ DOMAIN u = DOMAIN t \cup {name}
    /\ u[name] = NewObj(parent, via)
    /\ \A n \in DOMAIN t : n # name => u[n] = t[n]

\* What hierarchy_insert leaves behind.
LEMMA Inserted ==
    ASSUME NEW t, NEW parent, NEW name, NEW via
    PROVE  Insertion(hierarchy_insert(t, parent, name, via), t, parent, name, via)
BY DEF Insertion, hierarchy_insert

\* A package is there after it was looked for, with its memory if it is new.
LEMMA SocketFound ==
    ASSUME NEW t, NEW s, NEW k, NEW h, NEW r, r = x86_find_socket(t, s, h), r.found
    PROVE  Grown(t, r.tree, s, k, h) /\ <<"socket", s>> \in DOMAIN r.tree
<1>1. CASE <<"socket", s>> \in DOMAIN t
  <2>1. r = [found |-> TRUE, tree |-> t]
    BY <1>1, Zenon DEF x86_find_socket
  <2>2. r.tree = t
    BY <2>1
  <2> QED BY <1>1, <2>2 DEF Grown
<1>2. CASE <<"socket", s>> \notin DOMAIN t
  <2> DEFINE u == hierarchy_insert(t, Node, <<"socket", s>>, h)
             v == hierarchy_insert(u, <<"socket", s>>, <<"mem", s>>, h)
  <2>1. s \in Machine.rapl
    BY <1>2 DEF x86_find_socket
  <2>2. r = [found |-> TRUE, tree |-> v]
    BY <1>2, <2>1, Zenon DEF x86_find_socket
  <2>3. r.tree = v
    BY <2>2
  <2>4. Insertion(u, t, Node, <<"socket", s>>, h)
    BY Inserted, Zenon
  <2>5. Insertion(v, u, <<"socket", s>>, <<"mem", s>>, h)
    BY Inserted, Zenon
  <2> HIDE DEF u, v
  <2>6. Grown(t, v, s, k, h)
    <3>1. ASSUME NEW n \in DOMAIN v
          PROVE  \/ n \in DOMAIN t /\ v[n] = t[n]
                 \/ n = <<"socket", s>> /\ v[n] = NewObj(Node, h)
                 \/ n = <<"mem", s>> /\ v[n] = NewObj(<<"socket", s>>, h)
      BY <1>2, <2>4, <2>5, Zenon DEF Insertion
    <3> QED BY <2>4, <2>5, <3>1, Zenon DEF Grown, Insertion
  <2> QED BY <2>3, <2>4, <2>5, <2>6, Zenon DEF Insertion
<1> QED BY <1>1, <1>2

\* A core is there after it was looked for, and the socket it is below.
LEMMA CoreFound ==
    ASSUME NEW t, NEW s, NEW k, NEW h, NEW r, r = x86_find_core(t, s, k, h), r.found
    PROVE  Grown(t, r.tree, s, k, h) /\ <<"core", s, k>> \in DOMAIN r.tree
           /\ (<<"core", s, k>> \in DOMAIN t \/ <<"socket", s>> \in DOMAIN r.tree)
<1>1. CASE <<"core", s, k>> \in DOMAIN t
  <2>1. r = [found |-> TRUE, tree |-> t]
    BY <1>1, Zenon DEF x86_find_core
  <2>2. r.tree = t
    BY <2>1
  <2> QED BY <1>1, <2>2 DEF Grown
<1>2. CASE <<"core", s, k>> \notin DOMAIN t
  <2> DEFINE q == x86_find_socket(t, s, h)
             u == q.tree
             v == hierarchy_insert(u, <<"socket", s>>, <<"core", s, k>>, h)
  <2>1. q.found
    BY <1>2 DEF x86_find_core
  <2>2. r = [found |-> TRUE, tree |-> v]
    BY <1>2, <2>1, Zenon DEF x86_find_core
  <2>3. r.tree = v
    BY <2>2
  <2>4. Grown(t, u, s, k, h) /\ <<"socket", s>> \in DOMAIN u
    BY <2>1, SocketFound
  <2>5. Insertion(v, u, <<"socket", s>>, <<"core", s, k>>, h)
    BY Inserted, Zenon
  <2> HIDE DEF u, v
  <2>6. Grown(t, v, s, k, h)
    BY <2>4, <2>5 DEF Grown, Insertion
  <2> QED BY <2>3, <2>4, <2>5, <2>6, Zenon DEF Insertion
<1> QED BY <1>1, <1>2

\* A hardware thread is added with the core and the socket it is below.
LEMMA HtFound ==
    ASSUME NEW t, NEW h, NEW r, r = x86_find_ht(t, h), r.found, <<"ht", h>> \notin DOMAIN t
    PROVE  /\ Grown(t, r.tree, Package(h), CoreOf(h), h)
           /\ <<"ht", h>> \in DOMAIN r.tree
           /\ r.tree[<<"ht", h>>] = NewObj(<<"core", Package(h), CoreOf(h)>>, h)
           /\ <<"core", Package(h), CoreOf(h)>> \in DOMAIN r.tree
           /\ \/ <<"core", Package(h), CoreOf(h)>> \in DOMAIN t
              \/ <<"socket", Package(h)>> \in DOMAIN r.tree
<1> DEFINE s == Package(h)
           k == CoreOf(h)
           q == x86_find_core(t, s, k, h)
           u == q.tree
           v == hierarchy_insert(u, <<"core", s, k>>, <<"ht", h>>, h)
<1>1. q.found
  BY DEF x86_find_ht
<1>2. r = [found |-> TRUE, tree |-> v]
  BY <1>1, Zenon DEF x86_find_ht
<1>3. r.tree = v
  BY <1>2
<1>4. /\ Grown(t, u, s, k, h) /\ <<"core", s, k>> \in DOMAIN u
      /\ <<"core", s, k>> \in DOMAIN t \/ <<"socket", s>> \in DOMAIN u
  BY <1>1, CoreFound
<1>5. Insertion(v, u, <<"core", s, k>>, <<"ht", h>>, h)
  BY Inserted, Zenon
<1> HIDE DEF u, v, q, s, k
<1>6. Grown(t, v, s, k, h)
  BY <1>4, <1>5 DEF Grown, Insertion
<1>7. /\ <<"ht", h>> \in DOMAIN v /\ v[<<"ht", h>>] = NewObj(<<"core", s, k>>, h)
      /\ <<"core", s, k>> \in DOMAIN v
      /\ <<"core", s, k>> \in DOMAIN t \/ <<"socket", s>> \in DOMAIN v
  BY <1>4, <1>5, Zenon DEF Insertion
<1> QED BY <1>3, <1>6, <1>7, Zenon DEF s, k

\* The hardware threads of a hierarchy are numbered by what follows "ht".
LEMMA HtsIs ==
    ASSUME NEW t, TreeOK(t), NEW h
    PROVE  h \in Hts(t) <=> <<"ht", h>> \in DOMAIN t
<1>1. ASSUME h \in Hts(t) PROVE <<"ht", h>> \in DOMAIN t
  <2>1. PICK n \in DOMAIN t : n[1] = "ht" /\ n[2] = h
    BY <1>1 DEF Hts
  <2> QED BY <2>1 DEF TreeOK, ObjOK
<1>2. ASSUME <<"ht", h>> \in DOMAIN t PROVE h \in Hts(t)
  <2>1. <<"ht", h>>[1] = "ht" /\ <<"ht", h>>[2] = h
    OBVIOUS
  <2> QED BY <1>2, <2>1, Zenon DEF Hts
<1> QED BY <1>1, <1>2

\* Adding a hardware thread to a hierarchy.
LEMMA TreeGrown ==
    ASSUME NEW t, TreeOK(t), Node \in DOMAIN t, NEW h \in Cpus, <<"ht", h>> \notin DOMAIN t,
           NEW r, r = x86_find_ht(t, h), r.found
    PROVE  TreeOK(r.tree) /\ Node \in DOMAIN r.tree /\ Hts(r.tree) = Hts(t) \cup {h}
<1> DEFINE u == r.tree
           s == Package(h)
           k == CoreOf(h)
<1>1. /\ Grown(t, u, s, k, h)
      /\ <<"ht", h>> \in DOMAIN u /\ u[<<"ht", h>>] = NewObj(<<"core", s, k>>, h)
      /\ <<"core", s, k>> \in DOMAIN u
      /\ <<"core", s, k>> \in DOMAIN t \/ <<"socket", s>> \in DOMAIN u
  BY HtFound, Zenon
<1> HIDE DEF u, s, k
<1>2. /\ <<"core", s, k>>[1] = "core" /\ <<"core", s, k>>[2] = s
      /\ <<"socket", s>>[1] = "socket" /\ <<"socket", s>>[2] = s
      /\ <<"mem", s>>[1] = "mem" /\ <<"ht", h>>[1] = "ht" /\ <<"ht", h>>[2] = h
  OBVIOUS
<1>3. \A p, v : /\ NewObj(p, v).parent = p /\ NewObj(p, v).via = v
                /\ NewObj(p, v) = [parent |-> NewObj(p, v).parent, via |-> NewObj(p, v).via,
                                   temp |-> NewObj(p, v).temp]
  BY DEF NewObj
<1>4. <<"socket", s>> \in DOMAIN u
  <2>1. ASSUME <<"core", s, k>> \in DOMAIN t PROVE <<"socket", s>> \in DOMAIN t
    <3>1. ObjOK(t, <<"core", s, k>>)
      BY <2>1, Zenon DEF TreeOK
    <3>2. <<"core", s, k>> # Node
      BY <1>2 DEF Node
    <3> QED BY <1>2, <3>1, <3>2 DEF ObjOK
  <2> QED BY <1>1, <2>1, Zenon DEF Grown
<1>5. Node \in DOMAIN u
  BY <1>1 DEF Grown
<1>6. ASSUME NEW n \in DOMAIN u PROVE ObjOK(u, n)
  <2>1. \/ u[n] = t[n] /\ n \in DOMAIN t /\ ObjOK(t, n)
        \/ n = <<"socket", s>> /\ u[n].parent = Node
        \/ n = <<"mem", s>> /\ u[n].parent = <<"socket", s>>
        \/ n = <<"core", s, k>> /\ u[n].parent = <<"socket", s>>
        \/ n = <<"ht", h>> /\ u[n].parent = <<"core", s, k>>
    <3>1. \/ u[n] = t[n] /\ n \in DOMAIN t
          \/ n = <<"socket", s>> /\ u[n] = NewObj(Node, h)
          \/ n = <<"mem", s>> /\ u[n] = NewObj(<<"socket", s>>, h)
          \/ n = <<"core", s, k>> /\ u[n] = NewObj(<<"socket", s>>, h)
          \/ n = <<"ht", h>> /\ u[n] = NewObj(<<"core", s, k>>, h)
      BY <1>1, Zenon DEF Grown
    <3>2. n \in DOMAIN t => ObjOK(t, n)
      BY Zenon DEF TreeOK
    <3>3. \A p : NewObj(p, h).parent = p
      BY <1>3
    <3> QED BY <3>1, <3>2, <3>3
  <2>2. u[n] = [parent |-> u[n].parent, via |-> u[n].via, temp |-> u[n].temp]
    <3>1. CASE u[n] = t[n] /\ n \in DOMAIN t
      <4>1. ObjOK(t, n)
        BY <3>1, Zenon DEF TreeOK
      <4> QED BY <3>1, <4>1, Zenon DEF ObjOK
    <3>2. CASE ~(u[n] = t[n] /\ n \in DOMAIN t)
      <4>1. PICK p : u[n] = NewObj(p, h)
        BY <1>1, <3>2, Zenon DEF Grown
      <4>2. NewObj(p, h) = [parent |-> NewObj(p, h).parent, via |-> NewObj(p, h).via,
                            temp |-> NewObj(p, h).temp]
        BY DEF NewObj
      <4> QED BY <4>1, <4>2, Zenon
    <3> QED BY <3>1, <3>2
  <2>3. n # Node => u[n].parent \in DOMAIN u
    <3>1. DOMAIN t \subseteq DOMAIN u
      BY <1>1, Zenon DEF Grown
    <3> QED BY <1>1, <1>4, <1>5, <2>1, <3>1, Zenon DEF ObjOK
  <2>4. /\ n[1] = "ht" => n = <<"ht", n[2]>> /\ n[2] \in Cpus /\ u[n].parent[1] = "core"
        /\ n[1] = "core" => u[n].parent = <<"socket", n[2]>>
    BY <1>2, <2>1 DEF ObjOK
  <2>5. ASSUME n[1] = "core"
        PROVE  \E j \in Cpus : <<"ht", j>> \in DOMAIN u /\ u[<<"ht", j>>].parent = n
    <3>1. CASE n = <<"core", s, k>>
      BY <1>1, <1>3, <3>1, Zenon
    <3>2. CASE n # <<"core", s, k>>
      <4>1. n \in DOMAIN t
        BY <1>1, <1>2, <2>5, <3>2 DEF Grown
      <4>2. PICK j \in Cpus : <<"ht", j>> \in DOMAIN t /\ t[<<"ht", j>>].parent = n
        BY <2>5, <4>1, Zenon DEF TreeOK, ObjOK
      <4>3. j # h /\ <<"ht", j>> \in DOMAIN u
        BY <1>1, <4>2 DEF Grown
      <4>4. u[<<"ht", j>>] = t[<<"ht", j>>]
        <5>1. /\ <<"ht", j>> # <<"ht", h>> /\ <<"ht", j>> # <<"core", s, k>>
              /\ <<"ht", j>> # <<"socket", s>> /\ <<"ht", j>> # <<"mem", s>>
          BY <4>3
        <5> QED BY <1>1, <4>3, <5>1, Zenon DEF Grown
      <4> QED BY <4>2, <4>3, <4>4
    <3> QED BY <3>1, <3>2
  <2>6. ASSUME n[1] = "socket" PROVE <<"mem", n[2]>> \in DOMAIN u
    <3>1. CASE n \in DOMAIN t
      BY <1>1, <2>6, <3>1 DEF Grown, TreeOK, ObjOK
    <3>2. CASE n \notin DOMAIN t
      <4>1. n = <<"socket", s>>
        BY <1>1, <1>2, <2>6, <3>2 DEF Grown
      <4> QED BY <1>1, <1>2, <1>4, <3>2, <4>1, Zenon DEF Grown
    <3> QED BY <3>1, <3>2
  <2> QED BY <2>2, <2>3, <2>4, <2>5, <2>6, Zenon DEF ObjOK
<1>7. TreeOK(u)
  BY <1>6, Zenon DEF TreeOK
<1>8. \A j : j \in Hts(u) <=> j \in Hts(t) \/ j = h
  <2>1. ASSUME NEW j PROVE j \in Hts(u) <=> j \in Hts(t) \/ j = h
    <3>1. <<"ht", j>> \in DOMAIN t => <<"ht", j>> \in DOMAIN u
      BY <1>1 DEF Grown
    <3>2. ASSUME <<"ht", j>> \in DOMAIN u PROVE <<"ht", j>> \in DOMAIN t \/ j = h
      <4>1. /\ <<"ht", j>>[1] = "ht" /\ <<"ht", j>>[2] = j
            /\ <<"ht", j>> # <<"core", s, k>>
            /\ <<"ht", j>> # <<"socket", s>> /\ <<"ht", j>> # <<"mem", s>>
        OBVIOUS
      <4>2. <<"ht", j>> \in DOMAIN t \/ <<"ht", j>> = <<"ht", h>>
        BY <1>1, <3>2, <4>1, Zenon DEF Grown
      <4> QED BY <4>2
    <3> QED BY <1>1, <1>7, <3>1, <3>2, HtsIs, Zenon
  <2> QED BY <2>1
<1>9. Hts(u) = Hts(t) \cup {h}
  BY <1>8
<1> QED BY <1>5, <1>7, <1>9 DEF u

\* The new hardware thread is in place, and its socket, if its CPU is online
\* or may have any state.
LEMMA PlaceGrown ==
    ASSUME NEW t, TreeOK(t), \A n \in DOMAIN t : InPlace(t, n),
           NEW h \in Cpus, h \in unplugged \/ h \in online, <<"ht", h>> \notin DOMAIN t,
           NEW r, r = x86_find_ht(t, h), r.found
    PROVE  \A n \in DOMAIN r.tree : InPlace(r.tree, n)
<1> DEFINE u == r.tree
           s == Package(h)
           k == CoreOf(h)
<1>1. Grown(t, u, s, k, h)
  BY HtFound, Zenon
<1>2. h \notin unplugged => s = Machine.topo[h][1] /\ k = Machine.topo[h][2]
  BY DEF Package, CoreOf
<1> HIDE DEF u, s, k
<1>3. /\ <<"core", s, k>>[1] = "core"
      /\ <<"socket", s>>[1] = "socket" /\ <<"socket", s>>[2] = s
      /\ <<"mem", s>>[1] = "mem" /\ <<"ht", h>>[1] = "ht" /\ <<"ht", h>>[2] = h
  OBVIOUS
<1>4. \A p, v : NewObj(p, v).parent = p /\ NewObj(p, v).via = v
  BY DEF NewObj
<1>5. ASSUME NEW n \in DOMAIN u PROVE InPlace(u, n)
  <2>1. CASE n \in DOMAIN t /\ u[n] = t[n]
    BY <2>1, Zenon DEF InPlace
  <2>2. CASE n = <<"socket", s>> /\ u[n] = NewObj(Node, h)
    BY <1>2, <1>3, <1>4, <2>2 DEF InPlace
  <2>3. CASE n[1] = "mem" \/ n[1] = "core"
    BY <2>3 DEF InPlace
  <2>4. CASE n = <<"ht", h>> /\ u[n] = NewObj(<<"core", s, k>>, h)
    BY <1>2, <1>3, <1>4, <2>4 DEF InPlace
  <2> QED BY <1>1, <1>3, <2>1, <2>2, <2>3, <2>4, Zenon DEF Grown
<1> QED BY <1>5 DEF u

\* A hierarchy that is not there has no objects.
LEMMA NoObjects ==
    DOMAIN NoTree = {} /\ TreeOK(NoTree) /\ Hts(NoTree) = {}
<1>1. DOMAIN NoTree = {}
  BY DEF NoTree
<1> QED BY <1>1, Zenon DEF TreeOK, Hts

LEMMA ZeroedOK == Zeroed \in Metadata
BY DEF Zeroed, Metadata

\* The invariant holds before the first context.
LEMMA XInvInit ==
    ASSUME X86Init
    PROVE  XInv
<1>1. online \subseteq Cpus
  BY Zenon DEF X86Init
<1>2. DOMAIN tree = Ctxs /\ \A c \in Ctxs : tree[c] = NoTree
  BY DEF X86Init
<1>3. MdOK
  BY ZeroedOK DEF X86Init, MdOK, Metadata
<1>4. JobOK
  BY DEF X86Init, JobOK, Jobs, Idle
<1>5. \A c \in Ctxs : TreeOK(tree[c])
  BY <1>2, NoObjects
<1> QED BY <1>1, <1>2, <1>3, <1>4, <1>5 DEF XInv

\* The construction is given up: there is no hierarchy and no metadata.
LEMMA GivenUp ==
    ASSUME XInv, GiveUp, UNCHANGED online
    PROVE  XInv'
<1>1. online' \subseteq Cpus
  BY DEF XInv
<1>2. DOMAIN tree' = Ctxs
  BY DEF XInv, GiveUp
<1>3. MdOK'
  BY ZeroedOK DEF GiveUp, MdOK, Metadata
<1>4. JobOK'
  BY DEF GiveUp, JobOK, Jobs, Idle
<1>5. ASSUME NEW c \in Ctxs PROVE TreeOK(tree'[c])
  <2>1. tree'[c] = NoTree \/ tree'[c] = tree[c]
    BY DEF XInv, GiveUp
  <2> QED BY <2>1, NoObjects DEF XInv
<1> QED BY <1>1, <1>2, <1>3, <1>4, <1>5 DEF XInv

\* The root of a hierarchy with its power planes.
Root == hierarchy_insert(hierarchy_insert(hierarchy_insert(NoTree,
            NoCtx, Node, 0), Node, <<"pplane", 0>>, 0), Node, <<"pplane", 1>>, 0)

\* A root is a hierarchy without hardware threads.
LEMMA RootOK ==
    /\ DOMAIN Root = {Node, <<"pplane", 0>>, <<"pplane", 1>>}
    /\ TreeOK(Root) /\ Hts(Root) = {} /\ Root # NoTree
<1> DEFINE t == hierarchy_insert(NoTree, NoCtx, Node, 0)
           u == hierarchy_insert(t, Node, <<"pplane", 0>>, 0)
           v == hierarchy_insert(u, Node, <<"pplane", 1>>, 0)
<1>1. Insertion(t, NoTree, NoCtx, Node, 0)
  BY Inserted, Zenon
<1>2. Insertion(u, t, Node, <<"pplane", 0>>, 0)
  BY Inserted, Zenon
<1>3. Insertion(v, u, Node, <<"pplane", 1>>, 0)
  BY Inserted, Zenon
<1>4. v = Root
  BY Zenon DEF Root
<1> HIDE DEF t, u, v
<1>5. /\ DOMAIN v = {Node, <<"pplane", 0>>, <<"pplane", 1>>}
      /\ Node # <<"pplane", 0>> /\ Node # <<"pplane", 1>> /\ <<"pplane", 0>> # <<"pplane", 1>>
  BY <1>1, <1>2, <1>3, NoObjects DEF Insertion, Node
<1>6. /\ v[Node] = NewObj(NoCtx, 0)
      /\ v[<<"pplane", 0>>] = NewObj(Node, 0)
      /\ v[<<"pplane", 1>>] = NewObj(Node, 0)
  BY <1>1, <1>2, <1>3, <1>5, NoObjects DEF Insertion
<1>7. \A n \in DOMAIN v : n[1] \notin {"ht", "core", "socket"}
  BY <1>5 DEF Node
<1>8. ASSUME NEW n \in DOMAIN v PROVE ObjOK(v, n)
  <2>1. (v[n] = NewObj(NoCtx, 0) /\ n = Node) \/ v[n] = NewObj(Node, 0)
    BY <1>5, <1>6
  <2>2. v[n] = [parent |-> v[n].parent, via |-> v[n].via, temp |-> v[n].temp]
    BY <2>1 DEF NewObj
  <2>3. n # Node => v[n].parent = Node
    BY <2>1 DEF NewObj
  <2> QED BY <1>5, <1>7, <2>2, <2>3 DEF ObjOK
<1>9. Hts(v) = {}
  BY <1>7 DEF Hts
<1>10. v # NoTree
  BY <1>5, NoObjects
<1> QED BY <1>4, <1>5, <1>8, <1>9, <1>10, Zenon DEF TreeOK

\* One lemma for each step of the plugin: it keeps the invariant.
LEMMA XStart ==
    ASSUME MachineOK, XInv, NEW c \in Ctxs, x86_read_pm_counters_metadata(c)
    PROVE  XInv'
<1>1. online' \subseteq Cpus
  BY DEF XInv, x86_read_pm_counters_metadata
<1>2. CASE (md' = Zeroed /\ UNCHANGED <<tree, job>>) \/ UNCHANGED <<md, tree, job>>
  <2>1. job = Idle /\ job' = job /\ tree' = tree
    BY <1>2 DEF x86_read_pm_counters_metadata
  <2>2. JobOK'
    BY <2>1 DEF JobOK, Jobs, Idle
  <2>3. MdOK'
    BY <1>2, ZeroedOK DEF XInv, MdOK, Metadata
  <2> QED BY <1>1, <2>1, <2>2, <2>3 DEF XInv
<1>3. CASE \E hz \in Machine.hz \ {0} :
             /\ md' = PmCounters(hz, TRUE) \/ md' = PmCounters(hz, FALSE)
             /\ tree' = [tree EXCEPT ![c] = Root]
             /\ job' = [Idle EXCEPT !.ctx = c, !.pc = "info"]
  <2>1. PICK hz \in Machine.hz \ {0} : md' = PmCounters(hz, TRUE) \/ md' = PmCounters(hz, FALSE)
    BY <1>3
  <2>2. tree' = [tree EXCEPT ![c] = Root] /\ job' = [Idle EXCEPT !.ctx = c, !.pc = "info"]
    BY <1>3
  <2>3. hz \in Nat /\ hz > 0
    BY <2>1 DEF MachineOK
  <2>4. hz \in Int /\ NSEC_PER_SEC \div hz \in Int
    BY <2>3 DEF NSEC_PER_SEC
  <2>5. MdOK'
    <3>1. ASSUME NEW b \in BOOLEAN
          PROVE  PmCounters(hz, b) = [Zeroed EXCEPT !.rate = hz, !.node = b,
                                                    !.window = NSEC_PER_SEC \div hz]
      BY DEF PmCounters
    <3> DEFINE w == NSEC_PER_SEC \div hz
    <3> HIDE DEF w
    <3>2. w \in Int
      BY <2>4 DEF w
    <3>3. \E b \in BOOLEAN : md' = [Zeroed EXCEPT !.rate = hz, !.node = b, !.window = w]
      BY <2>1, <3>1 DEF w
    <3> QED BY <2>4, <3>2, <3>3, ZeroedOK DEF MdOK, Metadata
  <2>6. DOMAIN tree' = Ctxs /\ tree'[c] = Root /\ \A d \in Ctxs : d # c => tree'[d] = tree[d]
    BY <2>2 DEF XInv
  <2>7. job' = [ctx |-> c, pc |-> "info", i |-> 0, ht |-> 0,
                possible |-> {}, seen |-> {}, status |-> "SUCCESS"]
    BY <2>2 DEF Idle
  <2>8. JobOK'
    BY <2>6, <2>7, RootOK DEF JobOK, Jobs
  <2>9. \A d \in Ctxs : TreeOK(tree'[d])
    BY <2>6, RootOK DEF XInv
  <2> QED BY <1>1, <2>5, <2>6, <2>8, <2>9 DEF XInv
<1> QED BY <1>2, <1>3 DEF x86_read_pm_counters_metadata, Root

LEMMA XInfo ==
    ASSUME MachineOK, XInv, x86_read_info
    PROVE  XInv'
<1>1. CASE Fault /\ GiveUp
  BY <1>1, GivenUp DEF x86_read_info
<1>2. CASE /\ job' = [job EXCEPT !.pc = "meta",
                    !.possible = x86_list_parse_bitmask(CpuList(Cpus), Machine.max),
                    !.seen     = x86_list_parse_bitmask(CpuList(online), Machine.max)]
           /\ UNCHANGED <<md, tree, faults>>
  <2> DEFINE possible == {i \in Cpus : i < Machine.max}
             seen == {i \in online : i < Machine.max}
  <2>1. Cpus \in SUBSET Nat /\ IsFiniteSet(Cpus) /\ Machine.max \in Nat
    BY Zenon DEF MachineOK
  <2>2. online \in SUBSET Nat /\ IsFiniteSet(online) /\ online \subseteq Cpus
    BY <2>1, FS_Subset DEF XInv
  <2>3. /\ x86_list_parse_bitmask(CpuList(Cpus), Machine.max) = possible
        /\ x86_list_parse_bitmask(CpuList(online), Machine.max) = seen
    BY <2>1, <2>2, ListParsed
  <2>4. job.pc = "info" /\ JobOK /\ UNCHANGED <<online, unplugged>>
    BY DEF x86_read_info, XInv
  <2>5. possible \in SUBSET Nat /\ seen \in SUBSET possible
    BY <2>1, <2>2
  <2> HIDE DEF possible, seen
  <2>6. job' = [job EXCEPT !.pc = "meta", !.possible = possible, !.seen = seen]
    BY <1>2, <2>3
  <2>7. job' \in Jobs
    BY <2>4, <2>5, <2>6 DEF JobOK, Jobs
  <2>8. /\ job'.pc = "meta" /\ job'.i = 0 /\ job'.ht = 0 /\ job'.ctx = job.ctx
        /\ job'.possible = possible /\ job'.seen = seen /\ job.i = 0
    BY <2>4, <2>6 DEF JobOK, Jobs
  <2>9. Hts(tree[job.ctx]) = {h \in seen : h < 0}
    <3>1. Hts(tree[job.ctx]) = {h \in job.seen : h < 0} /\ job.seen \in SUBSET Nat
      BY <2>4, <2>8 DEF JobOK, Jobs
    <3>2. ASSUME NEW S \in SUBSET Nat PROVE {h \in S : h < 0} = {}
      <4>1. \A h \in S : h \in Nat /\ ~(h < 0)
        OBVIOUS
      <4> QED BY <4>1
    <3>3. seen \in SUBSET Nat
      BY <2>5
    <3> QED BY <3>1, <3>2, <3>3
  <2>10. \A i \in possible \ unplugged : i \in seen <=> i \in online
    BY <2>2 DEF possible, seen
  <2>11. JobOK'
    <3>1. job.ctx \in Ctxs /\ Node \in DOMAIN tree[job.ctx]
      BY <2>4 DEF JobOK, Jobs
    <3> QED BY <1>2, <2>4, <2>5, <2>7, <2>8, <2>9, <2>10, <3>1 DEF JobOK, Jobs, possible
  <2> QED BY <1>2, <2>4, <2>11 DEF XInv, MdOK, Metadata
<1> QED BY <1>1, <1>2 DEF x86_read_info

LEMMA XMeta ==
    ASSUME XInv, x86_read_ht_metadata
    PROVE  XInv'
<1>1. PICK got \in 0..3 :
         /\ md' = [md EXCEPT
               !.cstate = IF got >= 1 THEN [k \in 1..Machine.cstates |-> k - 1] ELSE @,
               !.freq   = IF got >= 2 THEN InOrder(Machine.freqs) ELSE @,
               !.gov    = IF got >= 3 THEN Machine.govs ELSE @]
         /\ job' = [job EXCEPT !.pc = "cpu",
                               !.status = IF got = 3 THEN "SUCCESS" ELSE "FAILURE"]
  BY DEF x86_read_ht_metadata
<1>2. job.pc = "meta" /\ UNCHANGED <<online, unplugged, tree>>
  BY DEF x86_read_ht_metadata
<1>3. MdOK'
  BY <1>1 DEF XInv, MdOK, Metadata
<1>4. JobOK'
  BY <1>1, <1>2 DEF XInv, JobOK, Jobs
<1> QED BY <1>2, <1>3, <1>4 DEF XInv

LEMMA XTemp ==
    ASSUME XInv, x86_read_temp_ids
    PROVE  XInv'
<1> DEFINE t == x86_scan_temp_dir(tree[job.ctx])
<1>0. UNCHANGED <<online, unplugged>> /\ job.pc = "temp"
  BY DEF x86_read_temp_ids
<1>1. CASE GiveUp
  BY <1>0, <1>1, GivenUp
<1>2. CASE tree' = [tree EXCEPT ![job.ctx] = t] /\ job' = Idle /\ UNCHANGED md
  <2>1. DOMAIN tree' = Ctxs
    BY <1>2 DEF XInv
  <2>2. MdOK'
    BY <1>2 DEF XInv, MdOK, Metadata
  <2>3. JobOK'
    BY <1>2 DEF JobOK, Jobs, Idle
  <2>4. TreeOK(t)
    <3> DEFINE u == tree[job.ctx]
               warm(n) == /\ n[1] \in {"socket", "core"}
                          /\ SocketOf(n) \in Machine.hwmon
                          /\ n \in Machine.labels
    <3>1. TreeOK(u)
      BY <1>0 DEF XInv, JobOK, Jobs
    <3>2. t = [n \in DOMAIN u |-> [u[n] EXCEPT !.temp = warm(n)]]
      BY Zenon DEF x86_scan_temp_dir
    <3> HIDE DEF t, u, warm
    <3>3. DOMAIN t = DOMAIN u
      BY <3>2
    <3>4. ASSUME NEW n \in DOMAIN u
          PROVE  /\ t[n] = [parent |-> t[n].parent, via |-> t[n].via, temp |-> t[n].temp]
                 /\ t[n].parent = u[n].parent /\ t[n].via = u[n].via
      <4>1. ObjOK(u, n)
        BY <3>1, Zenon DEF TreeOK
      <4>2. u[n] = [parent |-> u[n].parent, via |-> u[n].via, temp |-> u[n].temp]
        BY <4>1, Zenon DEF ObjOK
      <4>3. t[n] = [u[n] EXCEPT !.temp = warm(n)]
        BY <3>2, Zenon
      <4> QED BY <4>2, <4>3
    <3>5. ASSUME NEW n \in DOMAIN u PROVE ObjOK(t, n)
      <4>1. ObjOK(u, n)
        BY <3>1, Zenon DEF TreeOK
      <4>2. n[1] = "core" =>
               \E h \in Cpus : <<"ht", h>> \in DOMAIN t /\ t[<<"ht", h>>].parent = n
        BY <3>3, <3>4, <4>1, Zenon DEF ObjOK
      <4> QED BY <3>3, <3>4, <4>1, <4>2, Zenon DEF ObjOK
    <3> QED BY <3>3, <3>5, Zenon DEF TreeOK
  <2>5. \A c \in Ctxs : TreeOK(tree'[c])
    <3> HIDE DEF t
    <3>1. \A c \in Ctxs : tree'[c] = t \/ tree'[c] = tree[c]
      BY <1>2 DEF XInv
    <3> QED BY <2>4, <3>1, Zenon DEF XInv
  <2> QED BY <1>0, <2>1, <2>2, <2>3, <2>5 DEF XInv
<1> QED BY <1>1, <1>2 DEF x86_read_temp_ids

LEMMA XDestroy ==
    ASSUME XInv, NEW c \in Ctxs, x86_destruct_hierarchy(c)
    PROVE  XInv'
<1>1. job = Idle /\ job' = Idle /\ UNCHANGED online /\ md' = Zeroed
  BY DEF x86_destruct_hierarchy
<1>2. DOMAIN tree' = Ctxs /\ \A d \in Ctxs : tree'[d] = NoTree \/ tree'[d] = tree[d]
  BY DEF XInv, x86_destruct_hierarchy
<1>3. JobOK'
  BY <1>1 DEF JobOK, Jobs, Idle
<1>4. MdOK'
  BY <1>1, ZeroedOK DEF MdOK, Metadata
<1>5. \A d \in Ctxs : TreeOK(tree'[d])
  BY <1>2, NoObjects, Zenon DEF XInv
<1> QED BY <1>1, <1>2, <1>3, <1>4, <1>5 DEF XInv

LEMMA XHotplug ==
    ASSUME XInv, NEW j \in Cpus, Hotplug(j)
    PROVE  XInv'
<1>1. /\ online' = online \ {j} \/ online' = online \cup {j}
      /\ unplugged' = unplugged \cup {j} /\ UNCHANGED <<md, tree, job>>
  BY DEF Hotplug
<1>2. \A i \in job.possible \ unplugged' : i \notin {j} /\ i \notin unplugged
  BY <1>1
<1>3. JobOK'
  BY <1>1, <1>2 DEF XInv, JobOK, Jobs
<1> QED BY <1>1, <1>3 DEF XInv, MdOK, Metadata

\* Without holes the number of possible CPUs before a CPU is its number.
LEMMA CountIsNumber ==
    ASSUME MachineOK, NoHole, XInv, job.pc = "cpu", job.i \in job.possible
    PROVE  job.ht = job.i /\ job.i \in Cpus
<1>1. /\ job.i \in Cpus /\ job.i < Machine.max /\ Machine.max \in Nat /\ job.i \in Nat
      /\ job.possible = {i \in Cpus : i < Machine.max}
  BY DEF MachineOK, XInv, JobOK, Jobs
<1>2. CASE job.i = 0
  BY <1>1, <1>2 DEF XInv, JobOK
<1>3. CASE job.i # 0
  <2>1. job.i - 1 \in 0..job.i /\ job.i - 1 < Machine.max
    BY <1>1, <1>3
  <2>2. job.i - 1 \in Cpus
    BY <1>1, <2>1, Zenon DEF NoHole
  <2>3. job.i - 1 \in job.possible
    BY <1>1, <2>1, <2>2
  <2> QED BY <1>1, <2>3 DEF XInv, JobOK
<1> QED BY <1>2, <1>3

\* One turn of the loop over the CPUs.
LEMMA XTopology ==
    ASSUME MachineOK, NoHole, XInv, x86_read_topology
    PROVE  XInv'
<1> DEFINE t == tree[job.ctx]
           r == x86_find_ht(t, job.ht)
<1>1. /\ job.pc = "cpu" /\ UNCHANGED <<online, unplugged>>
      /\ job.ctx \in Ctxs /\ Node \in DOMAIN t /\ TreeOK(t)
      /\ Hts(t) = {h \in job.seen : h < job.i}
      /\ job.possible = {i \in Cpus : i < Machine.max} /\ job.seen \subseteq job.possible
      /\ job.i \in Nat /\ job.ht \in Nat /\ job \in Jobs
  BY DEF x86_read_topology, XInv, JobOK, Jobs
<1>2. \A i \in Cpus : i \in Nat
  BY DEF MachineOK
<1>3. CASE GiveUp
  BY <1>1, <1>3, GivenUp
<1>4. CASE job.i >= Machine.max /\ Goto("temp") /\ UNCHANGED <<md, tree>>
  <2>1. JobOK'
    BY <1>1, <1>4 DEF Goto, XInv, JobOK, Jobs
  <2> QED BY <1>1, <1>4, <2>1 DEF XInv, MdOK, Metadata
<1>5. ASSUME job.i \in job.possible PROVE job.ht = job.i /\ job.i \in Cpus
  BY <1>1, <1>5, CountIsNumber
<1>6. CASE /\ job.i \in job.possible /\ job.i \in job.seen /\ r.found
           /\ tree' = [tree EXCEPT ![job.ctx] = r.tree]
           /\ md' = [md EXCEPT !.socket = <<"socket", 0>> \in DOMAIN r.tree]
           /\ job' = [job EXCEPT !.i = @ + 1, !.ht = @ + 1]
  <2>1. job.ht = job.i /\ job.i \in Cpus
    BY <1>5, <1>6
  <2>2. job.i \notin Hts(t)
    BY <1>1
  <2>3. <<"ht", job.i>> \notin DOMAIN t
    BY <1>1, <2>2, HtsIs
  <2>4. TreeOK(r.tree) /\ Node \in DOMAIN r.tree /\ Hts(r.tree) = Hts(t) \cup {job.i}
    <3>1. r = x86_find_ht(t, job.i)
      BY <2>1
    <3>2. TreeOK(t) /\ Node \in DOMAIN t /\ r.found
      BY <1>1, <1>6
    <3> HIDE DEF t, r
    <3> QED BY <2>1, <2>3, <3>1, <3>2, TreeGrown, Zenon
  <2> HIDE DEF r
  <2>5. DOMAIN tree' = Ctxs /\ tree'[job.ctx] = r.tree
        /\ \A d \in Ctxs : d # job.ctx => tree'[d] = tree[d]
    BY <1>1, <1>6 DEF XInv
  <2>6. MdOK'
    <3> DEFINE there == <<"socket", 0>> \in DOMAIN r.tree
    <3>1. there \in BOOLEAN
      OBVIOUS
    <3>2. md' = [md EXCEPT !.socket = there]
      BY <1>6
    <3> HIDE DEF there
    <3> QED BY <3>1, <3>2 DEF XInv, MdOK, Metadata
  <2>7. /\ job'.i = job.i + 1 /\ job'.ht = job.ht + 1 /\ job'.ctx = job.ctx /\ job'.pc = "cpu"
        /\ job'.possible = job.possible /\ job'.seen = job.seen
        /\ job' \in Jobs
    <3>1. job.i + 1 \in Nat /\ job.ht + 1 \in Nat
      BY <1>1
    <3> QED BY <1>1, <1>6, <3>1 DEF Jobs
  <2>8. Hts(tree'[job.ctx]) = {h \in job.seen : h < job.i + 1}
    <3>1. \A h \in job.seen : h \in Nat /\ (h < job.i + 1 <=> h < job.i \/ h = job.i)
      BY <1>1, <1>2
    <3> QED BY <1>1, <1>6, <2>4, <2>5, <3>1
  <2>9. JobOK'
    BY <1>1, <2>1, <2>4, <2>5, <2>7, <2>8 DEF XInv, JobOK, Jobs
  <2>10. \A d \in Ctxs : TreeOK(tree'[d])
    BY <2>4, <2>5, Zenon DEF XInv
  <2> QED BY <1>1, <2>5, <2>6, <2>9, <2>10 DEF XInv
<1>7. CASE /\ ~(job.i \in job.possible /\ job.i \in job.seen)
           /\ job' = [job EXCEPT !.i = @ + 1,
                         !.ht = @ + (IF job.i \in job.possible THEN 1 ELSE 0)]
           /\ UNCHANGED <<md, tree>>
  <2> DEFINE d == IF job.i \in job.possible THEN 1 ELSE 0
  <2>1. d \in Nat /\ (job.i \in job.possible => d = 1)
    OBVIOUS
  <2>2. job' = [job EXCEPT !.i = @ + 1, !.ht = @ + d]
    BY <1>7
  <2> HIDE DEF d
  <2>3. /\ job'.i = job.i + 1 /\ job'.ht = job.ht + d /\ job'.ctx = job.ctx /\ job'.pc = "cpu"
        /\ job'.possible = job.possible /\ job'.seen = job.seen
        /\ job' \in Jobs
    <3>1. job.i + 1 \in Nat /\ job.ht + d \in Nat
      BY <1>1, <2>1
    <3> QED BY <1>1, <2>2, <3>1 DEF Jobs
  <2>4. Hts(tree[job.ctx]) = {h \in job.seen : h < job.i + 1}
    <3>1. \A h \in job.seen : h \in Nat /\ h # job.i /\ (h < job.i + 1 <=> h < job.i \/ h = job.i)
      BY <1>1, <1>2, <1>7
    <3> QED BY <1>1, <3>1
  <2>5. job.i + 1 # 0 /\ (job.i + 1) - 1 = job.i
    BY <1>1
  <2>6. JobOK'
    BY <1>1, <1>5, <1>7, <2>1, <2>3, <2>4, <2>5 DEF XInv, JobOK, Jobs
  <2> QED BY <1>1, <1>7, <2>6 DEF XInv, MdOK, Metadata
<1> QED BY <1>3, <1>4, <1>6, <1>7 DEF x86_read_topology

\* Every step keeps the invariant.
LEMMA XInvStep ==
    ASSUME MachineOK, NoHole, XInv, X86Next
    PROVE  XInv'
<1>1. ASSUME NEW c \in Ctxs, x86_read_pm_counters_metadata(c) PROVE XInv'
  BY <1>1, XStart
<1>2. ASSUME NEW c \in Ctxs, x86_destruct_hierarchy(c) PROVE XInv'
  BY <1>2, XDestroy
<1>3. CASE BuildStep
  BY <1>3, XInfo, XMeta, XTopology, XTemp DEF BuildStep
<1>4. ASSUME NEW j \in Cpus, Hotplug(j) PROVE XInv'
  BY <1>4, XHotplug
<1> QED BY <1>1, <1>2, <1>3, <1>4, Zenon DEF X86Next

(***************************************************************************)
(* One context at a time.                                                  *)
(***************************************************************************)
\* One context at a time: the start, and again a lemma for each step.
LEMMA AloneInit ==
    ASSUME X86Init
    PROVE  AloneInv
<1>1. \A c \in Ctxs : tree[c] = NoTree
  BY DEF X86Init
<1> QED BY <1>1, NoObjects, Zenon DEF AloneInv, Live

\* While a hierarchy is built it is the only one.
LEMMA Sole ==
    ASSUME XInv, AloneInv, job.pc # "idle"
    PROVE  job.ctx \in Ctxs /\ \A d \in Ctxs : tree[d] # NoTree <=> d = job.ctx
<1>1. job.ctx \in Ctxs /\ Node \in DOMAIN tree[job.ctx]
  BY DEF XInv, JobOK
<1>2. tree[job.ctx] # NoTree
  BY <1>1, NoObjects
<1> QED BY <1>1, <1>2, Zenon DEF AloneInv

\* A step that leaves every context without a hierarchy.
LEMMA NoneLeft ==
    ASSUME \A c \in Ctxs : tree[c] = NoTree
    PROVE  AloneInv
BY NoObjects, Zenon DEF AloneInv, Live

LEMMA AloneGivenUp ==
    ASSUME XInv, AloneInv, GiveUp, job.pc # "idle"
    PROVE  AloneInv'
<1>1. \A c \in Ctxs : tree'[c] = NoTree
  BY Sole DEF XInv, GiveUp
<1> QED BY <1>1, NoObjects, Zenon DEF AloneInv, Live

\* A step of the construction that leaves the hierarchies alone.
LEMMA AloneKept ==
    ASSUME AloneInv, UNCHANGED <<tree, online, unplugged>>, job'.ctx = job.ctx
    PROVE  AloneInv'
BY Zenon DEF AloneInv, Live, InPlace

LEMMA AloneStart ==
    ASSUME ~Overlap, XInv, NEW c \in Ctxs, x86_read_pm_counters_metadata(c)
    PROVE  AloneInv'
<1>1. \A d \in Ctxs : tree[d] = NoTree
  BY DEF x86_read_pm_counters_metadata
<1>2. CASE UNCHANGED tree
  BY <1>1, <1>2, NoObjects, Zenon DEF AloneInv, Live
<1>3. CASE /\ tree' = [tree EXCEPT ![c] = Root]
           /\ job' = [Idle EXCEPT !.ctx = c, !.pc = "info"]
  <2>1. tree'[c] = Root /\ job'.ctx = c /\ \A d \in Ctxs : d # c => tree'[d] = NoTree
    BY <1>1, <1>3 DEF XInv, Idle
  <2>2. \A n \in DOMAIN Root : n[1] # "ht" /\ n[1] # "socket"
    BY RootOK DEF Node
  <2>3. \A d \in Ctxs : \A n \in DOMAIN tree'[d] : InPlace(tree[d], n)'
    BY <2>1, <2>2, NoObjects, Zenon DEF InPlace
  <2>4. \A d \in Ctxs : ~ Live(d)'
    BY <2>1, Zenon DEF Live
  <2> QED BY <2>1, <2>3, <2>4, Zenon DEF AloneInv
<1> QED BY <1>2, <1>3 DEF x86_read_pm_counters_metadata, Root

LEMMA AloneTopology ==
    ASSUME MachineOK, NoHole, XInv, AloneInv, x86_read_topology
    PROVE  AloneInv'
<1> DEFINE t == tree[job.ctx]
           r == x86_find_ht(t, job.ht)
<1>1. /\ job.pc = "cpu" /\ UNCHANGED <<online, unplugged>>
      /\ job.ctx \in Ctxs /\ TreeOK(t)
      /\ Hts(t) = {h \in job.seen : h < job.i}
      /\ job.possible = {i \in Cpus : i < Machine.max}
      /\ \A i \in job.possible \ unplugged : i \in job.seen <=> i \in online
      /\ job.i \in Nat /\ job \in Jobs
  BY DEF x86_read_topology, XInv, JobOK, Jobs
<1>2. CASE GiveUp
  BY <1>1, <1>2, AloneGivenUp
<1>3. CASE UNCHANGED tree /\ job'.ctx = job.ctx
  BY <1>1, <1>3, AloneKept
<1>4. CASE /\ job.i \in job.possible /\ job.i \in job.seen /\ r.found
           /\ tree' = [tree EXCEPT ![job.ctx] = r.tree]
           /\ job' = [job EXCEPT !.i = @ + 1, !.ht = @ + 1]
  <2>1. job.ht = job.i /\ job.i \in Cpus
    BY <1>1, <1>4, CountIsNumber
  <2>2. job.i \notin Hts(t)
    BY <1>1
  <2>3. <<"ht", job.i>> \notin DOMAIN t
    BY <1>1, <2>2, HtsIs
  <2>4. job.i \in unplugged \/ job.i \in online
    BY <1>1, <1>4
  <2>5. \A n \in DOMAIN t : InPlace(t, n)
    BY <1>1, Zenon DEF AloneInv
  <2>6. \A n \in DOMAIN r.tree : InPlace(r.tree, n)
    BY <1>1, <1>4, <2>1, <2>3, <2>4, <2>5, PlaceGrown, Zenon
  <2> HIDE DEF r
  <2>7. /\ tree'[job.ctx] = r.tree /\ job'.ctx = job.ctx
        /\ \A d \in Ctxs : d # job.ctx => tree'[d] = NoTree
    BY <1>1, <1>4, Sole DEF XInv, Jobs
  <2>8. \A d \in Ctxs : \A n \in DOMAIN tree'[d] : InPlace(tree[d], n)'
    <3>1. ASSUME NEW d \in Ctxs, NEW n \in DOMAIN tree'[d] PROVE InPlace(tree[d], n)'
      <4>1. d = job.ctx /\ tree'[d] = r.tree
        BY <2>7, NoObjects
      <4>2. InPlace(tree'[d], n)
        BY <2>6, <4>1, Zenon
      <4> QED BY <1>1, <4>2, Zenon DEF InPlace
    <3> QED BY <3>1
  <2>9. \A d \in Ctxs : ~ Live(d)'
    BY <2>7, Zenon DEF Live
  <2> QED BY <1>1, <2>7, <2>8, <2>9, Zenon DEF AloneInv
<1>5. CASE job' = [job EXCEPT !.i = @ + 1,
                       !.ht = @ + (IF job.i \in job.possible THEN 1 ELSE 0)]
           /\ UNCHANGED tree
  <2>1. job'.ctx = job.ctx
    BY <1>1, <1>5 DEF Jobs
  <2> QED BY <1>3, <1>5, <2>1
<1>6. CASE Goto("temp") /\ UNCHANGED tree
  <2>1. job'.ctx = job.ctx
    BY <1>1, <1>6 DEF Jobs, Goto
  <2> QED BY <1>3, <1>6, <2>1
<1> QED BY <1>2, <1>4, <1>5, <1>6 DEF x86_read_topology

LEMMA AloneTemp ==
    ASSUME MachineOK, XInv, AloneInv, x86_read_temp_ids
    PROVE  AloneInv'
<1> DEFINE t == tree[job.ctx]
           u == x86_scan_temp_dir(t)
<1>1. /\ job.pc = "temp" /\ UNCHANGED <<online, unplugged>>
      /\ job.ctx \in Ctxs /\ TreeOK(t)
      /\ Hts(t) = {h \in job.seen : h < job.i}
      /\ job.possible = {i \in Cpus : i < Machine.max} /\ job.seen \subseteq job.possible
      /\ \A i \in job.possible \ unplugged : i \in job.seen <=> i \in online
      /\ job.i \in Nat /\ job.i >= Machine.max
  BY DEF x86_read_temp_ids, XInv, JobOK, Jobs
<1>2. CASE GiveUp
  BY <1>1, <1>2, AloneGivenUp
<1>3. CASE tree' = [tree EXCEPT ![job.ctx] = u] /\ job' = Idle
  <2>1. /\ tree'[job.ctx] = u /\ \A d \in Ctxs : d # job.ctx => tree'[d] = NoTree
    BY <1>1, <1>3, Sole DEF XInv
  <2>2. DOMAIN u = DOMAIN t
    BY DEF x86_scan_temp_dir
  <2>3. ASSUME NEW n \in DOMAIN t PROVE u[n].parent = t[n].parent /\ u[n].via = t[n].via
    <3> DEFINE warm == /\ n[1] \in {"socket", "core"}
                       /\ SocketOf(n) \in Machine.hwmon
                       /\ n \in Machine.labels
    <3>1. ObjOK(t, n)
      BY <1>1, Zenon DEF TreeOK
    <3>2. t[n] = [parent |-> t[n].parent, via |-> t[n].via, temp |-> t[n].temp]
      BY <3>1, Zenon DEF ObjOK
    <3>3. u[n] = [t[n] EXCEPT !.temp = warm]
      BY Zenon DEF x86_scan_temp_dir
    <3> HIDE DEF t, u, warm
    <3> QED BY <3>2, <3>3
  <2>4. Hts(u) = Hts(t)
    BY <2>2, Zenon DEF Hts
  <2> HIDE DEF u
  <2>5. \A d \in Ctxs : \A n \in DOMAIN tree'[d] : InPlace(tree[d], n)'
    <3>1. ASSUME NEW d \in Ctxs, NEW n \in DOMAIN tree'[d] PROVE InPlace(tree[d], n)'
      <4>1. d = job.ctx /\ tree'[d] = u /\ n \in DOMAIN t
        BY <2>1, <2>2, NoObjects
      <4>2. InPlace(t, n)
        BY <1>1, <4>1, Zenon DEF AloneInv
      <4> QED BY <1>1, <2>3, <4>1, <4>2, Zenon DEF InPlace
    <3> QED BY <3>1
  <2>6. ASSUME NEW d \in Ctxs, Live(d)', unplugged' = {}
        PROVE  Hts(tree'[d]) = {i \in online' : i < Machine.max}
    <3>1. tree'[d] = u
      BY <2>1, <2>6 DEF Live
    <3>2. \A h \in job.seen : h \in Nat /\ h < job.i
      <4>1. \A h \in job.seen : h \in Cpus /\ h < Machine.max
        BY <1>1
      <4>2. Machine.max \in Nat /\ \A h \in Cpus : h \in Nat
        BY DEF MachineOK
      <4> QED BY <1>1, <4>1, <4>2
    <3>3. \A h : h \in job.seen <=> h \in Cpus /\ h < Machine.max /\ h \in online
      BY <1>1, <2>6
    <3>4. online \subseteq Cpus
      BY DEF XInv
    <3> QED BY <1>1, <2>4, <3>1, <3>2, <3>3, <3>4
  <2>7. \A c, d \in Ctxs : tree'[c] # NoTree /\ tree'[d] # NoTree => c = d
    BY <2>1, Zenon
  <2> QED BY <2>5, <2>6, <2>7, Zenon DEF AloneInv
<1> QED BY <1>2, <1>3 DEF x86_read_temp_ids

LEMMA AloneDestroy ==
    ASSUME XInv, AloneInv, NEW c \in Ctxs, x86_destruct_hierarchy(c)
    PROVE  AloneInv'
<1>1. /\ UNCHANGED <<online, unplugged, job>>
      /\ tree'[c] = NoTree /\ \A d \in Ctxs : d # c => tree'[d] = tree[d]
  BY DEF XInv, x86_destruct_hierarchy
<1>2. \A a, b \in Ctxs : tree'[a] # NoTree /\ tree'[b] # NoTree => a = b
  BY <1>1, Zenon DEF AloneInv
<1>3. ASSUME NEW d \in Ctxs, NEW n \in DOMAIN tree'[d] PROVE InPlace(tree[d], n)'
  <2>1. d # c /\ tree'[d] = tree[d]
    BY <1>1, NoObjects
  <2>2. InPlace(tree[d], n)
    BY <2>1, Zenon DEF AloneInv
  <2> QED BY <1>1, <2>1, <2>2, Zenon DEF InPlace
<1>4. ASSUME NEW d \in Ctxs, Live(d)', unplugged' = {}
      PROVE  Hts(tree'[d]) = {i \in online' : i < Machine.max}
  <2>1. d # c /\ tree'[d] = tree[d]
    BY <1>1, <1>4 DEF Live
  <2>2. Live(d) /\ unplugged = {}
    BY <1>1, <1>4, <2>1 DEF Live
  <2>3. Hts(tree[d]) = {i \in online : i < Machine.max}
    BY <2>2, Zenon DEF AloneInv
  <2> QED BY <1>1, <2>1, <2>3
<1> QED BY <1>2, <1>3, <1>4, Zenon DEF AloneInv

LEMMA AloneHotplug ==
    ASSUME AloneInv, NEW j \in Cpus, Hotplug(j)
    PROVE  AloneInv'
<1>1. unplugged' = unplugged \cup {j} /\ UNCHANGED <<tree, job>>
  BY DEF Hotplug
<1>2. unplugged' # {} /\ \A x : x \notin unplugged' => x \notin unplugged
  BY <1>1
<1>3. ASSUME NEW d \in Ctxs, NEW n \in DOMAIN tree'[d] PROVE InPlace(tree[d], n)'
  <2>1. InPlace(tree[d], n)
    BY <1>1, Zenon DEF AloneInv
  <2> QED BY <1>1, <1>2, <2>1, Zenon DEF InPlace
<1> QED BY <1>1, <1>2, <1>3, Zenon DEF AloneInv

LEMMA AloneStep ==
    ASSUME ~Overlap, MachineOK, NoHole, XInv, AloneInv, X86Next
    PROVE  AloneInv'
<1>1. ASSUME NEW c \in Ctxs, x86_read_pm_counters_metadata(c) PROVE AloneInv'
  BY <1>1, AloneStart
<1>2. ASSUME NEW c \in Ctxs, x86_destruct_hierarchy(c) PROVE AloneInv'
  BY <1>2, AloneDestroy
<1>3. CASE x86_read_info
  <2>1. job.pc = "info" /\ UNCHANGED <<online, unplugged>> /\ job \in Jobs
    BY <1>3 DEF x86_read_info, XInv, JobOK
  <2>2. GiveUp \/ (UNCHANGED tree /\ job'.ctx = job.ctx)
    BY <1>3, <2>1 DEF x86_read_info, Jobs
  <2> QED BY <2>1, <2>2, AloneGivenUp, AloneKept
<1>4. CASE x86_read_ht_metadata
  <2>1. UNCHANGED <<tree, online, unplugged>> /\ job'.ctx = job.ctx
    BY <1>4 DEF x86_read_ht_metadata, XInv, JobOK, Jobs
  <2> QED BY <2>1, AloneKept
<1>5. ASSUME NEW j \in Cpus, Hotplug(j) PROVE AloneInv'
  BY <1>5, AloneHotplug
<1> QED BY <1>1, <1>2, <1>3, <1>4, <1>5, AloneTopology, AloneTemp, Zenon DEF X86Next, BuildStep

(***************************************************************************)
(* The tables of the sleep and performance states.                         *)
(***************************************************************************)
\* A table of n states: its entries do not decrease.
Mono(table, n) ==
    /\ table \in [States -> 0..(n - 1)]
    /\ \A i, j \in States : i <= j => table[i] <= table[j]

\* The arithmetic of the tables, for any number of states.
LEMMA TableMono ==
    ASSUME NEW n \in Nat, n # 0
    PROVE  /\ Mono(init_ss_to_cs(n), n) /\ Mono(Blank, n)
           /\ init_ss_to_cs(n)[0] = 0 /\ init_ss_to_cs(n)[4] = n - 1
<1> DEFINE jump == (n - 2) \div 3
           f == init_ss_to_cs(n)
<1>1. States = {0, 1, 2, 3, 4}
  BY DEF States
<1>2. jump \in Int /\ (n > 1 => jump >= 0 /\ 3 * jump <= n - 2)
  OBVIOUS
<1>3. f = [i \in States |->
        IF n <= 1 \/ i = 0 THEN 0
        ELSE IF i = 4 THEN n - 1
        ELSE IF jump >= 1 THEN jump * i
        ELSE IF n = 4 /\ i = 3 THEN 2
        ELSE 1]
  BY Zenon DEF init_ss_to_cs
<1> HIDE DEF jump, f
<1>4. n - 1 \in Nat /\ (n <= 1 => n = 1)
  OBVIOUS
<1>5. /\ f[0] = 0 /\ f[4] = n - 1
      /\ \A i \in {1, 2, 3} : f[i] = IF n <= 1 THEN 0 ELSE IF jump >= 1 THEN jump * i
                                     ELSE IF n = 4 /\ i = 3 THEN 2 ELSE 1
  BY <1>1, <1>3, <1>4
<1>6. /\ f[1] = IF n <= 1 THEN 0 ELSE IF jump >= 1 THEN jump ELSE 1
      /\ f[2] = IF n <= 1 THEN 0 ELSE IF jump >= 1 THEN 2 * jump ELSE 1
      /\ f[3] = IF n <= 1 THEN 0 ELSE IF jump >= 1 THEN 3 * jump ELSE IF n = 4 THEN 2 ELSE 1
  BY <1>2, <1>5
<1>7. f[1] \in Int /\ f[2] \in Int /\ f[3] \in Int
  BY <1>2, <1>6
<1>8. 0 <= f[1] /\ f[1] <= f[2] /\ f[2] <= f[3] /\ f[3] <= n - 1
  BY <1>2, <1>6
<1>9. \A i \in States : f[i] \in 0..(n - 1)
  BY <1>1, <1>4, <1>5, <1>7, <1>8
<1>10. f \in [States -> 0..(n - 1)]
  BY <1>3, <1>9
<1>11. \A i, j \in States : i <= j => f[i] <= f[j]
  BY <1>1, <1>4, <1>5, <1>7, <1>8
<1>12. Mono(Blank, n)
  BY <1>4 DEF Blank, Mono
<1> QED BY <1>5, <1>10, <1>11, <1>12 DEF Mono, f

\* Reading a table backwards gives a state of the same entry, the first one.
LEMMA ReadBack ==
    ASSUME NEW n \in Nat, NEW table, Mono(table, n), NEW ss \in States
    PROVE  /\ map_cs_to_ss(table, table[ss]) \in States
           /\ map_cs_to_ss(table, table[ss]) <= ss
           /\ table[map_cs_to_ss(table, table[ss])] = table[ss]
<1> DEFINE x == table[ss]
           T == {i \in States : table[i] >= x}
<1>1. States = 0..4 /\ States \subseteq Nat /\ \A i \in States : table[i] \in Int
  BY DEF States, Mono
<1>2. ss \in T /\ T \in SUBSET Nat /\ T # {}
  BY <1>1
<1>3. PICK i \in T : \A y \in T : i <= y
  BY <1>2, Least
<1>4. i \in States /\ table[i] >= x
  BY <1>3
<1>5. \A j \in 0..(i - 1) : table[j] < x
  <2>1. ASSUME NEW j \in 0..(i - 1), ~(table[j] < x) PROVE FALSE
    <3>1. j \in States /\ ~(i <= j)
      BY <1>1, <1>4
    <3>2. j \in T
      BY <1>1, <2>1, <3>1
    <3> QED BY <1>3, <3>1, <3>2
  <2> QED BY <2>1
<1> DEFINE m == map_cs_to_ss(table, x)
<1>6. m \in States /\ table[m] >= x /\ \A j \in 0..(m - 1) : table[j] < x
  BY <1>4, <1>5, Zenon DEF map_cs_to_ss
<1> HIDE DEF m
<1>7. m <= ss
  <2>1. ASSUME ss < m PROVE FALSE
    <3>1. ss \in 0..(m - 1)
      BY <1>1, <1>6, <2>1
    <3> QED BY <1>1, <1>6, <3>1
  <2> QED BY <1>1, <1>6, <2>1
<1>8. table[m] <= x
  BY <1>6, <1>7 DEF Mono
<1> QED BY <1>1, <1>6, <1>7, <1>8 DEF m

(***************************************************************************)
(* The limit of the C-states.                                              *)
(***************************************************************************)
\* The limit that the reader finds when the C-states in off are disabled.
LimitIn(off) ==
    IF off = {} THEN (IF Machine.cstates = 0 THEN 0 ELSE Machine.cstates - 1)
    ELSE (CHOOSE k \in off : \A j \in off : k <= j) - 1

Off(h) == {k \in CstateFiles : hw[h].disable[k]}

\* The limit is below every disabled C-state, and the next one is disabled.
LEMMA LimitIs ==
    ASSUME Machine.cstates \in Nat \ {0}, NEW off \in SUBSET CstateFiles
    PROVE  /\ LimitIn(off) \in 0..(Machine.cstates - 1)
           /\ \A k \in off : LimitIn(off) < k
           /\ LimitIn(off) = Machine.cstates - 1 \/ LimitIn(off) + 1 \in off
<1> DEFINE all == Machine.cstates - 1
<1>1. all \in Nat /\ CstateFiles = 1..all
  BY DEF CstateFiles
<1> HIDE DEF all
<1>2. CASE off = {}
  <2>1. LimitIn(off) = all
    BY <1>2 DEF LimitIn, all
  <2> QED BY <1>1, <1>2, <2>1 DEF all
<1>3. CASE off # {}
  <2>1. off \in SUBSET Nat
    BY <1>1
  <2>2. \E k \in off : \A j \in off : k <= j
    BY <1>3, <2>1, Least
  <2> DEFINE m == CHOOSE k \in off : \A j \in off : k <= j
  <2>3. m \in off /\ \A j \in off : m <= j
    BY <2>2, Zenon
  <2>4. LimitIn(off) = m - 1
    BY <1>3 DEF LimitIn
  <2> HIDE DEF m
  <2>5. m \in 1..all
    BY <1>1, <2>3
  <2>6. \A j \in off : j \in Nat
    BY <2>1
  <2> QED BY <1>1, <2>3, <2>4, <2>5, <2>6 DEF all
<1> QED BY <1>2, <1>3

\* Writing the first n files of a limit, from the files that are disabled.
Written(off, want, n) ==
    {k \in CstateFiles : IF k <= n THEN k > want ELSE k \in off}

\* A complete write leaves the limit that was wanted.  One that stops leaves a
\* limit between the old one and it, if all the C-states beyond the old one
\* were disabled.
LEMMA LimitWritten ==
    ASSUME Machine.cstates \in Nat \ {0}, NEW off \in SUBSET CstateFiles,
           NEW want \in 0..(Machine.cstates - 1), NEW n \in 0..(Machine.cstates - 1)
    PROVE  /\ n = Machine.cstates - 1 => LimitIn(Written(off, want, n)) = want
           /\ (\A j \in off, k \in CstateFiles : j < k => k \in off) =>
                 Between(LimitIn(Written(off, want, n)), LimitIn(off), want)
<1> DEFINE all == Machine.cstates - 1
           new == Written(off, want, n)
           a == LimitIn(off)
           b == LimitIn(new)
<1>1. all \in Nat /\ CstateFiles = 1..all
  BY DEF CstateFiles
<1>2. new \in SUBSET CstateFiles
  BY DEF Written
<1>3. a \in 0..all /\ (\A k \in off : a < k) /\ (a = all \/ a + 1 \in off)
  BY LimitIs
<1>4. b \in 0..all /\ (\A k \in new : b < k) /\ (b = all \/ b + 1 \in new)
  BY <1>2, LimitIs
<1>5. \A k : k \in new <=> k \in 1..all /\ IF k <= n THEN k > want ELSE k \in off
  BY <1>1 DEF Written
<1>6. want \in 0..all /\ n \in 0..all
  OBVIOUS
<1> HIDE DEF all, new, a, b
<1>7. ASSUME want < n PROVE b = want
  <2>1. want + 1 \in new
    BY <1>1, <1>5, <1>6, <1>7
  <2>2. b < want + 1 /\ b # all
    BY <1>1, <1>4, <1>6, <1>7, <2>1
  <2>3. b + 1 \in new /\ b + 1 <= n
    BY <1>4, <1>6, <1>7, <2>2
  <2>4. b + 1 > want
    BY <1>5, <2>3
  <2> QED BY <1>4, <1>6, <2>2, <2>4
<1>8. ASSUME n = all PROVE b = want
  <2>1. CASE want < n
    BY <1>7, <2>1
  <2>2. CASE want = n
    <3>1. \A k \in 1..all : k <= n /\ ~(k > want)
      BY <1>1, <1>6, <1>8, <2>2
    <3>2. \A k : k \notin new
      BY <1>5, <3>1
    <3> QED BY <1>4, <1>8, <2>2, <3>2
  <2> QED BY <1>1, <1>6, <1>8, <2>1, <2>2
<1>9. ASSUME \A j \in off, k \in 1..all : j < k => k \in off
      PROVE  Between(b, a, want)
  <2>1. CASE want < n
    BY <1>3, <1>6, <1>7, <2>1 DEF Between
  <2>2. CASE ~(want < n) /\ n <= a
    <3>1. \A k \in 1..all : k \in new <=> k \in off
      <4>1. ASSUME NEW k \in 1..all, k <= n PROVE k \notin off /\ ~(k > want)
        BY <1>1, <1>3, <1>6, <2>2, <4>1
      <4> QED BY <1>5, <4>1
    <3>2. b = a
      <4>1. CASE a = all
        <5>1. \A k \in 1..all : k \notin off
          BY <1>1, <1>3, <4>1
        <5>2. b = all \/ b + 1 \in 1..all
          BY <1>1, <1>4
        <5> QED BY <1>4, <3>1, <4>1, <5>1, <5>2
      <4>2. CASE a # all
        <5>1. a + 1 \in 1..all /\ a + 1 \in new
          BY <1>1, <1>3, <3>1, <4>2
        <5>2. b < a + 1 /\ b # all
          BY <1>1, <1>3, <1>4, <5>1
        <5>3. b + 1 \in 1..all /\ b + 1 \in off
          BY <1>1, <1>4, <3>1, <5>2
        <5>4. a < b + 1
          BY <1>3, <5>3
        <5> QED BY <1>3, <1>4, <5>2, <5>4
      <4> QED BY <4>1, <4>2
    <3> QED BY <1>3, <1>6, <3>2 DEF Between
  <2>3. CASE ~(want < n) /\ a < n
    <3>1. a + 1 \in off /\ a # all
      BY <1>1, <1>3, <1>6, <2>3
    <3>2. \A k \in 1..all : n < k => k \in new
      <4>1. ASSUME NEW k \in 1..all, n < k PROVE k \in off
        BY <1>3, <1>6, <1>9, <2>3, <3>1, <4>1
      <4> QED BY <1>5, <1>6, <4>1
    <3>3. \A k \in 1..all : k <= n => k \notin new
      BY <1>1, <1>5, <1>6, <2>3
    <3>4. n <= b
      <4>1. ASSUME b < n PROVE FALSE
        <5>1. b + 1 \in new /\ b + 1 \in 1..all /\ b + 1 <= n
          BY <1>1, <1>4, <1>6, <4>1
        <5> QED BY <3>3, <5>1
      <4> QED BY <1>4, <1>6, <4>1
    <3>5. b <= n
      <4>1. ASSUME n < b PROVE FALSE
        <5>1. n + 1 \in 1..all /\ n < n + 1 /\ ~(b < n + 1)
          BY <1>1, <1>4, <1>6, <4>1
        <5> QED BY <1>4, <3>2, <5>1
      <4> QED BY <1>4, <1>6, <4>1
    <3>6. a <= b /\ b <= want
      BY <1>3, <1>4, <1>6, <2>3, <3>4, <3>5
    <3> QED BY <3>6 DEF Between
  <2> QED BY <1>3, <1>6, <2>1, <2>2, <2>3
<1> QED BY <1>1, <1>8, <1>9 DEF all, new, a, b

(***************************************************************************)
(* The invariant of the sleep and performance states.                      *)
(***************************************************************************)
NumFreqs == Cardinality(Machine.freqs)

Files == [disable : [CstateFiles -> BOOLEAN], gov : {"ondemand", "userspace"},
          freq : Machine.freqs \cup {Turbo}]

\* The cached tables are those of the machine, or were never filled.
TablesOK ==
    /\ freqs \in {<<>>, Descending(InOrder(Machine.freqs))}
    /\ ps_to_freq \in {Blank, init_ps_to_freq(NumFreqs)}
    /\ freqs # <<>> => ps_to_freq = init_ps_to_freq(NumFreqs)
    /\ ss_to_cs \in {Blank, init_ss_to_cs(Machine.cstates)}

DevInv ==
    /\ hw \in [Cpus -> Files]
    /\ TablesOK
    /\ LimitSetOrBetween
    /\ PerfStateKept

\* The frequencies from the fastest to the slowest.
LEMMA FastestFirst ==
    ASSUME MachineOK, NEW D, D = Descending(InOrder(Machine.freqs)), D # <<>>
    PROVE  /\ NumFreqs \in Nat \ {0} /\ Len(InOrder(Machine.freqs)) = NumFreqs
           /\ DOMAIN D = 1..NumFreqs /\ \A k \in 1..NumFreqs : D[k] \in Machine.freqs
           /\ \A f \in Machine.freqs : f <= D[1] /\ D[NumFreqs] <= f
<1> DEFINE s == InOrder(Machine.freqs)
           n == NumFreqs
<1>1. IsFiniteSet(Machine.freqs) /\ Machine.freqs \in SUBSET Nat
  BY DEF MachineOK
<1>2. Increases(s, Machine.freqs) /\ n = Cardinality(Machine.freqs)
  BY <1>1, InOrderIs DEF NumFreqs
<1>3. \A x \in Machine.freqs : \E i \in 1..n : s[i] = x
  BY <1>1, <1>2, IncreasesOnto
<1> HIDE DEF s, n
<1>4. n \in Nat /\ s \in [1..n -> Machine.freqs] /\ \A i, j \in 1..n : i < j => s[i] < s[j]
  BY <1>2 DEF Increases
<1>5. DOMAIN s = 1..n /\ Len(s) = n /\ D = [k \in 1..n |-> s[n - k + 1]]
  <2>1. DOMAIN s = 1..n /\ Len(s) = n
    BY <1>4
  <2>2. D = [k \in DOMAIN s |-> s[Len(s) - k + 1]]
    BY Zenon DEF Descending, s
  <2> QED BY <2>1, <2>2
<1>6. n # 0
  BY <1>5
<1>7. \A k \in 1..n : n - k + 1 \in 1..n
  BY <1>4
<1>8. DOMAIN D = 1..n /\ \A k \in 1..n : D[k] = s[n - k + 1] /\ D[k] \in Machine.freqs
  BY <1>4, <1>5, <1>7
<1>9. D[1] = s[n] /\ D[n] = s[1] /\ 1 \in 1..n /\ n \in 1..n
  <2>1. 1 \in 1..n /\ n \in 1..n /\ n - 1 + 1 = n /\ n - n + 1 = 1
    BY <1>4, <1>6
  <2> QED BY <1>8, <2>1
<1>10. ASSUME NEW f \in Machine.freqs PROVE f <= s[n] /\ s[1] <= f
  <2>1. PICK i \in 1..n : s[i] = f
    BY <1>3
  <2>2. i = n \/ i < n
    BY <1>4
  <2>3. i = 1 \/ 1 < i
    BY <1>4
  <2>4. \A k \in 1..n : s[k] \in Nat
    BY <1>1, <1>4
  <2> QED BY <1>4, <1>9, <2>1, <2>2, <2>3, <2>4
<1> QED BY <1>4, <1>5, <1>6, <1>8, <1>9, <1>10 DEF n, s

\* The invariant holds before the first call.
LEMMA DevInvInit ==
    ASSUME DevInit
    PROVE  DevInv
<1>1. hw \in [Cpus -> Files]
  BY DEF DevInit, Files
<1>2. TablesOK
  BY DEF DevInit, TablesOK
<1>3. last.op = "none"
  BY DEF DevInit, NoCall
<1> QED BY <1>1, <1>2, <1>3 DEF DevInv, LimitSetOrBetween, PerfStateKept

\* What a call works on.
LEMMA BelowOK ==
    ASSUME XInv, NEW c \in Ctxs, NEW o \in Objects(c)
    PROVE  Below(c, o) \subseteq Cpus /\ Below(c, o) # {}
<1>1. o \in DOMAIN tree[c] /\ o[1] \in {"ht", "core"}
  BY DEF Objects
<1>2. TreeOK(tree[c])
  BY Zenon DEF XInv
<1>3. ObjOK(tree[c], o)
  BY <1>1, <1>2, Zenon DEF TreeOK
<1>4. CASE IsHt(o)
  <2>1. Below(c, o) = {o[2]}
    BY <1>4, Zenon DEF Below
  <2>2. o[2] \in Cpus
    BY <1>3, <1>4, Zenon DEF ObjOK, IsHt
  <2> QED BY <2>1, <2>2
<1>5. CASE ~IsHt(o)
  <2>1. Below(c, o) = {h \in Hts(tree[c]) : tree[c][<<"ht", h>>].parent = o}
    BY <1>5, Zenon DEF Below
  <2>2. o[1] = "core"
    BY <1>1, <1>5 DEF IsHt
  <2>3. PICK h \in Cpus : <<"ht", h>> \in DOMAIN tree[c] /\ tree[c][<<"ht", h>>].parent = o
    BY <1>3, <2>2, Zenon DEF ObjOK
  <2>4. h \in Hts(tree[c])
    BY <1>2, <2>3, HtsIs
  <2>5. \A j \in Hts(tree[c]) : j \in Cpus
    <3>1. ASSUME NEW j \in Hts(tree[c]) PROVE j \in Cpus
      <4>1. <<"ht", j>> \in DOMAIN tree[c]
        BY <1>2, HtsIs
      <4>2. ObjOK(tree[c], <<"ht", j>>)
        BY <1>2, <4>1, Zenon DEF TreeOK
      <4> QED BY <4>2 DEF ObjOK
    <3> QED BY <3>1
  <2> QED BY <2>1, <2>3, <2>4, <2>5
<1> QED BY <1>4, <1>5

\* The tables that the two init functions leave behind.
LEMMA SleepTableOK ==
    ASSUME MachineOK, MdOK, TablesOK, NEW o, NEW readable \in BOOLEAN
    PROVE  init_cstate_limits(o, readable).map \in {Blank, init_ss_to_cs(Machine.cstates)}
<1>1. CASE md.cstate = <<>> \/ lats # <<>> \/ ~IsHt(o)
  <2>1. init_cstate_limits(o, readable).map = ss_to_cs
    BY <1>1 DEF init_cstate_limits
  <2> QED BY <2>1 DEF TablesOK
<1>2. CASE md.cstate # <<>> /\ lats = <<>> /\ IsHt(o)
  <2>1. md.cstate = [k \in 1..Machine.cstates |-> k - 1]
    BY <1>2 DEF MdOK, Metadata
  <2>2. Len(md.cstate) = Machine.cstates
    BY <2>1 DEF MachineOK
  <2>3. init_cstate_limits(o, readable).map = init_ss_to_cs(Machine.cstates)
    BY <1>2, <2>2 DEF init_cstate_limits
  <2> QED BY <2>3
<1> QED BY <1>1, <1>2

LEMMA PerfTableOK ==
    ASSUME MachineOK, MdOK, TablesOK, NEW o
    PROVE  LET tab == init_freqs(o) IN
           /\ tab.vals \in {<<>>, Descending(InOrder(Machine.freqs))}
           /\ tab.map \in {Blank, init_ps_to_freq(NumFreqs)}
           /\ tab.vals # <<>> => tab.map = init_ps_to_freq(NumFreqs)
<1> DEFINE tab == init_freqs(o)
<1>1. CASE freqs # <<>>
  <2>1. tab.vals = freqs /\ tab.map = ps_to_freq
    BY <1>1 DEF init_freqs
  <2> QED BY <1>1, <2>1 DEF TablesOK
<1>2. CASE freqs = <<>> /\ (~IsHt(o) \/ md.freq = <<>>)
  <2>1. tab.vals = <<>> /\ tab.map = ps_to_freq
    BY <1>2 DEF init_freqs
  <2> QED BY <2>1 DEF TablesOK
<1>3. CASE freqs = <<>> /\ IsHt(o) /\ md.freq # <<>>
  <2>1. md.freq = InOrder(Machine.freqs)
    BY <1>3 DEF MdOK, Metadata
  <2>2. tab.vals = Descending(md.freq) /\ tab.map = init_ps_to_freq(Len(md.freq))
    BY <1>3 DEF init_freqs
  <2>3. Len(md.freq) = NumFreqs
    <3>1. IsFiniteSet(Machine.freqs) /\ Machine.freqs \in SUBSET Nat
      BY DEF MachineOK
    <3>2. NumFreqs \in Nat /\ md.freq \in [1..NumFreqs -> Machine.freqs]
      BY <2>1, <3>1, InOrderIs DEF Increases, NumFreqs
    <3> QED BY <3>2
  <2> QED BY <2>1, <2>2, <2>3
<1> QED BY <1>1, <1>2, <1>3

\* The tables stay those of the machine.
LEMMA SleepTableKept ==
    ASSUME MachineOK, MdOK, TablesOK, NEW o, NEW readable \in BOOLEAN,
           SleepTable(init_cstate_limits(o, readable))
    PROVE  TablesOK'
<1> DEFINE tab == init_cstate_limits(o, readable)
<1>1. tab.map \in {Blank, init_ss_to_cs(Machine.cstates)}
  BY SleepTableOK
<1>2. ss_to_cs' = tab.map /\ UNCHANGED <<freqs, ps_to_freq>>
  BY Zenon DEF SleepTable
<1> HIDE DEF tab
<1> QED BY <1>1, <1>2 DEF TablesOK

LEMMA PerfTableKept ==
    ASSUME MachineOK, MdOK, TablesOK, NEW o, PerfTable(init_freqs(o))
    PROVE  TablesOK'
<1> DEFINE tab == init_freqs(o)
<1>1. /\ tab.vals \in {<<>>, Descending(InOrder(Machine.freqs))}
      /\ tab.map \in {Blank, init_ps_to_freq(NumFreqs)}
      /\ tab.vals # <<>> => tab.map = init_ps_to_freq(NumFreqs)
  BY PerfTableOK
<1>2. freqs' = tab.vals /\ ps_to_freq' = tab.map /\ UNCHANGED <<lats, ss_to_cs>>
  BY Zenon DEF PerfTable
<1> HIDE DEF tab
<1> QED BY <1>1, <1>2 DEF TablesOK

\* What a call returns.
LEMMA Returned ==
    ASSUME NEW rec, NEW tab, Returns(rec, tab)
    PROVE  /\ \A f \in DOMAIN NoCall \cap DOMAIN rec : last'[f] = rec[f]
           /\ "ret" \notin DOMAIN rec => last'.ret = tab.ret
<1>1. last' = [f \in DOMAIN NoCall |->
                IF f \in DOMAIN rec THEN rec[f]
                ELSE IF f = "ret" THEN tab.ret
                ELSE NoCall[f]]
  BY Zenon DEF Returns
<1>2. "ret" \in DOMAIN NoCall
  BY DEF NoCall
<1> QED BY <1>1, <1>2, Zenon

LEMMA CallFields ==
    DOMAIN NoCall = {"op", "ret", "cpu", "from", "want", "state", "clean"}
BY DEF NoCall

\* A call that sets nothing, or fails, says so.
LEMMA OtherCall ==
    ASSUME hw' \in [Cpus -> Files], TablesOK', last'.op \notin {"sleep", "perf"}
    PROVE  DevInv'
BY DEF DevInv, LimitSetOrBetween, PerfStateKept

\* The calls that only read.
LEMMA CallReads ==
    ASSUME NEW c \in Ctxs, NEW o \in Objects(c),
           \/ PWR_GetSleepState(c, o)
           \/ \E l \in {-1, 1} : PWR_RecommendSleepState(c, o, l)
           \/ PWR_GetPerfState(c, o),
           MachineOK, MdOK, DevInv
    PROVE  DevInv'
<1>1. hw' \in [Cpus -> Files]
  BY DEF DevInv, PWR_GetSleepState, PWR_RecommendSleepState, PWR_GetPerfState
<1>2. ASSUME NEW rec, NEW tab, Returns(rec, tab), "op" \in DOMAIN rec
      PROVE  last'.op = rec.op
  BY <1>2, Returned, CallFields, Zenon
<1>3. CASE PWR_GetSleepState(c, o)
  <2> DEFINE tab == init_cstate_limits(o, TRUE)
             rec == [op |-> "getsleep", cpu |-> o[2],
                     state |-> map_cs_to_ss(tab.map, x86_ht_get_cstate_limit(o[2]))]
  <2>1. SleepTable(tab) /\ (Returns(rec, tab) \/ Returns([op |-> "fail"], tab))
    BY <1>3, Zenon DEF PWR_GetSleepState
  <2>2. TablesOK'
    BY <2>1, SleepTableKept DEF DevInv
  <2>3. /\ "op" \in DOMAIN rec /\ rec.op = "getsleep"
        /\ "op" \in DOMAIN [op |-> "fail"] /\ [op |-> "fail"].op = "fail"
    OBVIOUS
  <2> HIDE DEF rec, tab
  <2>4. last'.op \in {"getsleep", "fail"}
    BY <1>2, <2>1, <2>3
  <2> QED BY <1>1, <2>2, <2>4, OtherCall
<1>4. ASSUME NEW l \in {-1, 1}, PWR_RecommendSleepState(c, o, l) PROVE DevInv'
  <2> DEFINE tab == init_cstate_limits(o, TRUE)
             rec == [op |-> "recommend", want |-> l,
                     state |-> Recommended(tab.map,
                                  [k \in 0..(Len(tab.vals) - 1) |-> tab.vals[k + 1]], l)]
  <2>1. SleepTable(tab) /\ (Returns(rec, tab) \/ Returns([op |-> "fail"], tab))
    BY <1>4, Zenon DEF PWR_RecommendSleepState
  <2>2. TablesOK'
    BY <2>1, SleepTableKept DEF DevInv
  <2>3. /\ "op" \in DOMAIN rec /\ rec.op = "recommend"
        /\ "op" \in DOMAIN [op |-> "fail"] /\ [op |-> "fail"].op = "fail"
    OBVIOUS
  <2> HIDE DEF rec, tab
  <2>4. last'.op \in {"recommend", "fail"}
    BY <1>2, <2>1, <2>3
  <2> QED BY <1>1, <2>2, <2>4, OtherCall
<1>5. CASE PWR_GetPerfState(c, o)
  <2> DEFINE tab == init_freqs(o)
             state(f) == LET at == {k \in DOMAIN tab.vals : tab.vals[k] = f}
                         IN  map_freq_to_ps(tab.map,
                                IF at = {} THEN -1 ELSE (CHOOSE k \in at : TRUE) - 1)
             rec(f) == [op |-> "getperf", cpu |-> o[2], want |-> f, state |-> state(f)]
  <2>1. PerfTable(tab) /\ ((\E f : Returns(rec(f), tab)) \/ Returns([op |-> "fail"], tab))
    BY <1>5, Zenon DEF PWR_GetPerfState
  <2>2. TablesOK'
    BY <2>1, PerfTableKept DEF DevInv
  <2> HIDE DEF state
  <2>3. /\ \A f : "op" \in DOMAIN rec(f) /\ rec(f).op = "getperf"
        /\ "op" \in DOMAIN [op |-> "fail"] /\ [op |-> "fail"].op = "fail"
    OBVIOUS
  <2> HIDE DEF rec, tab
  <2>4. last'.op \in {"getperf", "fail"}
    BY <1>2, <2>1, <2>3
  <2> QED BY <1>1, <2>2, <2>4, OtherCall
<1> QED BY <1>3, <1>4, <1>5

\* PWR_SetSleepStateLimit: the files of the CPU it reports on are those that
\* LimitWritten speaks of.
LEMMA SleepLimitSet ==
    ASSUME NEW c \in Ctxs, NEW o \in Objects(c), NEW ss \in States,
           PWR_SetSleepStateLimit(c, o, ss), MachineOK, XInv, DevInv
    PROVE  DevInv'
<1>1. PICK readable \in BOOLEAN :
       LET tab  == init_cstate_limits(o, readable)
           want == tab.map[ss]
           all  == Machine.cstates - 1
       IN  /\ SleepTable(tab)
           /\ IF tab.ret # "SUCCESS" \/ want >= Machine.cstates
              THEN /\ IF readable THEN NoFault ELSE Fault
                   /\ UNCHANGED hw /\ Returns([op |-> "fail"], tab)
              ELSE \E h \in Below(c, o), n \in 0..all :
                   /\ IF n = all THEN NoFault ELSE Fault
                   /\ OnCpus(c, o, LAMBDA k :
                          write_cstate_limit(hw[k], want, IF k = h THEN n ELSE all))
                   /\ Returns([op |-> "sleep", cpu |-> h, want |-> want, state |-> ss,
                               ret |-> IF n = all THEN "SUCCESS" ELSE "FAILURE",
                               from |-> x86_ht_get_cstate_limit(h),
                               clean |-> Threshold(h)], tab)
  BY Zenon DEF PWR_SetSleepStateLimit
<1> DEFINE tab  == init_cstate_limits(o, readable)
           want == tab.map[ss]
           all  == Machine.cstates - 1
<1>2. TablesOK' /\ tab.map \in {Blank, init_ss_to_cs(Machine.cstates)} /\ ss_to_cs' = tab.map
  <2>1. SleepTable(tab)
    BY <1>1
  <2>2. TablesOK'
    BY <2>1, SleepTableKept DEF DevInv, XInv
  <2>3. tab.map \in {Blank, init_ss_to_cs(Machine.cstates)}
    BY SleepTableOK DEF DevInv, XInv
  <2>4. ss_to_cs' = tab.map
    BY <2>1, Zenon DEF SleepTable
  <2> QED BY <2>2, <2>3, <2>4
<1>3. CASE UNCHANGED hw /\ Returns([op |-> "fail"], tab)
  <2>1. "op" \in DOMAIN [op |-> "fail"] /\ [op |-> "fail"].op = "fail"
    OBVIOUS
  <2> HIDE DEF tab
  <2>2. last'.op = "fail"
    BY <1>3, <2>1, Returned, CallFields, Zenon
  <2> QED BY <1>2, <1>3, <2>2, OtherCall DEF DevInv
<1>4. ASSUME ~(want >= Machine.cstates), NEW h \in Below(c, o), NEW n \in 0..all,
             OnCpus(c, o, LAMBDA k :
                 write_cstate_limit(hw[k], want, IF k = h THEN n ELSE all)),
             Returns([op |-> "sleep", cpu |-> h, want |-> want, state |-> ss,
                               ret |-> IF n = all THEN "SUCCESS" ELSE "FAILURE",
                               from |-> x86_ht_get_cstate_limit(h),
                               clean |-> Threshold(h)], tab)
      PROVE  DevInv'
  <2> DEFINE num(k) == IF k = h THEN n ELSE all
             rec == [op |-> "sleep", cpu |-> h, want |-> want, state |-> ss,
                     ret |-> IF n = all THEN "SUCCESS" ELSE "FAILURE",
                     from |-> x86_ht_get_cstate_limit(h), clean |-> Threshold(h)]
             map == tab.map
             ok == IF n = all THEN "SUCCESS" ELSE "FAILURE"
             from == x86_ht_get_cstate_limit(h)
             clean == Threshold(h)
  <2>1. h \in Cpus
    BY BelowOK
  <2>2. Machine.cstates \in Nat \ {0} /\ want \in 0..all /\ Mono(map, Machine.cstates)
    <3>1. Machine.cstates \in Nat
      BY DEF MachineOK
    <3> HIDE DEF tab
    <3>2. CASE Machine.cstates = 0
      <4>1. init_ss_to_cs(0) = Blank
        BY DEF init_ss_to_cs, Blank
      <4>2. map = Blank /\ Blank[ss] = 0
        BY <1>2, <3>2, <4>1 DEF Blank
      <4> QED BY <1>4, <3>2, <4>2
    <3>3. CASE Machine.cstates # 0
      <4>1. Mono(map, Machine.cstates)
        BY <1>2, <3>1, <3>3, TableMono
      <4> QED BY <3>1, <3>3, <4>1 DEF Mono
    <3> QED BY <3>2, <3>3
  <2>3. hw' = [k \in Cpus |-> IF k \in Below(c, o)
                              THEN write_cstate_limit(hw[k], want, num(k)) ELSE hw[k]]
    BY <1>4, Zenon DEF OnCpus
  <2>4. Returns(rec, tab)
    BY <1>4
  <2>5. rec = [op |-> "sleep", cpu |-> h, want |-> want, state |-> ss,
               ret |-> ok, from |-> from, clean |-> clean]
    OBVIOUS
  <2> HIDE DEF tab, want, rec, num, ok, from, clean, map
  <2>6. /\ last'.op = "sleep" /\ last'.cpu = h /\ last'.want = want /\ last'.state = ss
        /\ last'.ret = ok /\ last'.from = from /\ last'.clean = clean
    <3>1. DOMAIN rec = DOMAIN NoCall
      BY <2>5, CallFields
    <3>2. \A f \in DOMAIN NoCall : last'[f] = rec[f]
      BY <2>4, <3>1, Returned, Zenon
    <3>3. /\ rec.op = "sleep" /\ rec.cpu = h /\ rec.want = want /\ rec.state = ss
          /\ rec.ret = ok /\ rec.from = from /\ rec.clean = clean
      BY <2>5
    <3> QED BY <3>2, <3>3, CallFields
  <2>7. ASSUME NEW k \in Cpus
        PROVE  /\ hw'[k] \in Files
               /\ k = h => hw'[k].disable =
                     [j \in CstateFiles |-> IF j <= n THEN j > want ELSE hw[k].disable[j]]
    <3>1. hw[k] \in Files
      BY DEF DevInv
    <3>2. hw'[k] = IF k \in Below(c, o)
                   THEN write_cstate_limit(hw[k], want, num(k)) ELSE hw[k]
      BY <2>3, Zenon
    <3>3. ASSUME NEW m
          PROVE  /\ write_cstate_limit(hw[k], want, m) \in Files
                 /\ write_cstate_limit(hw[k], want, m).disable =
                      [j \in CstateFiles |-> IF j <= m THEN j > want ELSE hw[k].disable[j]]
      <4> DEFINE d == [j \in CstateFiles |-> IF j <= m THEN j > want ELSE hw[k].disable[j]]
      <4>1. d \in [CstateFiles -> BOOLEAN]
        <5>1. hw[k].disable \in [CstateFiles -> BOOLEAN]
          BY <3>1 DEF Files
        <5>2. \A j \in CstateFiles : (IF j <= m THEN j > want ELSE hw[k].disable[j]) \in BOOLEAN
          <6>1. ASSUME NEW j \in CstateFiles PROVE hw[k].disable[j] \in BOOLEAN
            BY <5>1, Zenon
          <6>2. ASSUME NEW j \in CstateFiles PROVE (j > want) \in BOOLEAN
            OBVIOUS
          <6> QED BY <6>1, <6>2, Zenon
        <5> QED BY <5>2, Zenon
      <4>2. write_cstate_limit(hw[k], want, m) = [hw[k] EXCEPT !.disable = d]
        BY Zenon DEF write_cstate_limit
      <4> HIDE DEF d
      <4>3. [hw[k] EXCEPT !.disable = d] \in Files /\ [hw[k] EXCEPT !.disable = d].disable = d
        BY <3>1, <4>1 DEF Files
      <4> QED BY <4>2, <4>3 DEF d
    <3>4. hw'[k] \in Files
      BY <3>1, <3>2, <3>3, Zenon
    <3>5. ASSUME k = h
          PROVE  hw'[k].disable =
                     [j \in CstateFiles |-> IF j <= n THEN j > want ELSE hw[k].disable[j]]
      <4>1. num(k) = n /\ k \in Below(c, o)
        BY <3>5 DEF num
      <4>2. hw'[k] = write_cstate_limit(hw[k], want, n)
        BY <3>2, <4>1
      <4> QED BY <3>3, <4>2, Zenon
    <3> QED BY <3>4, <3>5, Zenon
  <2>8. hw' \in [Cpus -> Files]
    <3>1. DOMAIN hw' = Cpus /\ hw' = [k \in Cpus |-> hw'[k]]
      BY <2>3
    <3> QED BY <2>7, <3>1, Zenon
  <2>9. Off(h) \in SUBSET CstateFiles /\ Off(h)' = Written(Off(h), want, n)
    <3>1. Off(h)' = {k \in CstateFiles : hw'[h].disable[k]}
      BY Zenon DEF Off
    <3>2. \A k \in CstateFiles : hw'[h].disable[k] <=> IF k <= n THEN k > want ELSE hw[h].disable[k]
      BY <2>1, <2>7
    <3>3. \A k \in CstateFiles : k \in Off(h) <=> hw[h].disable[k]
      BY Zenon DEF Off
    <3> QED BY <3>1, <3>2, <3>3 DEF Off, Written
  <2>10. from = LimitIn(Off(h)) /\ x86_ht_get_cstate_limit(h)' = LimitIn(Written(Off(h), want, n))
    <3>1. from = LimitIn(Off(h))
      BY Zenon DEF x86_ht_get_cstate_limit, LimitIn, Off, from
    <3>2. x86_ht_get_cstate_limit(h)' = LimitIn(Off(h)')
      BY Zenon DEF x86_ht_get_cstate_limit, LimitIn, Off
    <3> QED BY <2>9, <3>1, <3>2
  <2>11. clean => \A j \in Off(h), k \in CstateFiles : j < k => k \in Off(h)
    BY Zenon DEF clean, Threshold, Off
  <2> DEFINE now == x86_ht_get_cstate_limit(h)'
  <2>12. (n = all => now = want) /\ (clean => Between(now, from, want))
    BY <2>2, <2>9, <2>10, <2>11, LimitWritten
  <2>13. ok = "SUCCESS" => n = all
    BY DEF ok
  <2>14. /\ map_cs_to_ss(map, want) <= ss /\ map[map_cs_to_ss(map, want)] = want
    BY <2>2, ReadBack DEF want, map
  <2> HIDE DEF now
  <2>15. LimitSetOrBetween'
    <3>1. x86_ht_get_cstate_limit(last.cpu)' = now
      <4>1. x86_ht_get_cstate_limit(last.cpu)' =
              LimitIn({k \in CstateFiles : hw'[last'.cpu].disable[k]})
        BY Zenon DEF x86_ht_get_cstate_limit, LimitIn
      <4>2. now = LimitIn({k \in CstateFiles : hw'[h].disable[k]})
        BY Zenon DEF x86_ht_get_cstate_limit, LimitIn, now
      <4> QED BY <2>6, <4>1, <4>2
    <3>2. ss_to_cs' = map
      BY <1>2 DEF map
    <3> QED BY <2>6, <2>12, <2>13, <2>14, <3>1, <3>2, Zenon DEF LimitSetOrBetween
  <2>16. PerfStateKept'
    BY <2>6 DEF PerfStateKept
  <2> QED BY <1>2, <2>8, <2>15, <2>16 DEF DevInv
<1> QED BY <1>1, <1>3, <1>4

\* The userspace governor and a frequency on the CPUs in B.
LEMMA UserspaceSet ==
    ASSUME hw \in [Cpus -> Files], NEW B \in SUBSET Cpus,
           NEW f \in Machine.freqs \cup {Turbo},
           hw' = [k \in Cpus |-> IF k \in B
                     THEN [hw[k] EXCEPT !.gov = "userspace",
                                        !.freq = IF f = Turbo THEN @ ELSE f]
                     ELSE hw[k]]
    PROVE  /\ hw' \in [Cpus -> Files]
           /\ \A h \in B : hw'[h].gov = "userspace" /\ (f # Turbo => hw'[h].freq = f)
<1>1. ASSUME NEW k \in Cpus
      PROVE  /\ hw'[k] \in Files
             /\ k \in B => hw'[k].gov = "userspace" /\ (f # Turbo => hw'[k].freq = f)
  <2>1. hw[k] \in Files
    OBVIOUS
  <2>2. CASE k \in B
    <3>1. hw'[k] = [hw[k] EXCEPT !.gov = "userspace", !.freq = IF f = Turbo THEN @ ELSE f]
      BY <2>2, Zenon
    <3>2. [hw[k] EXCEPT !.gov = "userspace", !.freq = IF f = Turbo THEN @ ELSE f] \in Files
      BY <2>1 DEF Files
    <3>3. /\ hw'[k].gov = "userspace"
          /\ f # Turbo => hw'[k].freq = f
      BY <2>1, <3>1 DEF Files
    <3> QED BY <3>1, <3>2, <3>3
  <2>3. CASE k \notin B
    BY <2>1, <2>3
  <2> QED BY <2>2, <2>3
<1>2. hw' = [k \in Cpus |-> hw'[k]]
  OBVIOUS
<1> QED BY <1>1, <1>2, Zenon

\* PWR_SetPerfState: the table it works with is not empty when it succeeds.
LEMMA PerfStateSet ==
    ASSUME NEW c \in Ctxs, NEW o \in Objects(c), NEW ps \in States,
           PWR_SetPerfState(c, o, ps), MachineOK, Turbo \notin Machine.freqs, XInv, DevInv
    PROVE  DevInv'
<1> DEFINE tab == init_freqs(o)
           B == Below(c, o)
           Userspace(f) == OnCpus(c, o, LAMBDA k : [hw[k] EXCEPT !.gov = "userspace",
                                                   !.freq = IF f = Turbo THEN @ ELSE f])
           f == tab.vals[tab.map[ps] + 1]
           what == [op |-> "perf", want |-> f, state |-> ps, cpu |-> CHOOSE h \in B : TRUE]
           failed == [f2 \in DOMAIN what \cup {"ret"} |->
                         IF f2 = "ret" THEN "FAILURE" ELSE what[f2]]
<1>1. /\ PerfTable(tab)
      /\ IF tab.ret # "SUCCESS"
         THEN UNCHANGED <<hw, faults>> /\ Returns([op |-> "fail"], tab)
         ELSE IF tab.vals = <<>>
         THEN Userspace(Turbo) /\ NoFault /\ Returns([op |-> "fail"], tab)
         ELSE \/ NoFault /\ Userspace(f)     /\ Returns(what, tab)
              \/ Fault   /\ Userspace(Turbo) /\ Returns(failed, tab)
              \/ Fault   /\ UNCHANGED hw     /\ Returns(failed, tab)
  BY Zenon DEF PWR_SetPerfState
<1>2. B \in SUBSET Cpus /\ B # {}
  BY BelowOK
<1>3. TablesOK'
  BY <1>1, PerfTableKept DEF DevInv, XInv
<1>4. hw \in [Cpus -> Files]
  BY DEF DevInv
<1>5. ASSUME NEW g \in Machine.freqs \cup {Turbo}, Userspace(g)
      PROVE  /\ hw' \in [Cpus -> Files]
             /\ \A h \in B : hw'[h].gov = "userspace" /\ (g # Turbo => hw'[h].freq = g)
  <2>1. hw' = [k \in Cpus |-> IF k \in B
                     THEN [hw[k] EXCEPT !.gov = "userspace",
                                        !.freq = IF g = Turbo THEN @ ELSE g]
                     ELSE hw[k]]
    BY <1>5, Zenon DEF OnCpus
  <2> HIDE DEF B
  <2> QED BY <1>2, <1>4, <2>1, UserspaceSet
<1> HIDE DEF Userspace
<1>6. ASSUME Returns([op |-> "fail"], tab), hw' \in [Cpus -> Files] PROVE DevInv'
  <2>1. "op" \in DOMAIN [op |-> "fail"] /\ [op |-> "fail"].op = "fail"
    OBVIOUS
  <2> HIDE DEF tab
  <2>2. last'.op = "fail"
    BY <1>6, <2>1, Returned, CallFields, Zenon
  <2> QED BY <1>3, <1>6, <2>2, OtherCall
<1>7. ASSUME Returns(failed, tab), hw' \in [Cpus -> Files] PROVE DevInv'
  <2>1. /\ {"op", "ret"} \subseteq DOMAIN failed
        /\ failed.op = "perf" /\ failed.ret = "FAILURE"
    <3> HIDE DEF f, B
    <3> QED OBVIOUS
  <2> HIDE DEF tab, failed
  <2>2. last'.op = "perf" /\ last'.ret = "FAILURE"
    BY <1>7, <2>1, Returned, CallFields
  <2> QED BY <1>3, <1>7, <2>2 DEF DevInv, LimitSetOrBetween, PerfStateKept
<1>8. CASE tab.ret = "SUCCESS" /\ tab.vals # <<>> /\ Userspace(f) /\ Returns(what, tab)
  <2> DEFINE map == tab.map
             cpu == CHOOSE h \in B : TRUE
  <2>1. /\ tab.vals = Descending(InOrder(Machine.freqs))
        /\ map = init_ps_to_freq(NumFreqs) /\ map = init_ss_to_cs(NumFreqs)
    BY <1>8, PerfTableOK DEF DevInv, XInv, init_ps_to_freq
  <2>2. /\ NumFreqs \in Nat \ {0}
        /\ DOMAIN tab.vals = 1..NumFreqs
        /\ \A k \in 1..NumFreqs : tab.vals[k] \in Machine.freqs
        /\ \A g \in Machine.freqs : g <= tab.vals[1] /\ tab.vals[NumFreqs] <= g
    BY <1>8, <2>1, FastestFirst
  <2>3. freqs' = tab.vals /\ ps_to_freq' = map
    BY <1>1, Zenon DEF PerfTable
  <2>4. cpu \in B
    BY <1>2, Zenon
  <2>5. what = [op |-> "perf", want |-> f, state |-> ps, cpu |-> cpu]
    OBVIOUS
  <2> HIDE DEF tab, map, cpu, what, B
  <2>6. Mono(map, NumFreqs) /\ map[0] = 0 /\ map[4] = NumFreqs - 1
    BY <2>1, <2>2, TableMono
  <2>7. map[ps] \in 0..(NumFreqs - 1)
    BY <2>6 DEF Mono
  <2>8. f \in Machine.freqs /\ map[ps] + 1 \in 1..NumFreqs /\ f = tab.vals[map[ps] + 1]
    BY <2>2, <2>7 DEF map
  <2> HIDE DEF f
  <2>9. /\ hw' \in [Cpus -> Files]
        /\ hw'[cpu].gov = "userspace" /\ hw'[cpu].freq = f
    BY <1>5, <1>8, <2>4, <2>8
  <2>10. /\ last'.op = "perf" /\ last'.want = f /\ last'.state = ps /\ last'.cpu = cpu
    <3>1. /\ {"op", "want", "state", "cpu"} \subseteq DOMAIN what
          /\ what.op = "perf" /\ what.want = f /\ what.state = ps /\ what.cpu = cpu
      BY <2>5
    <3> QED BY <1>8, <3>1, Returned, CallFields
  <2>11. ASSUME NEW g \in Machine.freqs
         PROVE  (ps = 0 => g <= f) /\ (ps = 4 => f <= g)
    <3>1. map[ps] + 1 = IF ps = 0 THEN 1 ELSE IF ps = 4 THEN NumFreqs ELSE map[ps] + 1
      BY <2>2, <2>6
    <3> QED BY <2>2, <2>8, <3>1
  <2> DEFINE k == map[ps] + 1
             back == map_freq_to_ps(map, k - 1)
  <2>12. k - 1 = map[ps] /\ back = map_cs_to_ss(map, map[ps])
    <3>1. k - 1 = map[ps]
      BY <2>2, <2>7
    <3> QED BY <3>1 DEF map_freq_to_ps
  <2>13. back \in States /\ map[back] = map[ps]
    BY <2>2, <2>6, <2>12, ReadBack
  <2>14. back # -1
    BY <2>13 DEF States
  <2>15. PerfStateKept'
    <3>1. \A g \in Machine.freqs : (ps = 0 => g <= f) /\ (ps = 4 => g >= f)
      <4>1. \A g \in Machine.freqs : g \in Int
        BY DEF MachineOK
      <4> QED BY <2>8, <2>11, <4>1
    <3> HIDE DEF back
    <3>2. k \in DOMAIN tab.vals /\ tab.vals[k] = f /\ tab.vals[map[back] + 1] = f
      BY <2>2, <2>8, <2>13
    <3> HIDE DEF k
    <3>3. /\ k \in DOMAIN freqs' /\ freqs'[k] = hw'[last'.cpu].freq
          /\ map_freq_to_ps(ps_to_freq', k - 1) # -1
          /\ freqs'[ps_to_freq'[map_freq_to_ps(ps_to_freq', k - 1)] + 1] = last'.want
      BY <2>3, <2>9, <2>10, <2>14, <3>2 DEF back
    <3>4. /\ hw'[last'.cpu].gov = "userspace" /\ hw'[last'.cpu].freq = last'.want
          /\ \A g \in Machine.freqs : /\ last'.state = 0 => g <= last'.want
                                      /\ last'.state = 4 => g >= last'.want
      BY <2>9, <2>10, <3>1
    <3> QED BY <3>3, <3>4, Zenon DEF PerfStateKept
  <2>16. LimitSetOrBetween'
    BY <2>10 DEF LimitSetOrBetween
  <2> QED BY <1>3, <2>9, <2>15, <2>16 DEF DevInv
<1>9. Userspace(Turbo) => hw' \in [Cpus -> Files]
  BY <1>5
<1>10. UNCHANGED hw => hw' \in [Cpus -> Files]
  BY <1>4
<1> HIDE DEF tab, what, failed, f
<1> QED BY <1>1, <1>6, <1>7, <1>8, <1>9, <1>10

\* Every step keeps the invariant.
LEMMA DevStep ==
    ASSUME MachineOK, Turbo \notin Machine.freqs, XInv, DevInv, Next
    PROVE  DevInv'
<1>1. CASE UNCHANGED devVars
  BY <1>1 DEF devVars, DevInv, TablesOK, LimitSetOrBetween, PerfStateKept,
              x86_ht_get_cstate_limit
<1>2. ASSUME NEW c \in Ctxs, NEW o \in Objects(c),
             \/ PWR_GetSleepState(c, o)
             \/ \E s \in States : PWR_SetSleepStateLimit(c, o, s) \/ PWR_SetPerfState(c, o, s)
             \/ \E l \in {-1, 1} : PWR_RecommendSleepState(c, o, l)
             \/ PWR_GetPerfState(c, o)
      PROVE  DevInv'
  <2>1. ASSUME NEW s \in States, PWR_SetSleepStateLimit(c, o, s) PROVE DevInv'
    BY <2>1, SleepLimitSet
  <2>2. ASSUME NEW s \in States, PWR_SetPerfState(c, o, s) PROVE DevInv'
    BY <2>2, PerfStateSet
  <2>3. MdOK
    BY DEF XInv
  <2> QED BY <1>2, <2>1, <2>2, <2>3, CallReads
<1> QED BY <1>1, <1>2, Zenon DEF Next

\* A call leaves the hierarchies and the constructions alone.
LEMMA CallLeaves ==
    ASSUME NEW c \in Ctxs, NEW o \in Objects(c),
           \/ PWR_GetSleepState(c, o)
           \/ \E s \in States : PWR_SetSleepStateLimit(c, o, s) \/ PWR_SetPerfState(c, o, s)
           \/ \E l \in {-1, 1} : PWR_RecommendSleepState(c, o, l)
           \/ PWR_GetPerfState(c, o)
    PROVE  UNCHANGED <<online, unplugged, md, tree, job>>
<1>1. Calling(c, o)
  BY Zenon DEF PWR_GetSleepState, PWR_SetSleepStateLimit, PWR_SetPerfState,
               PWR_RecommendSleepState, PWR_GetPerfState
<1> QED BY <1>1 DEF Calling

(***************************************************************************)
(* Theorems.                                                               *)
(***************************************************************************)
\* The invariants hold of every behaviour.
LEMMA XKept ==
    ASSUME XInv, UNCHANGED <<online, unplugged, md, tree, job>>
    PROVE  XInv'
BY DEF XInv, MdOK, JobOK

LEMMA AloneSame ==
    ASSUME AloneInv, UNCHANGED <<online, unplugged, md, tree, job>>
    PROVE  AloneInv'
BY AloneKept

LEMMA XAlways ==
    ASSUME NoHole
    PROVE  Spec => []XInv
<1> USE MachineAssumption
<1>1. Init => XInv
  BY XInvInit DEF Init
<1>2. XInv /\ [Next]_<<x86Vars, devVars>> => XInv'
  <2>1. ASSUME XInv, Next PROVE XInv'
    BY <2>1, XInvStep, XKept, CallLeaves DEF Next
  <2>2. ASSUME XInv, UNCHANGED <<x86Vars, devVars>> PROVE XInv'
    BY <2>2, XKept DEF x86Vars
  <2> QED BY <2>1, <2>2
<1> QED BY <1>1, <1>2, PTL DEF Spec

LEMMA AloneAlways ==
    ASSUME NoHole, ~Overlap
    PROVE  Spec => [](XInv /\ AloneInv)
<1> USE MachineAssumption
<1>1. Init => AloneInv
  BY AloneInit DEF Init
<1>2. XInv /\ AloneInv /\ [Next]_<<x86Vars, devVars>> => AloneInv'
  <2>1. ASSUME XInv, AloneInv, Next PROVE AloneInv'
    BY <2>1, AloneStep, AloneSame, CallLeaves DEF Next
  <2>2. ASSUME AloneInv, UNCHANGED <<x86Vars, devVars>> PROVE AloneInv'
    BY <2>2, AloneSame DEF x86Vars
  <2> QED BY <2>1, <2>2
<1>3. Spec => []XInv
  BY XAlways
<1> QED BY <1>1, <1>2, <1>3, PTL DEF Spec

LEMMA DevAlways ==
    ASSUME NoHole
    PROVE  Spec => []DevInv
<1> USE MachineAssumption, DevAssumption
<1>1. Init => DevInv
  BY DevInvInit DEF Init
<1>2. XInv /\ DevInv /\ [Next]_<<x86Vars, devVars>> => DevInv'
  <2>1. ASSUME XInv, DevInv, Next PROVE DevInv'
    BY <2>1, DevStep
  <2>2. ASSUME DevInv, UNCHANGED <<x86Vars, devVars>> PROVE DevInv'
    BY <2>2 DEF devVars, DevInv, TablesOK, LimitSetOrBetween, PerfStateKept,
                x86_ht_get_cstate_limit
  <2> QED BY <2>1, <2>2
<1>3. Spec => []XInv
  BY XAlways
<1> QED BY <1>1, <1>2, <1>3, PTL DEF Spec

\* The parents of a hardware thread are the core and the socket that the
\* topology files of its CPU name, unless the CPU was taken offline or online
\* while the hierarchy was built (x86_find_ht, x86_find_core,
\* x86_find_socket); every object is below an object and a socket comes with
\* its memory.  For any machine whose possible CPUs have no holes, and a
\* program with one context at a time.
THEOREM ObjectsPlaced ==
    ASSUME NoHole, ~Overlap
    PROVE  Spec => []Placed
<1>1. XInv /\ AloneInv => Placed
  <2> SUFFICES ASSUME XInv, AloneInv, NEW c \in Ctxs, NEW n \in DOMAIN tree[c]
               PROVE  /\ n # Node => tree[c][n].parent \in DOMAIN tree[c]
                      /\ n[1] = "ht" /\ n[2] \notin unplugged =>
                            /\ tree[c][n].parent = <<"core", Machine.topo[n[2]][1], Machine.topo[n[2]][2]>>
                            /\ tree[c][tree[c][n].parent].parent = <<"socket", Machine.topo[n[2]][1]>>
                      /\ n[1] = "socket" =>
                            /\ <<"mem", n[2]>> \in DOMAIN tree[c]
                            /\ tree[c][n].via \notin unplugged =>
                                  Machine.topo[tree[c][n].via][1] = n[2]
    BY Zenon DEF Placed
  <2> DEFINE t == tree[c]
             p == Machine.topo[n[2]][1]
             k == Machine.topo[n[2]][2]
  <2>1. TreeOK(t) /\ InPlace(t, n)
    BY Zenon DEF XInv, AloneInv
  <2>2. ObjOK(t, n)
    BY <2>1, Zenon DEF TreeOK
  <2>3. ASSUME n[1] = "ht", n[2] \notin unplugged
        PROVE  t[n].parent = <<"core", p, k>> /\ t[t[n].parent].parent = <<"socket", p>>
    <3>1. t[n].parent = <<"core", p, k>>
      BY <2>1, <2>3, Zenon DEF InPlace
    <3>2. n # Node
      BY <2>3 DEF Node
    <3>3. t[n].parent \in DOMAIN t
      BY <2>2, <3>2, Zenon DEF ObjOK
    <3>4. ObjOK(t, t[n].parent)
      BY <2>1, <3>3, Zenon DEF TreeOK
    <3> HIDE DEF t, p, k
    <3>5. <<"core", p, k>>[1] = "core" /\ <<"core", p, k>>[2] = p
      OBVIOUS
    <3> QED BY <3>1, <3>4, <3>5 DEF ObjOK
  <2> QED BY <2>1, <2>2, <2>3, Zenon DEF ObjOK, InPlace
<1>2. Spec => [](XInv /\ AloneInv)
  BY AloneAlways
<1> QED BY <1>1, <1>2, PTL

\* A finished hierarchy has one hardware thread for each online CPU and no
\* other, if no CPU was taken offline or online meanwhile
\* (x86_read_topology's loop over the possible CPUs, for any list the kernel
\* prints for them).
THEOREM HtsAreOnline ==
    ASSUME NoHole, InMask, ~Overlap
    PROVE  Spec => []OnlineCpusOnly
<1>1. XInv /\ AloneInv => OnlineCpusOnly
  <2> SUFFICES ASSUME XInv, AloneInv, NEW c \in Ctxs, Live(c), unplugged = {}
               PROVE  Hts(tree[c]) = online
    BY Zenon DEF OnlineCpusOnly
  <2>1. Hts(tree[c]) = {i \in online : i < Machine.max}
    BY Zenon DEF AloneInv
  <2>2. \A i \in online : i < Machine.max
    BY DEF XInv, InMask
  <2> QED BY <2>1, <2>2
<1>2. Spec => [](XInv /\ AloneInv)
  BY AloneAlways
<1> QED BY <1>1, <1>2, PTL

\* PWR_SetSleepStateLimit that succeeds leaves the limit that the table maps
\* its sleep state to, and reading the table back gives a state of the same
\* C-state; when the daemon stops at one of the files (write_cstate_limit)
\* the limit is between the old one and the wanted one, if the C-states beyond
\* the old one were all disabled.  For any number of C-states.
THEOREM LimitAlwaysSet ==
    ASSUME NoHole
    PROVE  Spec => []LimitSetOrBetween
<1>1. DevInv => LimitSetOrBetween
  BY DEF DevInv
<1>2. Spec => []DevInv
  BY DevAlways
<1> QED BY <1>1, <1>2, PTL

\* After PWR_SetPerfState succeeded the CPU runs at the frequency of the
\* state under the userspace governor, PWR_GetPerfState can find the
\* frequency in the tables (init_freqs, map_freq_to_ps), and the fastest and
\* the slowest state are the ends of what sysfs lists.  For any frequencies.
THEOREM PerfStateAlwaysKept ==
    ASSUME NoHole
    PROVE  Spec => []PerfStateKept
<1>1. DevInv => PerfStateKept
  BY DEF DevInv
<1>2. Spec => []DevInv
  BY DevAlways
<1> QED BY <1>1, <1>2, PTL

=============================================================================
