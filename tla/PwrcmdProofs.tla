----------------------------- MODULE PwrcmdProofs -----------------------------
(***************************************************************************)
(* The reports of pwrcmd, for any hierarchy, any lines, any length of a    *)
(* session and any accesses that fail.                                     *)
(***************************************************************************)
EXTENDS Pwrcmd, FiniteSetTheorems, SequenceTheorems, WellFoundedInduction, TLAPS

-----------------------------------------------------------------------------
(* Folds over a sequence.                                                  *)

\* A non-empty set of numbers has a least element.
LEMMA Least ==
    ASSUME NEW T \in SUBSET Nat, T # {}
    PROVE  \E x \in T : \A y \in T : x <= y
<1> DEFINE R == {ss \in Nat \X Nat : ss[1] < ss[2]}
<1>1. IsWellFoundedOn(R, Nat)
  BY NatLessThanWellFounded, Zenon DEF OpToRel
<1>2. \A x, y \in Nat : y < x => <<y, x>> \in R
  OBVIOUS
<1> HIDE DEF R
<1>3. PICK x \in T : \A y \in T : ~ (<<y, x>> \in R)
  BY <1>1, WFMin
<1>4. ASSUME NEW y \in T PROVE x <= y
  <2>1. x \in Nat /\ y \in Nat
    OBVIOUS
  <2>2. ~ (y < x)
    BY <2>1, <1>2, <1>3
  <2> QED BY <2>1, <2>2
<1> QED BY <1>4

\* Induction over the numbers, on the set of those that have the property.
LEMMA Induction ==
    ASSUME NEW T, 0 \in T, \A n \in Nat : n \in T => n + 1 \in T
    PROVE  \A n \in Nat : n \in T
<1> SUFFICES ASSUME NEW n \in Nat, n \notin T PROVE FALSE
  OBVIOUS
<1> DEFINE R == {m \in Nat : m \notin T}
<1>1. PICK x \in R : \A y \in R : x <= y
  BY Least
<1>2. x # 0 /\ x - 1 \in Nat
  OBVIOUS
<1>3. x - 1 \in T
  BY <1>1, <1>2
<1> QED BY <1>2, <1>3

LEMMA Greatest ==
    ASSUME NEW n \in Nat, NEW s \in SUBSET (1..n), s # {}
    PROVE  Max(s) \in s /\ \A y \in s : y <= Max(s)
<1> DEFINE T == {m \in Nat : \E x \in s : m = n - x}
<1>1. PICK x0 \in s : TRUE
  OBVIOUS
<1>2. x0 \in 1..n /\ n - x0 \in T
  OBVIOUS
<1>3. T \in SUBSET Nat /\ T # {}
  BY <1>2
<1>4. PICK m \in T : \A y \in T : m <= y
  <2> HIDE DEF T
  <2> QED BY <1>3, Least
<1>5. PICK x \in s : m = n - x
  BY <1>4
<1>6. ASSUME NEW y \in s PROVE y <= x
  <2>1. y \in 1..n /\ x \in 1..n /\ n - y \in T
    OBVIOUS
  <2>2. m <= n - y
    BY <1>4, <2>1
  <2> QED BY <1>5, <2>1, <2>2
<1>7. \E k \in s : \A y \in s : k >= y
  <2>1. \A y \in s : y \in Int
    OBVIOUS
  <2> QED BY <1>6, <2>1
<1>8. Max(s) \in s /\ \A y \in s : Max(s) >= y
  <2> DEFINE P(k) == \A y \in s : k >= y
  <2>1. \E k \in s : P(k)
    BY <1>7
  <2>2. Max(s) = CHOOSE k \in s : P(k)
    BY DEF Max
  <2> HIDE DEF P
  <2>3. Max(s) \in s /\ P(Max(s))
    BY <2>1, <2>2
  <2> QED BY <2>3 DEF P
<1>9. \A y \in s : y \in Int
  OBVIOUS
<1> QED BY <1>8, <1>9

\* One turn of a fold with the function f, from the last element of s.
Turn(g, f, base, s) == IF s = {} THEN base ELSE f[<<g[s \ {Max(s)}], Max(s)>>]

Folds(n, A, base, f) ==
    \E g \in [SUBSET (1..n) -> A] : \A s \in SUBSET (1..n) : g[s] = Turn(g, f, base, s)

\* The function that MapThenFoldSet defines exists, if the values stay in a set.
LEMMA FoldExists ==
    ASSUME NEW n \in Nat, NEW A, NEW base \in A, NEW f \in [A \X (1..n) -> A]
    PROVE  Folds(n, A, base, f)
<1> DEFINE Small(m) == {s \in SUBSET (1..n) : Cardinality(s) <= m}
           Solves(g, m) == g \in [Small(m) -> A]
                           /\ \A s \in Small(m) : g[s] = Turn(g, f, base, s)
           T == {m \in Nat : \E g : Solves(g, m)}
<1>1. ASSUME NEW s \in SUBSET (1..n)
      PROVE  IsFiniteSet(s) /\ Cardinality(s) \in Nat /\ Cardinality(s) <= n
             /\ (Cardinality(s) = 0 <=> s = {})
  <2>1. IsFiniteSet(1..n) /\ Cardinality(1..n) = n
    BY FS_Interval
  <2>2. IsFiniteSet(s) /\ Cardinality(s) <= n
    <3>1. IsFiniteSet(s) /\ Cardinality(s) <= Cardinality(1..n)
      BY <2>1, FS_Subset, Zenon
    <3> QED BY <2>1, <3>1
  <2>3. Cardinality(s) \in Nat /\ (Cardinality(s) = 0 <=> s = {})
    BY <2>2, FS_CardinalityType, FS_EmptySet
  <2> QED BY <2>2, <2>3
<1>2. ASSUME NEW s \in SUBSET (1..n), s # {}
      PROVE  /\ Max(s) \in 1..n /\ s \ {Max(s)} \in SUBSET (1..n)
             /\ Cardinality(s \ {Max(s)}) = Cardinality(s) - 1
  <2>1. Max(s) \in s
    BY <1>2, Greatest
  <2> QED BY <1>1, <2>1, FS_RemoveElement
<1>3. 0 \in T
  <2> DEFINE g == [s \in Small(0) |-> base]
  <2>1. \A s \in Small(0) : s = {}
    BY <1>1
  <2>2. g \in [Small(0) -> A]
    OBVIOUS
  <2>3. \A s \in Small(0) : g[s] = Turn(g, f, base, s)
    BY <2>1 DEF Turn
  <2>4. Solves(g, 0)
    BY <2>2, <2>3
  <2> HIDE DEF Solves
  <2> QED BY <2>4
<1>4. ASSUME NEW m \in Nat, m \in T PROVE m + 1 \in T
  <2>1. PICK h : Solves(h, m)
    BY <1>4
  <2> DEFINE g == [s \in Small(m + 1) |-> Turn(h, f, base, s)]
  <2>2. ASSUME NEW s \in Small(m + 1)
        PROVE  Turn(h, f, base, s) \in A
               /\ (s # {} => s \ {Max(s)} \in Small(m))
    <3>1. CASE s = {}
      BY <3>1 DEF Turn
    <3>2. CASE s # {}
      <4>1. s \ {Max(s)} \in Small(m) /\ Max(s) \in 1..n
        BY <1>1, <1>2, <3>2
      <4>2. h[s \ {Max(s)}] \in A
        BY <2>1, <4>1
      <4>3. Turn(h, f, base, s) = f[<<h[s \ {Max(s)}], Max(s)>>]
        BY <3>2 DEF Turn
      <4> QED BY <4>1, <4>2, <4>3
    <3> QED BY <3>1, <3>2
  <2>3. \A s \in Small(m) : s \in Small(m + 1) /\ g[s] = h[s]
    <3>1. ASSUME NEW s \in Small(m) PROVE s \in Small(m + 1)
      BY <1>1
    <3>2. ASSUME NEW s \in Small(m) PROVE g[s] = h[s]
      BY <2>1, <3>1
    <3> QED BY <3>1, <3>2
  <2>4. \A s \in Small(m + 1) : g[s] = Turn(g, f, base, s)
    <3>1. ASSUME NEW s \in Small(m + 1) PROVE Turn(h, f, base, s) = Turn(g, f, base, s)
      <4>1. CASE s = {}
        BY <4>1 DEF Turn
      <4>2. CASE s # {}
        <5>1. g[s \ {Max(s)}] = h[s \ {Max(s)}]
          BY <2>2, <2>3, <4>2
        <5> HIDE DEF g
        <5> QED BY <4>2, <5>1 DEF Turn
      <4> QED BY <4>1, <4>2
    <3> QED BY <3>1
  <2>5. g \in [Small(m + 1) -> A]
    BY <2>2
  <2> HIDE DEF g
  <2>6. Solves(g, m + 1)
    BY <2>4, <2>5
  <2> HIDE DEF Solves
  <2> QED BY <2>6
<1>5. n \in T
  <2> HIDE DEF T
  <2> QED BY <1>3, <1>4, Induction
<1>6. PICK g : Solves(g, n)
  BY <1>5
<1>7. Small(n) = SUBSET (1..n)
  BY <1>1
<1> QED BY <1>6, <1>7 DEF Folds

\* A fold of a sequence meets its prefixes only.
LEMMA Prefix ==
    ASSUME NEW n \in Nat, NEW m \in 1..n
    PROVE  1..m \in SUBSET (1..n) /\ 1..m # {} /\ Max(1..m) = m /\ (1..m) \ {m} = 1..(m - 1)
<1>1. 1..m \in SUBSET (1..n) /\ m \in 1..m
  OBVIOUS
<1>2. Max(1..m) \in 1..m /\ m <= Max(1..m)
  BY <1>1, Greatest
<1> QED BY <1>1, <1>2

-----------------------------------------------------------------------------
(* Parts of a sequence.                                                    *)

\* The place of k among the elements of F.
Rank(F, k) == Cardinality({j \in F : j <= k})

\* A set with n elements has an e-th smallest for each e up to n, and each of
\* its elements is the e-th smallest for one e.
LEMMA NthIs ==
    ASSUME NEW n \in Nat, NEW F \in SUBSET (1..n)
    PROVE  /\ Cardinality(F) \in Nat
           /\ \A e \in 1..Cardinality(F) : Nth(F, e) \in F /\ Rank(F, Nth(F, e)) = e
           /\ \A k \in F : Rank(F, k) \in 1..Cardinality(F) /\ Nth(F, Rank(F, k)) = k
<1> DEFINE c == Cardinality(F)
           Upto(k) == {j \in F : j <= k}
           rank == [k \in F |-> Rank(F, k)]
<1>1. IsFiniteSet(F) /\ c \in Nat
  <2>1. IsFiniteSet(1..n)
    BY FS_Interval
  <2> QED BY <2>1, FS_Subset, FS_CardinalityType
<1>2. F \subseteq Nat
  OBVIOUS
<1>3. ASSUME NEW k \in F
      PROVE  IsFiniteSet(Upto(k)) /\ Rank(F, k) \in 1..c
  <2>1. Upto(k) \in SUBSET F /\ k \in Upto(k)
    BY <1>2
  <2>2. IsFiniteSet(Upto(k)) /\ Cardinality(Upto(k)) <= c /\ Cardinality(Upto(k)) \in Nat
    BY <1>1, <2>1, FS_Subset, FS_CardinalityType
  <2>3. Cardinality(Upto(k)) # 0
    BY <2>1, <2>2, FS_EmptySet
  <2> QED BY <2>2, <2>3, <1>1 DEF Rank
<1>4. ASSUME NEW j \in F, NEW k \in F, j < k
      PROVE  Rank(F, j) # Rank(F, k)
  <2>0. j \in Nat /\ k \in Nat
    BY <1>2
  <2>1. Upto(j) \in SUBSET Upto(k) /\ k \in Upto(k) /\ k \notin Upto(j)
    <3>1. \A i \in F : i \in Nat /\ (i <= j => i <= k)
      BY <1>2, <1>4, <2>0
    <3>2. k <= k /\ ~ (k <= j)
      BY <1>4, <2>0
    <3> QED BY <3>1, <3>2
  <2>2. Upto(j) # Upto(k)
    BY <2>1
  <2>3. Cardinality(Upto(k)) # Cardinality(Upto(j))
    BY <1>3, <2>1, <2>2, FS_Subset
  <2> QED BY <2>3 DEF Rank
<1>5. ASSUME NEW j \in F, NEW k \in F, Rank(F, j) = Rank(F, k)
      PROVE  j = k
  BY <1>2, <1>4, <1>5
<1>6. rank \in Injection(F, 1..c)
  <2>1. rank \in [F -> 1..c]
    BY <1>3
  <2>2. \A a, b \in F : rank[a] = rank[b] => a = b
    BY <1>5
  <2> QED BY <2>1, <2>2 DEF Injection, IsInjective
<1>7. rank \in Surjection(F, 1..c)
  <2>1. IsFiniteSet(1..c) /\ Cardinality(1..c) = c
    BY <1>1, FS_Interval
  <2> QED BY <1>6, <2>1, FS_Injection
<1>8. ASSUME NEW e \in 1..c
      PROVE  Nth(F, e) \in F /\ Rank(F, Nth(F, e)) = e
  <2>1. \E k \in F : Rank(F, k) = e
    BY <1>7 DEF Surjection
  <2> QED BY <2>1 DEF Nth, Rank
<1>9. ASSUME NEW k \in F
      PROVE  Rank(F, k) \in 1..c /\ Nth(F, Rank(F, k)) = k
  BY <1>3, <1>5, <1>8
<1> QED BY <1>1, <1>8, <1>9

LEMMA IsSeq ==
    ASSUME NEW m \in Nat, NEW S, NEW f \in [1..m -> S]
    PROVE  f \in Seq(S) /\ Len(f) = m
OBVIOUS

LEMMA PickedIs ==
    ASSUME NEW S, NEW s \in Seq(S), NEW P \in SUBSET DOMAIN s
    PROVE  LET p == Picked(s, P) IN
           /\ p \in Seq(S) /\ Len(p) = Cardinality(P)
           /\ \A e \in 1..Len(p) : Nth(P, e) \in P /\ p[e] = s[Nth(P, e)]
           /\ \A k \in P : Rank(P, k) \in 1..Len(p) /\ Nth(P, Rank(P, k)) = k
           /\ \A e \in 1..Len(p) : Rank(P, Nth(P, e)) = e
<1> DEFINE n == Len(s)
           c == Cardinality(P)
           p == [e \in 1..c |-> s[Nth(P, e)]]
<1>1. n \in Nat /\ DOMAIN s = 1..n /\ P \in SUBSET (1..n)
  OBVIOUS
<1> HIDE DEF n
<1>2. /\ c \in Nat
      /\ \A e \in 1..c : Nth(P, e) \in P /\ Rank(P, Nth(P, e)) = e
      /\ \A k \in P : Rank(P, k) \in 1..c /\ Nth(P, Rank(P, k)) = k
  BY <1>1, NthIs
<1>3. \A k \in 1..n : s[k] \in S
  BY <1>1
<1> HIDE DEF c
<1>4. p \in [1..c -> S]
  BY <1>1, <1>2, <1>3
<1>5. \A e \in 1..c : p[e] = s[Nth(P, e)]
  OBVIOUS
<1> HIDE DEF p
<1>6. p \in Seq(S) /\ Len(p) = c
  BY <1>2, <1>4, IsSeq
<1>7. Picked(s, P) = p
  BY DEF Picked, p, c
<1> QED BY <1>2, <1>5, <1>6, <1>7 DEF c

Injective(s) == \A i, k \in 1..Len(s) : s[i] = s[k] => i = k

LEMMA OnlyIs ==
    ASSUME NEW S, NEW s \in Seq(S), NEW K
    PROVE  LET p == Only(s, K) IN
           /\ p \in Seq(S) /\ Len(p) \in Nat
           /\ ToSet(p) = ToSet(s) \cap K
           /\ p = <<>> <=> ToSet(s) \cap K = {}
           /\ Injective(s) => Injective(p)
<1> DEFINE P == {k \in DOMAIN s : s[k] \in K}
           p == Only(s, K)
<1>1. p = Picked(s, P)
  BY DEF Only
<1>2. P \in SUBSET DOMAIN s
  OBVIOUS
<1>3. /\ p \in Seq(S)
      /\ \A e \in 1..Len(p) : Nth(P, e) \in P /\ p[e] = s[Nth(P, e)]
      /\ \A k \in P : Rank(P, k) \in 1..Len(p) /\ Nth(P, Rank(P, k)) = k
      /\ \A e \in 1..Len(p) : Rank(P, Nth(P, e)) = e
  <2> HIDE DEF P, p
  <2> QED BY <1>1, <1>2, PickedIs
<1> HIDE DEF p
<1>4. DOMAIN p = 1..Len(p) /\ DOMAIN s = 1..Len(s) /\ Len(p) \in Nat
  BY <1>3
<1>5. ASSUME NEW x \in ToSet(p) PROVE x \in ToSet(s) \cap K
  <2>1. PICK e \in 1..Len(p) : x = p[e]
    BY <1>4 DEF ToSet
  <2>2. Nth(P, e) \in P /\ x = s[Nth(P, e)]
    BY <1>3, <2>1
  <2> QED BY <2>2 DEF ToSet
<1>6. ASSUME NEW x \in ToSet(s) \cap K PROVE x \in ToSet(p)
  <2>1. PICK k \in DOMAIN s : x = s[k]
    BY DEF ToSet
  <2>2. k \in P
    BY <2>1
  <2>3. Rank(P, k) \in 1..Len(p) /\ p[Rank(P, k)] = s[k]
    <3> HIDE DEF P
    <3> QED BY <1>3, <2>2
  <2> QED BY <1>4, <2>1, <2>3 DEF ToSet
<1>7. ToSet(p) = ToSet(s) \cap K
  BY <1>5, <1>6
<1>8. p = <<>> <=> ToSet(p) = {}
  <2>1. p = <<>> <=> Len(p) = 0
    BY <1>3
  <2>2. Len(p) = 0 <=> 1..Len(p) = {}
    <3>1. Len(p) # 0 => 1 \in 1..Len(p)
      BY <1>4
    <3>2. 1..0 = {}
      OBVIOUS
    <3> QED BY <3>1, <3>2
  <2>3. ToSet(p) = {} <=> 1..Len(p) = {}
    BY <1>4 DEF ToSet
  <2> QED BY <2>1, <2>2, <2>3
<1>9. ASSUME Injective(s) PROVE Injective(p)
  <2> SUFFICES ASSUME NEW i \in 1..Len(p), NEW k \in 1..Len(p), p[i] = p[k] PROVE i = k
    BY DEF Injective
  <2>1. Nth(P, i) \in 1..Len(s) /\ Nth(P, k) \in 1..Len(s) /\ s[Nth(P, i)] = s[Nth(P, k)]
    BY <1>3, <1>4
  <2>2. Nth(P, i) = Nth(P, k)
    BY <1>9, <2>1 DEF Injective
  <2> HIDE DEF P
  <2> QED BY <1>3, <2>2
<1> QED BY <1>3, <1>4, <1>7, <1>8, <1>9 DEF p

\* A sequence is at least as long as its elements are many, and exactly so if
\* each occurs once.
LEMMA CountIs ==
    ASSUME NEW S, NEW s \in Seq(S)
    PROVE  /\ Cardinality(ToSet(s)) \in Nat /\ Cardinality(ToSet(s)) <= Len(s)
           /\ Cardinality(ToSet(s)) = Len(s) <=> Injective(s)
<1> DEFINE n == Len(s)
           T == ToSet(s)
<1>1. n \in Nat /\ DOMAIN s = 1..n /\ T = {s[i] : i \in 1..n}
  BY DEF ToSet
<1>2. s \in [1..n -> T]
  BY <1>1
<1>3. s \in Surjection(1..n, T)
  BY <1>1, <1>2 DEF Surjection
<1>4. IsFiniteSet(1..n) /\ Cardinality(1..n) = n
  BY <1>1, FS_Interval
<1>5. /\ IsFiniteSet(T) /\ Cardinality(T) <= n
      /\ Cardinality(T) = n <=> s \in Injection(1..n, T)
  BY <1>3, <1>4, FS_Surjection
<1>6. Cardinality(T) \in Nat
  BY <1>5, FS_CardinalityType
<1>7. s \in Injection(1..n, T) <=> Injective(s)
  BY <1>1, <1>2 DEF Injection, IsInjective, Injective
<1> QED BY <1>5, <1>6, <1>7

-----------------------------------------------------------------------------
(* io.c.                                                                   *)

\* What goes wrong, and where the array of error messages is.
Errors  == {"FAILURE", "NO_OBJ_BY_NAME", "BAD_VALUE", "NOT_IMPLEMENTED", "NO_META", "READ_ONLY",
            "BAD_INDEX", "WARN_NO_PARENT", "WARN_NO_CHILDREN", "WARN_TRUNC"}
Code    == Errors \cup {"SUCCESS"}
Pointer == {"none", "live", "freed"}

LEMMA Failure ==
    "SUCCESS" \notin Errors /\ "none" \in Pointer /\ "live" \in Pointer /\ "freed" \in Pointer
BY DEF Errors, Pointer

\* The document has its fields, and its code is that of the first error.
Good(j) ==
    /\ j \in [on : BOOLEAN, ret : Code, any : BOOLEAN, body : {j.body}, errs : Seq(Errors),
              cerrmsgs : Pointer, ub : BOOLEAN, first : Code]
    /\ j.ret = j.first

\* An error is put into the document, and makes it one that must be shown.
LEMMA PrintGood ==
    ASSUME NEW j, Good(j), NEW code \in Errors
    PROVE  LET p == json_print(j, code) IN
           /\ Good(p) /\ p.on = j.on /\ p.body = j.body
           /\ j.on => p.any /\ p.ret # "SUCCESS"
<1> DEFINE S == [on : BOOLEAN, ret : Code, any : BOOLEAN, body : {j.body}, errs : Seq(Errors),
                 cerrmsgs : Pointer, ub : BOOLEAN, first : Code]
           p == json_print(j, code)
<1>1. j \in S /\ j.ret = j.first
  BY DEF Good
<1>2. CASE ~ j.on
  BY <1>2 DEF json_print
<1>3. CASE j.on
  <2> DEFINE k == [j EXCEPT !.ret = IF @ = "SUCCESS" THEN code ELSE @]
  <2>1. k \in S /\ k.ret = (IF j.ret = "SUCCESS" THEN code ELSE j.ret) /\ k.first = j.ret
        /\ k.on = j.on /\ k.errs = j.errs /\ k.ret # "SUCCESS"
    BY <1>1, Failure DEF Code
  <2>2. p = [k EXCEPT !.any = TRUE,
               !.first = IF @ = "SUCCESS" THEN code ELSE @,
               !.errs = IF j.cerrmsgs = "freed" THEN @ ELSE Append(@, code),
               !.cerrmsgs = IF @ = "none" THEN "live" ELSE @,
               !.ub = @ \/ j.cerrmsgs = "freed"]
    BY <1>3 DEF json_print, json_set_ret_code
  <2> HIDE DEF k, p
  <2>3. p \in S /\ p.any /\ p.ret = k.ret /\ p.first = k.ret /\ p.on = j.on
    <3> DEFINE first == IF k.first = "SUCCESS" THEN code ELSE k.first
               errs == IF j.cerrmsgs = "freed" THEN k.errs ELSE Append(k.errs, code)
               cerrmsgs == IF k.cerrmsgs = "none" THEN "live" ELSE k.cerrmsgs
               ub == k.ub \/ j.cerrmsgs = "freed"
    <3>1. first \in Code /\ errs \in Seq(Errors) /\ cerrmsgs \in Pointer /\ ub \in BOOLEAN
      <4>1. k.ub \in BOOLEAN /\ k.errs \in Seq(Errors) /\ k.first \in Code /\ k.cerrmsgs \in Pointer
        BY <2>1
      <4>2. Append(k.errs, code) \in Seq(Errors)
        BY <4>1
      <4>3. ub \in BOOLEAN
        OBVIOUS
      <4>4. first \in Code /\ errs \in Seq(Errors)
        BY <4>1, <4>2 DEF Code
      <4>5. cerrmsgs \in Pointer
        BY <4>1, Failure
      <4> QED BY <4>3, <4>4, <4>5
    <3>2. first = k.ret
      BY <2>1
    <3>3. p = [k EXCEPT !.any = TRUE, !.first = first, !.errs = errs,
                        !.cerrmsgs = cerrmsgs, !.ub = ub]
      BY <2>1, <2>2
    <3> HIDE DEF first, errs, cerrmsgs, ub
    <3> QED BY <2>1, <3>1, <3>2, <3>3
  <2>4. p.body = j.body
    BY <2>3
  <2>5. Good(p)
    BY <2>3, <2>4 DEF Good
  <2> QED BY <2>1, <2>3, <2>4, <2>5 DEF p
<1> QED BY <1>2, <1>3

\* PrintAll prints the codes one after the other.
LEMMA PrintAllIs ==
    ASSUME NEW j, Good(j), NEW codes \in Seq(Errors)
    PROVE  \E r : /\ r[0] = j /\ r[Len(codes)] = PrintAll(j, codes)
                  /\ \A m \in 1..Len(codes) : r[m] = json_print(r[m - 1], codes[m])
<1> DEFINE n == Len(codes)
           A == {k \in [on : BOOLEAN, ret : Code, any : BOOLEAN, body : {j.body},
                        errs : Seq(Errors), cerrmsgs : Pointer, ub : BOOLEAN, first : Code] :
                   Good(k)}
           f == [x \in A \X (1..n) |-> json_print(x[1], codes[x[2]])]
           Iter(g) == g = [s \in SUBSET (DOMAIN codes) |->
                             IF s = {} THEN j ELSE json_print(g[s \ {Max(s)}], codes[Max(s)])]
           iter == CHOOSE g : Iter(g)
<1>1. n \in Nat /\ DOMAIN codes = 1..n /\ \A m \in 1..n : codes[m] \in Errors
  OBVIOUS
<1>2. PrintAll(j, codes) = iter[1..n]
  <2>1. PrintAll(j, codes) = iter[DOMAIN codes]
    BY Zenon DEF PrintAll, FoldLeft, MapThenFoldSet
  <2> QED BY <1>1, <2>1
<1> HIDE DEF n
<1>3. j \in A
  BY DEF Good
<1>4. f \in [A \X (1..n) -> A]
  <2>1. ASSUME NEW k \in A, NEW m \in 1..n PROVE json_print(k, codes[m]) \in A
    <3>1. Good(k) /\ k.body = j.body /\ codes[m] \in Errors
      BY <1>1
    <3>2. Good(json_print(k, codes[m])) /\ json_print(k, codes[m]).body = j.body
      BY <3>1, PrintGood
    <3> QED BY <3>2 DEF Good
  <2> HIDE DEF A
  <2> QED BY <2>1
<1>5. PICK h \in [SUBSET (1..n) -> A] : \A s \in SUBSET (1..n) : h[s] = Turn(h, f, j, s)
  <2> HIDE DEF A, f
  <2>1. Folds(n, A, j, f)
    BY <1>1, <1>3, <1>4, FoldExists
  <2> QED BY <2>1 DEF Folds
<1>6. Iter(h)
  <2>1. ASSUME NEW s \in SUBSET (1..n), s # {}
        PROVE  h[s] = json_print(h[s \ {Max(s)}], codes[Max(s)])
    <3>1. Max(s) \in 1..n /\ s \ {Max(s)} \in SUBSET (1..n)
      BY <1>1, <2>1, Greatest
    <3>2. h[s \ {Max(s)}] \in A
      BY <3>1
    <3>3. h[s] = f[<<h[s \ {Max(s)}], Max(s)>>]
      BY <1>5, <2>1 DEF Turn
    <3> HIDE DEF A
    <3> QED BY <3>1, <3>2, <3>3
  <2>2. h[{}] = j
    BY <1>5 DEF Turn
  <2> HIDE DEF A
  <2>3. h = [s \in SUBSET (1..n) |->
               IF s = {} THEN j ELSE json_print(h[s \ {Max(s)}], codes[Max(s)])]
    BY <2>1, <2>2
  <2> QED BY <1>1, <2>3
<1>7. Iter(iter)
  <2> HIDE DEF Iter
  <2> QED BY <1>6
<1> HIDE DEF iter
<1> DEFINE r == [m \in 0..n |-> iter[1..m]]
<1>8. iter[{}] = j /\ \A m \in 1..n : iter[1..m] = json_print(iter[1..(m - 1)], codes[m])
  <2>1. \A s \in SUBSET (1..n) : iter[s] = IF s = {} THEN j
                                          ELSE json_print(iter[s \ {Max(s)}], codes[Max(s)])
    BY <1>1, <1>7
  <2> QED BY <1>1, <2>1, Prefix
<1>9. 1..0 = {}
  OBVIOUS
<1>10. r[0] = j /\ r[n] = iter[1..n]
  BY <1>1, <1>8, <1>9
<1>11. \A m \in 1..n : r[m] = json_print(r[m - 1], codes[m])
  <2>1. ASSUME NEW m \in 1..n PROVE r[m] = iter[1..m] /\ r[m - 1] = iter[1..(m - 1)]
    BY <1>1
  <2> HIDE DEF r
  <2> QED BY <1>8, <2>1
<1> QED BY <1>2, <1>10, <1>11 DEF n

LEMMA PrintAllGood ==
    ASSUME NEW j, Good(j), NEW codes \in Seq(Errors)
    PROVE  LET p == PrintAll(j, codes) IN
           /\ Good(p) /\ p.on = j.on /\ p.body = j.body
           /\ IF codes = <<>> THEN p = j ELSE j.on => p.any /\ p.ret # "SUCCESS"
<1>1. PICK r : /\ r[0] = j /\ r[Len(codes)] = PrintAll(j, codes)
               /\ \A m \in 1..Len(codes) : r[m] = json_print(r[m - 1], codes[m])
  BY PrintAllIs
<1> DEFINE Same(p) == Good(p) /\ p.on = j.on /\ p.body = j.body
           T == {m \in Nat : m <= Len(codes) => Same(r[m])}
<1>2. 0 \in T
  BY <1>1
<1>3. ASSUME NEW m \in Nat, m \in T PROVE m + 1 \in T
  <2> SUFFICES ASSUME m + 1 <= Len(codes) PROVE Same(r[m + 1])
    OBVIOUS
  <2>1. Same(r[m])
    BY <1>3
  <2>2. r[m + 1] = json_print(r[m], codes[m + 1]) /\ codes[m + 1] \in Errors
    BY <1>1
  <2>3. Good(json_print(r[m], codes[m + 1])) /\ json_print(r[m], codes[m + 1]).on = r[m].on
        /\ json_print(r[m], codes[m + 1]).body = r[m].body
    <3>1. Good(r[m])
      BY <2>1
    <3> QED BY <2>2, <3>1, PrintGood
  <2> QED BY <2>1, <2>2, <2>3
<1>4. \A m \in Nat : m \in T
  <2> HIDE DEF T
  <2> QED BY <1>2, <1>3, Induction
<1>5. Len(codes) \in Nat /\ (codes = <<>> => Len(codes) = 0)
  OBVIOUS
<1>6. Same(r[Len(codes)])
  BY <1>4, <1>5
<1>7. ASSUME codes # <<>>, j.on PROVE PrintAll(j, codes).any /\ PrintAll(j, codes).ret # "SUCCESS"
  <2> DEFINE m == Len(codes) - 1
  <2>1. m \in Nat /\ m + 1 = Len(codes) /\ codes[m + 1] \in Errors /\ m + 1 \in 1..Len(codes)
    BY <1>7
  <2>2. Good(r[m]) /\ r[m].on
    <3>1. m \in Nat /\ m <= Len(codes)
      BY <1>5, <2>1
    <3> HIDE DEF m
    <3>2. m \in T
      BY <1>4, <3>1
    <3> QED BY <1>7, <3>1, <3>2
  <2>3. r[m + 1] = json_print(r[m], codes[m + 1])
    BY <1>1, <2>1
  <2> HIDE DEF m
  <2>4. r[m + 1].any /\ r[m + 1].ret # "SUCCESS"
    BY <2>1, <2>2, <2>3, PrintGood
  <2> QED BY <1>1, <2>1, <2>4
<1> QED BY <1>1, <1>5, <1>6, <1>7

-----------------------------------------------------------------------------
(* The command line.                                                       *)

\* The arguments of a line, and what an option may store.
Args(line)  == {o.arg : o \in ToSet(line)} \cup {<<>>}
Words(line) == {o.arg[1] : o \in ToSet(line)} \cup {"invalid", "NOT_SPECIFIED", -1}
Opts(line)  ==
    [type : Words(line), list : Words(line), trav : Words(line), attr : Words(line),
     meta : Words(line), index : Words(line), names : Args(line), attrs : Args(line),
     values : Args(line)]
Commands == {"get", "set", "list", "trav"}

\* An attribute that is alone is known.
Single(opt) == Len(opt.attrs) = 1 => opt.attr = opt.attrs[1] /\ opt.attr \in ToSet(AttrNames)

\* The type of the command comes with the option c.
Typed(flags, opt) == IF flags["c"] = 0 THEN opt.type = "invalid" ELSE opt.type \in Commands

\* What the getopt loop knows when it has not failed.
Scanned(line, flags) ==
    {x \in [flags : [Letters -> Nat], opt : Opts(line), bad : BOOLEAN] :
        ~ x.bad => /\ flags["c"] = 0 => Typed(x.flags, x.opt)
                   /\ Single(x.opt)}

LEMMA ScanKeeps ==
    ASSUME NEW line, NEW flags, NEW o \in ToSet(line), NEW x \in Scanned(line, flags)
    PROVE  ScanOption(x, o) \in Scanned(line, flags)
<1> DEFINE fs == [l \in Letters |->
                    IF l = "s" /\ o.letter = "j" THEN 0
                    ELSE IF l = o.letter THEN x.flags[l] + 1 ELSE x.flags[l]]
           bad == (o.letter \in Once /\ fs[o.letter] > 1) \/ ~GoodArg(o)
<1>1. CASE x.bad
  BY <1>1 DEF ScanOption
<1>2. CASE ~ x.bad
  <2>1. ScanOption(x, o) = IF bad THEN Scan(fs, x.opt, TRUE) ELSE Scan(fs, Store(x.opt, o), FALSE)
    BY <1>2 DEF ScanOption
  <2>2. x.flags \in [Letters -> Nat] /\ x.opt \in Opts(line)
    BY DEF Scanned
  <2>3. fs \in [Letters -> Nat]
    BY <2>2
  <2>4. CASE bad
    <3>1. Scan(fs, x.opt, TRUE) \in Scanned(line, flags)
      <4> HIDE DEF fs
      <4> QED BY <2>2, <2>3 DEF Scanned, Scan
    <3> QED BY <2>1, <2>4, <3>1
  <2>5. CASE ~ bad
    <3>1. GoodArg(o)
      BY <2>5
    <3>2. o.arg \in Args(line) /\ o.arg[1] \in Words(line)
      BY DEF Args, Words
    <3>3. Store(x.opt, o) \in Opts(line)
      BY <2>2, <3>2 DEF Store, Opts
    <3>4. fs["c"] = IF o.letter = "c" THEN x.flags["c"] + 1 ELSE x.flags["c"]
      BY DEF Letters
    <3>5. flags["c"] = 0 => Typed(fs, Store(x.opt, o))
      <4>1. CASE o.letter = "c"
        <5>1. o.arg[1] \in Commands
          BY <3>1, <4>1 DEF GoodArg, Commands
        <5>2. Store(x.opt, o).type = o.arg[1]
          BY <2>2, <4>1 DEF Store, Opts
        <5>3. x.flags["c"] \in Nat
          BY <2>2 DEF Letters
        <5>4. fs["c"] # 0
          BY <3>4, <4>1, <5>3
        <5> QED BY <5>1, <5>2, <5>4 DEF Typed
      <4>2. CASE o.letter # "c"
        <5>1. Store(x.opt, o).type = x.opt.type
          BY <2>2, <4>2 DEF Store, Opts
        <5>2. flags["c"] = 0 => Typed(x.flags, x.opt)
          BY <1>2 DEF Scanned
        <5> HIDE DEF fs
        <5> QED BY <3>4, <4>2, <5>1, <5>2 DEF Typed
      <4> QED BY <4>1, <4>2
    <3>6. Single(Store(x.opt, o))
      <4>1. CASE o.letter = "a"
        <5>1. Len(o.arg) # 1 \/ o.arg[1] \in ToSet(AttrNames)
          BY <3>1, <4>1 DEF GoodArg
        <5>2. Store(x.opt, o).attrs = o.arg
              /\ Store(x.opt, o).attr = IF Len(o.arg) = 1 THEN o.arg[1] ELSE x.opt.attr
          BY <2>2, <4>1 DEF Store, Opts
        <5> QED BY <5>1, <5>2 DEF Single
      <4>2. CASE o.letter # "a"
        <5>1. Store(x.opt, o).attrs = x.opt.attrs /\ Store(x.opt, o).attr = x.opt.attr
          BY <2>2, <4>2 DEF Store, Opts
        <5> QED BY <1>2, <5>1 DEF Single, Scanned
      <4> QED BY <4>1, <4>2
    <3> HIDE DEF fs
    <3>7. Scan(fs, Store(x.opt, o), FALSE) \in Scanned(line, flags)
      BY <2>3, <3>3, <3>5, <3>6 DEF Scanned, Scan
    <3> QED BY <2>1, <2>5, <3>7
  <2> QED BY <2>4, <2>5
<1> QED BY <1>1, <1>2

\* The loop of parse_cmd_line.
LEMMA ScanIs ==
    ASSUME NEW line, line \in Seq(ToSet(line)), NEW flags \in [Letters -> Nat]
    PROVE  FoldLeft(ScanOption, Scan(flags, InitCmdOpt, FALSE), line) \in Scanned(line, flags)
<1> DEFINE n == Len(line)
           A == Scanned(line, flags)
           base == Scan(flags, InitCmdOpt, FALSE)
<1>1. n \in Nat /\ DOMAIN line = 1..n
  OBVIOUS
<1>3. base \in A
  <2>1. InitCmdOpt \in Opts(line)
    BY DEF InitCmdOpt, Opts, Words, Args
  <2>2. Single(InitCmdOpt)
    BY DEF InitCmdOpt, Single
  <2>3. flags["c"] = 0 => Typed(flags, InitCmdOpt)
    BY DEF Typed, InitCmdOpt
  <2> QED BY <2>1, <2>2, <2>3 DEF Scan, Scanned
<1>0. ASSUME NEW k \in A, NEW m \in 1..n PROVE ScanOption(k, line[m]) \in A
  <2>1. line[m] \in ToSet(line)
    BY <1>1 DEF ToSet
  <2> QED BY <2>1, ScanKeeps
<1> HIDE DEF base
<1> DEFINE f == [x \in A \X (1..n) |-> ScanOption(x[1], line[x[2]])]
           Iter(g) == g = [s \in SUBSET (DOMAIN line) |->
                             IF s = {} THEN base
                             ELSE ScanOption(g[s \ {Max(s)}], line[Max(s)])]
           iter == CHOOSE g : Iter(g)
<1>2. FoldLeft(ScanOption, base, line) = iter[1..n]
  <2>1. FoldLeft(ScanOption, base, line) = iter[DOMAIN line]
    BY Zenon DEF FoldLeft, MapThenFoldSet
  <2> QED BY <1>1, <2>1
<1> HIDE DEF n, A
<1>4. f \in [A \X (1..n) -> A]
  BY <1>0
<1>5. PICK h \in [SUBSET (1..n) -> A] : \A s \in SUBSET (1..n) : h[s] = Turn(h, f, base, s)
  <2> HIDE DEF f
  <2>1. Folds(n, A, base, f)
    BY <1>1, <1>3, <1>4, FoldExists
  <2> QED BY <2>1 DEF Folds
<1>6. Iter(h)
  <2>1. ASSUME NEW s \in SUBSET (1..n), s # {}
        PROVE  h[s] = ScanOption(h[s \ {Max(s)}], line[Max(s)])
    <3>1. Max(s) \in 1..n /\ s \ {Max(s)} \in SUBSET (1..n)
      BY <1>1, <2>1, Greatest
    <3>2. h[s \ {Max(s)}] \in A
      BY <3>1
    <3>3. h[s] = f[<<h[s \ {Max(s)}], Max(s)>>]
      BY <1>5, <2>1 DEF Turn
    <3> QED BY <3>1, <3>2, <3>3
  <2>2. h[{}] = base
    BY <1>5 DEF Turn
  <2>3. h = [s \in SUBSET (1..n) |->
               IF s = {} THEN base ELSE ScanOption(h[s \ {Max(s)}], line[Max(s)])]
    BY <2>1, <2>2
  <2> QED BY <1>1, <2>3
<1>7. Iter(iter)
  <2> HIDE DEF Iter
  <2> QED BY <1>6
<1> HIDE DEF iter
<1> DEFINE r == [m \in 0..n |-> iter[1..m]]
<1>8. iter[{}] = base /\ \A m \in 1..n : iter[1..m] = ScanOption(iter[1..(m - 1)], line[m])
  <2>1. \A s \in SUBSET (1..n) :
           iter[s] = IF s = {} THEN base
                     ELSE ScanOption(iter[s \ {Max(s)}], line[Max(s)])
    BY <1>1, <1>7
  <2> QED BY <1>1, <2>1, Prefix
<1>9. 1..0 = {}
  OBVIOUS
<1>10. r[0] = base /\ r[n] = iter[1..n]
  BY <1>1, <1>8, <1>9
<1>11. \A m \in 1..n : r[m] = ScanOption(r[m - 1], line[m])
  <2>1. ASSUME NEW m \in 1..n PROVE r[m] = iter[1..m] /\ r[m - 1] = iter[1..(m - 1)]
    BY <1>1
  <2> HIDE DEF r
  <2> QED BY <1>8, <2>1
<1> HIDE DEF r
<1> DEFINE T == {m \in Nat : m <= n => r[m] \in A}
<1>12. 0 \in T
  BY <1>3, <1>10
<1>13. ASSUME NEW m \in Nat, m \in T PROVE m + 1 \in T
  <2> SUFFICES ASSUME m + 1 <= n PROVE r[m + 1] \in A
    OBVIOUS
  <2>1. m + 1 \in 1..n /\ r[m] \in A /\ (m + 1) - 1 = m
    BY <1>1, <1>13
  <2>2. r[m + 1] = ScanOption(r[m], line[m + 1])
    BY <1>11, <2>1
  <2> QED BY <1>0, <2>1, <2>2
<1>14. n \in T
  <2> HIDE DEF T
  <2> QED BY <1>1, <1>12, <1>13, Induction
<1>15. iter[1..n] \in A
  BY <1>1, <1>10, <1>14
<1> QED BY <1>2, <1>15 DEF A, base

\* What parse_cmd_line leaves of a line.
LEMMA ParseIs ==
    ASSUME NEW line \in Starts \cup Lines, NEW flags \in [Letters -> Nat], NEW inter
    PROVE  LET p == parse_cmd_line(line, flags, inter) IN
           /\ p.flags \in [Letters -> Nat]
           /\ p.opt.names \in Seq(ToSet(p.opt.names)) /\ p.opt.attrs \in Seq(ToSet(p.opt.attrs))
           /\ p.opt.values \in Seq(ToSet(p.opt.values))
           /\ p.is # "error" => Single(p.opt) /\ (flags["c"] = 0 => Typed(p.flags, p.opt))
           /\ p.is = "command" => p.flags["c"] > 0
<1> DEFINE acc == FoldLeft(ScanOption, Scan(flags, InitCmdOpt, FALSE), line)
           p == parse_cmd_line(line, flags, inter)
<1>1. line \in Seq(ToSet(line)) /\ \A o \in ToSet(line) : o.arg \in Seq(ToSet(o.arg))
  BY PwrcmdAssumption
<1>2. acc \in Scanned(line, flags)
  BY <1>1, ScanIs
<1>3. /\ p.flags = acc.flags /\ p.opt = acc.opt
      /\ p.is # "error" => ~ acc.bad
      /\ p.is = "command" => GoodCommand(acc.flags, acc.opt)
  <2> DEFINE Has(l) == acc.flags[l] > 0
             is == IF acc.bad \/ Has("h") THEN "error"
                   ELSE IF Has("i")
                   THEN IF inter \/ \E l \in {"a", "c", "l", "m", "n", "t", "v"} : Has(l)
                        THEN "error" ELSE "interactive"
                   ELSE IF GoodCommand(acc.flags, acc.opt) THEN "command" ELSE "error"
  <2>1. p = [is |-> is, opt |-> acc.opt, flags |-> acc.flags, json |-> ~ Has("s")]
    BY Zenon DEF parse_cmd_line
  <2> HIDE DEF acc, Has
  <2>2. (is # "error" => ~ acc.bad) /\ (is = "command" => GoodCommand(acc.flags, acc.opt))
    OBVIOUS
  <2> HIDE DEF is, p
  <2> QED BY <2>1, <2>2
<1> HIDE DEF acc, p
<1>4. GoodCommand(acc.flags, acc.opt) => acc.flags["c"] > 0
  BY DEF GoodCommand
<1>5. ASSUME NEW a \in Args(line) PROVE a \in Seq(ToSet(a))
  <2>1. CASE a = <<>>
    BY <2>1
  <2>2. CASE a # <<>>
    BY <1>1, <2>2 DEF Args
  <2> QED BY <2>1, <2>2
<1>6. /\ acc.opt.names \in Args(line) /\ acc.opt.attrs \in Args(line)
      /\ acc.opt.values \in Args(line) /\ acc.flags \in [Letters -> Nat]
  BY <1>2 DEF Scanned, Opts
<1>7. ~ acc.bad => (flags["c"] = 0 => Typed(acc.flags, acc.opt)) /\ Single(acc.opt)
  BY <1>2 DEF Scanned
<1> QED BY <1>3, <1>4, <1>5, <1>6, <1>7 DEF p

-----------------------------------------------------------------------------
(* The arguments of a command.                                             *)

LEMMA FailuresIs ==
    ASSUME NEW S, NEW names \in Seq(S), NEW known
    PROVE  /\ Failures(names, known) \in Seq(Errors)
           /\ Failures(names, known) = <<>> => \A k \in 1..Len(names) : names[k] \in known \cup {""}
<1> DEFINE U == Unknown(names, known)
           c == Cardinality(U)
<1>1. Len(names) \in Nat /\ DOMAIN names = 1..Len(names)
  OBVIOUS
<1>2. U \in SUBSET (1..Len(names))
  BY <1>1 DEF Unknown
<1>3. IsFiniteSet(U)
  <2> HIDE DEF U
  <2>1. IsFiniteSet(1..Len(names))
    BY <1>1, FS_Interval
  <2> QED BY <1>2, <2>1, FS_Subset
<1>4. c \in Nat /\ (c = 0 => U = {})
  <2> HIDE DEF U
  <2> QED BY <1>3, FS_CardinalityType, FS_EmptySet
<1>5. "FAILURE" \in Errors
  BY DEF Errors
<1> DEFINE f == [k \in 1..c |-> "FAILURE"]
<1>6. Failures(names, known) = f
  BY DEF Failures
<1> HIDE DEF c
<1>7. f \in [1..c -> Errors]
  BY <1>5
<1> HIDE DEF f
<1>8. f \in Seq(Errors) /\ Len(f) = c
  BY <1>4, <1>7, IsSeq
<1>9. f = <<>> => U = {}
  BY <1>4, <1>8
<1> QED BY <1>1, <1>6, <1>8, <1>9 DEF Unknown

\* create_values keeps the pairs that can be set, and is silent about a pair
\* only if it is kept or has an empty part.
Creates(S, attrs, values) ==
    LET a == create_values(attrs, values) IN
    /\ a.attrs \in Seq(S) /\ a.errs \in Seq(Errors)
    /\ a.errs = <<>> => \A k \in 1..Len(attrs) :
          \/ attrs[k] = "" \/ values[k] = ""
          \/ \E m \in 1..Len(a.attrs) : a.attrs[m] = attrs[k] /\ a.values[m] = values[k]

LEMMA ValuesCreated ==
    ASSUME NEW S, NEW attrs \in Seq(S), NEW R, NEW values \in Seq(R), Len(attrs) = Len(values)
    PROVE  Creates(S, attrs, values)
<1> DEFINE n == Len(attrs)
           A == [attrs : Seq(S), values : Seq(R), errs : Seq(Errors)]
           base == [attrs |-> <<>>, values |-> <<>>, errs |-> <<>>]
           idx == [k \in DOMAIN attrs |-> k]
           Step(acc, k) ==
              IF attrs[k] = "" \/ values[k] = "" THEN acc
              ELSE IF attrs[k] \notin ToSet(AttrNames)
              THEN [acc EXCEPT !.errs = Append(@, "FAILURE")]
              ELSE IF ~ParsedValue(values[k])
              THEN [acc EXCEPT !.errs = @ \o <<"BAD_VALUE", "FAILURE">>]
              ELSE [acc EXCEPT !.attrs = Append(@, attrs[k]), !.values = Append(@, values[k])]
<1>1. n \in Nat /\ DOMAIN idx = 1..n /\ (\A k \in 1..n : idx[k] = k)
      /\ (\A k \in 1..n : attrs[k] \in S /\ values[k] \in R)
  OBVIOUS
<1>3. base \in A
  OBVIOUS
<1>0. ASSUME NEW x \in A, NEW m \in 1..n PROVE Step(x, idx[m]) \in A
  <2>1. idx[m] = m /\ attrs[m] \in S /\ values[m] \in R
    BY <1>1
  <2>2. Append(x.errs, "FAILURE") \in Seq(Errors) /\ x.errs \o <<"BAD_VALUE", "FAILURE">> \in Seq(Errors)
    <3>1. "FAILURE" \in Errors /\ "BAD_VALUE" \in Errors
      BY DEF Errors
    <3>2. <<"BAD_VALUE", "FAILURE">> \in Seq(Errors)
      BY <3>1
    <3>3. x.errs \in Seq(Errors)
      OBVIOUS
    <3> QED BY <3>1, <3>2, <3>3
  <2>3. Append(x.attrs, attrs[m]) \in Seq(S) /\ Append(x.values, values[m]) \in Seq(R)
    BY <2>1
  <2> HIDE DEF idx
  <2> QED BY <2>1, <2>2, <2>3
<1>c. create_values(attrs, values) = FoldLeft(Step, base, idx)
  BY Zenon DEF create_values
<1> HIDE DEF Step, base, idx
<1> DEFINE f == [x \in A \X (1..n) |-> Step(x[1], idx[x[2]])]
           Iter(g) == g = [s \in SUBSET (DOMAIN idx) |->
                             IF s = {} THEN base
                             ELSE Step(g[s \ {Max(s)}], idx[Max(s)])]
           iter == CHOOSE g : Iter(g)
<1>2. FoldLeft(Step, base, idx) = iter[1..n]
  <2>1. FoldLeft(Step, base, idx) = iter[DOMAIN idx]
    BY Zenon DEF FoldLeft, MapThenFoldSet
  <2> QED BY <1>1, <2>1
<1> HIDE DEF n, A
<1>4. f \in [A \X (1..n) -> A]
  BY <1>0
<1>5. PICK h \in [SUBSET (1..n) -> A] : \A s \in SUBSET (1..n) : h[s] = Turn(h, f, base, s)
  <2> HIDE DEF f
  <2>1. Folds(n, A, base, f)
    BY <1>1, <1>3, <1>4, FoldExists
  <2> QED BY <2>1 DEF Folds
<1>6. Iter(h)
  <2>1. ASSUME NEW s \in SUBSET (1..n), s # {}
        PROVE  h[s] = Step(h[s \ {Max(s)}], idx[Max(s)])
    <3>1. Max(s) \in 1..n /\ s \ {Max(s)} \in SUBSET (1..n)
      BY <1>1, <2>1, Greatest
    <3>2. h[s \ {Max(s)}] \in A
      BY <3>1
    <3>3. h[s] = f[<<h[s \ {Max(s)}], Max(s)>>]
      BY <1>5, <2>1 DEF Turn
    <3> QED BY <3>1, <3>2, <3>3
  <2>2. h[{}] = base
    BY <1>5 DEF Turn
  <2>3. h = [s \in SUBSET (1..n) |->
               IF s = {} THEN base ELSE Step(h[s \ {Max(s)}], idx[Max(s)])]
    BY <2>1, <2>2
  <2> QED BY <1>1, <2>3
<1>7. Iter(iter)
  <2> HIDE DEF Iter
  <2> QED BY <1>6
<1> HIDE DEF iter
<1> DEFINE r == [m \in 0..n |-> iter[1..m]]
<1>8. iter[{}] = base /\ \A m \in 1..n : iter[1..m] = Step(iter[1..(m - 1)], idx[m])
  <2>1. \A s \in SUBSET (1..n) :
           iter[s] = IF s = {} THEN base
                     ELSE Step(iter[s \ {Max(s)}], idx[Max(s)])
    BY <1>1, <1>7
  <2> QED BY <1>1, <2>1, Prefix
<1>9. 1..0 = {}
  OBVIOUS
<1>10. r[0] = base /\ r[n] = iter[1..n]
  BY <1>1, <1>8, <1>9
<1>11. \A m \in 1..n : r[m] = Step(r[m - 1], idx[m])
  <2>1. ASSUME NEW m \in 1..n PROVE r[m] = iter[1..m] /\ r[m - 1] = iter[1..(m - 1)]
    BY <1>1
  <2> HIDE DEF r
  <2> QED BY <1>8, <2>1
<1> HIDE DEF r
<1> DEFINE Said(x, m) == x.errs = <<>> => \A k \in 1..m :
                 \/ attrs[k] = "" \/ values[k] = ""
                 \/ \E i \in 1..Len(x.attrs) : x.attrs[i] = attrs[k] /\ x.values[i] = values[k]
           Kept(x, m) == x \in A /\ Len(x.attrs) = Len(x.values) /\ Said(x, m)
<1>12. Kept(base, 0)
  <2>1. Len(base.attrs) = Len(base.values)
    BY DEF base
  <2>2. Said(base, 0)
    BY <1>9
  <2> QED BY <1>3, <2>1, <2>2
<1> HIDE DEF Said
<1>13. ASSUME NEW m \in Nat, m + 1 <= n, NEW x, Kept(x, m)
       PROVE  Kept(Step(x, m + 1), m + 1)
  <2> DEFINE q == m + 1
             y == Step(x, q)
  <2>1. q \in 1..n /\ idx[q] = q
    BY <1>1, <1>13
  <2>2. x \in A /\ Len(x.attrs) = Len(x.values) /\ Said(x, m)
    BY <1>13
  <2> HIDE DEF Kept
  <2>3. y \in A
    <3> HIDE DEF q
    <3> QED BY <1>0, <2>1, <2>2
  <2>a. x.attrs \in Seq(S) /\ x.values \in Seq(R) /\ x.errs \in Seq(Errors)
    BY <2>2 DEF A
  <2> HIDE DEF y
  <2>b. \A k \in 1..q : k = q \/ k \in 1..m
    BY <1>13
  <2>4. CASE attrs[q] = "" \/ values[q] = ""
    <3>1. y = x
      BY <2>4 DEF Step, y
    <3>2. Said(x, q)
      BY <2>2, <2>4, <2>b DEF Said
    <3> QED BY <2>2, <3>1, <3>2 DEF y, Kept
  <2>5. CASE ~ (attrs[q] = "" \/ values[q] = "")
    <3>1. CASE attrs[q] \notin ToSet(AttrNames) \/ ~ParsedValue(values[q])
      <4>1. /\ y.errs = Append(x.errs, "FAILURE") \/ y.errs = x.errs \o <<"BAD_VALUE", "FAILURE">>
            /\ y.attrs = x.attrs /\ y.values = x.values
        BY <2>2, <2>5, <3>1 DEF Step, A, y
      <4>2. y.errs # <<>>
        BY <2>a, <4>1
      <4> QED BY <2>2, <2>3, <4>1, <4>2 DEF y, Kept, Said
    <3>2. CASE ~ (attrs[q] \notin ToSet(AttrNames) \/ ~ParsedValue(values[q]))
      <4>1. y.errs = x.errs /\ y.attrs = Append(x.attrs, attrs[q])
            /\ y.values = Append(x.values, values[q])
        BY <2>2, <2>5, <3>2 DEF Step, A, y
      <4> DEFINE l == Len(x.attrs)
      <4>2. l \in Nat /\ l = Len(x.values)
        BY <2>2, <2>a
      <4>3. Len(y.attrs) = l + 1 /\ Len(y.values) = l + 1
        BY <2>2, <2>a, <4>1
      <4>4. y.attrs[l + 1] = attrs[q] /\ \A i \in 1..l : y.attrs[i] = x.attrs[i]
        BY <2>a, <4>1
      <4>5. y.values[l + 1] = values[q] /\ \A i \in 1..l : y.values[i] = x.values[i]
        BY <2>2, <2>a, <4>1
      <4>6. x.errs = <<>> => \A k \in 1..m :
              \/ attrs[k] = "" \/ values[k] = ""
              \/ \E i \in 1..l : x.attrs[i] = attrs[k] /\ x.values[i] = values[k]
        BY <2>2 DEF Said
      <4> HIDE DEF l, q
      <4>7. ASSUME y.errs = <<>>, NEW k \in 1..q
            PROVE  \/ attrs[k] = "" \/ values[k] = ""
                   \/ \E i \in 1..Len(y.attrs) : y.attrs[i] = attrs[k] /\ y.values[i] = values[k]
        <5>0. \A i \in 1..l : i \in 1..Len(y.attrs)
          BY <4>2, <4>3
        <5>1. CASE k = q
          <6>1. l + 1 \in 1..Len(y.attrs)
            BY <4>2, <4>3
          <6> QED BY <4>4, <4>5, <5>1, <6>1
        <5>2. CASE k # q
          BY <2>b, <4>1, <4>4, <4>5, <4>6, <4>7, <5>0, <5>2
        <5> QED BY <5>1, <5>2
      <4>8. Said(y, q)
        BY <4>7 DEF Said
      <4> QED BY <2>3, <4>3, <4>8 DEF y, q, Kept
    <3> QED BY <3>1, <3>2
  <2> QED BY <2>4, <2>5
<1> HIDE DEF Kept
<1> DEFINE T == {m \in Nat : m <= n => Kept(r[m], m)}
<1>14. 0 \in T
  BY <1>10, <1>12
<1>15. ASSUME NEW m \in Nat, m \in T PROVE m + 1 \in T
  <2> SUFFICES ASSUME m + 1 <= n PROVE Kept(r[m + 1], m + 1)
    OBVIOUS
  <2>1. m + 1 \in 1..n /\ Kept(r[m], m) /\ (m + 1) - 1 = m
    BY <1>1, <1>15
  <2>2. r[m + 1] = Step(r[m], m + 1)
    BY <1>1, <1>11, <2>1
  <2> QED BY <1>13, <2>1, <2>2
<1>16. n \in T
  <2> HIDE DEF T
  <2> QED BY <1>1, <1>14, <1>15, Induction
<1>17. Kept(r[n], n)
  BY <1>1, <1>16
<1>18. create_values(attrs, values) = r[n]
  BY <1>2, <1>c, <1>10
<1> QED BY <1>17, <1>18 DEF A, n, Kept, Said, Creates

\* What json_render_attr_value finds in slot k.
SlotValue(objs, attrs, failed, k) ==
    IF k <= Len(objs) * Len(attrs) /\ GetCode(Slot(objs, attrs, k), failed) = "SUCCESS"
    THEN Slot(objs, attrs, k) ELSE <<>>

\* A position among the pairs of an object and an attribute.
LEMMA SlotBounds ==
    ASSUME NEW c \in Nat, NEW l \in Nat, NEW k \in 1..(c * l)
    PROVE  /\ l > 0 /\ ((k - 1) \div l) + 1 \in 1..c /\ ((k - 1) % l) + 1 \in 1..l
<1>1. l > 0
  <2>1. l = 0 => c * l = 0
    OBVIOUS
  <2>2. c * l # 0
    <3>1. c * l \in Nat
      OBVIOUS
    <3> QED BY <3>1
  <2> QED BY <2>1, <2>2
<1> DEFINE q == (k - 1) \div l
<1>2. k - 1 \in Nat /\ k - 1 < c * l
  <2>1. c * l \in Nat
    OBVIOUS
  <2> QED BY <2>1
<1>3. q \in Nat /\ (q * l) <= k - 1 /\ (k - 1) % l \in 0..(l - 1)
  BY <1>1, <1>2
<1>4. q < c
  <2> SUFFICES ASSUME q >= c PROVE FALSE
    BY <1>3
  <2>1. q * l >= c * l
    <3> HIDE DEF q
    <3> QED BY <1>1, <1>3
  <2> QED BY <1>2, <1>3, <2>1
<1> QED BY <1>1, <1>3, <1>4

\* An attribute without a type to print is an error; if there is none, the list
\* of values has a place for each slot.
Renders(j, objs, attrs, count, failed) ==
    \E vals, errs :
       /\ RenderValues(j, objs, attrs, count, failed) =
             PrintAll(json_add(j, [NoBody EXCEPT !.vals = vals,
                         !.status = json_render_status(objs, attrs, failed)]), errs)
       /\ errs \in Seq(Errors) /\ (ToSet(attrs) \subseteq supported_attr => errs = <<>>)
       /\ errs = <<>> =>
             /\ Len(vals) = count * Len(attrs) /\ DOMAIN vals = 1..(count * Len(attrs))
             /\ \A k \in 1..(count * Len(attrs)) : vals[k] = SlotValue(objs, attrs, failed, k)

LEMMA Rendered ==
    ASSUME NEW S, NEW objs, NEW attrs \in Seq(S), NEW count \in Nat, NEW failed,
           NEW j, j.body = NoBody
    PROVE  Renders(j, objs, attrs, count, failed)
<1> DEFINE n == count * Len(attrs)
           Value(k) == IF /\ k <= Len(objs) * Len(attrs)
                          /\ GetCode(Slot(objs, attrs, k), failed) = "SUCCESS"
                       THEN Slot(objs, attrs, k) ELSE <<>>
           V == {Value(k) : k \in 1..n}
           A == [vals : Seq(V), errs : Seq(Errors)]
           base == [vals |-> <<>>, errs |-> <<>>]
           idx == [k \in 1..(count * Len(attrs)) |-> k]
           At(k) == attrs[((k - 1) % Len(attrs)) + 1]
           Step(acc, k) == IF At(k) \in supported_attr
                           THEN [acc EXCEPT !.vals = Append(@, Value(k))]
                           ELSE [acc EXCEPT !.errs = Append(@, "FAILURE")]
           res == FoldLeft(Step, base, idx)
<1>c. RenderValues(j, objs, attrs, count, failed) =
         PrintAll(json_add(j, [NoBody EXCEPT !.vals = res.vals,
                                 !.status = json_render_status(objs, attrs, failed)]), res.errs)
  <2>1. RenderValues(j, objs, attrs, count, failed) =
         PrintAll(json_add(j, [j.body EXCEPT !.vals = res.vals,
                                 !.status = json_render_status(objs, attrs, failed)]), res.errs)
    BY Zenon DEF RenderValues
  <2> HIDE DEF res
  <2> QED BY <2>1
<1>s. \A k \in 1..n : Value(k) = SlotValue(objs, attrs, failed, k)
  BY DEF SlotValue
<1>v. \A k \in 1..n : Value(k) \in V
  OBVIOUS
<1> HIDE DEF Value
<1>1. n \in Nat /\ DOMAIN idx = 1..n /\ \A k \in 1..n : idx[k] = k
  <2>1. Len(attrs) \in Nat
    OBVIOUS
  <2>2. n \in Nat
    BY <2>1
  <2> QED BY <2>2
<1>a. \A k \in 1..n : At(k) \in ToSet(attrs)
  <2> SUFFICES ASSUME NEW k \in 1..n PROVE At(k) \in ToSet(attrs)
    OBVIOUS
  <2>1. Len(attrs) \in Nat /\ DOMAIN attrs = 1..Len(attrs)
    OBVIOUS
  <2>2. ((k - 1) % Len(attrs)) + 1 \in 1..Len(attrs)
    BY <2>1, SlotBounds
  <2> QED BY <2>1, <2>2 DEF ToSet
<1> HIDE DEF At, V
<1>3. base \in A
  OBVIOUS
<1>0. ASSUME NEW x \in A, NEW m \in 1..n PROVE Step(x, idx[m]) \in A
  <2>1. idx[m] = m
    BY <1>1
  <2>2. Append(x.errs, "FAILURE") \in Seq(Errors) /\ Append(x.vals, Value(m)) \in Seq(V)
    <3>1. "FAILURE" \in Errors
      BY DEF Errors
    <3>2. x.errs \in Seq(Errors) /\ x.vals \in Seq(V)
      OBVIOUS
    <3> QED BY <1>v, <3>1, <3>2
  <2> HIDE DEF idx
  <2> QED BY <2>1, <2>2
<1> HIDE DEF Step, base, idx
<1> DEFINE f == [x \in A \X (1..n) |-> Step(x[1], idx[x[2]])]
           Iter(g) == g = [s \in SUBSET (DOMAIN idx) |->
                             IF s = {} THEN base
                             ELSE Step(g[s \ {Max(s)}], idx[Max(s)])]
           iter == CHOOSE g : Iter(g)
<1>2. FoldLeft(Step, base, idx) = iter[1..n]
  <2>1. FoldLeft(Step, base, idx) = iter[DOMAIN idx]
    BY Zenon DEF FoldLeft, MapThenFoldSet
  <2> QED BY <1>1, <2>1
<1> HIDE DEF n, A
<1>4. f \in [A \X (1..n) -> A]
  BY <1>0
<1>5. PICK h \in [SUBSET (1..n) -> A] : \A s \in SUBSET (1..n) : h[s] = Turn(h, f, base, s)
  <2> HIDE DEF f
  <2>1. Folds(n, A, base, f)
    BY <1>1, <1>3, <1>4, FoldExists
  <2> QED BY <2>1 DEF Folds
<1>6. Iter(h)
  <2>1. ASSUME NEW s \in SUBSET (1..n), s # {}
        PROVE  h[s] = Step(h[s \ {Max(s)}], idx[Max(s)])
    <3>1. Max(s) \in 1..n /\ s \ {Max(s)} \in SUBSET (1..n)
      BY <1>1, <2>1, Greatest
    <3>2. h[s \ {Max(s)}] \in A
      BY <3>1
    <3>3. h[s] = f[<<h[s \ {Max(s)}], Max(s)>>]
      BY <1>5, <2>1 DEF Turn
    <3> QED BY <3>1, <3>2, <3>3
  <2>2. h[{}] = base
    BY <1>5 DEF Turn
  <2>3. h = [s \in SUBSET (1..n) |->
               IF s = {} THEN base ELSE Step(h[s \ {Max(s)}], idx[Max(s)])]
    BY <2>1, <2>2
  <2> QED BY <1>1, <2>3
<1>7. Iter(iter)
  <2> HIDE DEF Iter
  <2> QED BY <1>6
<1> HIDE DEF iter
<1> DEFINE r == [m \in 0..n |-> iter[1..m]]
<1>8. iter[{}] = base /\ \A m \in 1..n : iter[1..m] = Step(iter[1..(m - 1)], idx[m])
  <2>1. \A s \in SUBSET (1..n) :
           iter[s] = IF s = {} THEN base
                     ELSE Step(iter[s \ {Max(s)}], idx[Max(s)])
    BY <1>1, <1>7
  <2> QED BY <1>1, <2>1, Prefix
<1>9. 1..0 = {}
  OBVIOUS
<1>10. r[0] = base /\ r[n] = iter[1..n]
  BY <1>1, <1>8, <1>9
<1>11. \A m \in 1..n : r[m] = Step(r[m - 1], idx[m])
  <2>1. ASSUME NEW m \in 1..n PROVE r[m] = iter[1..m] /\ r[m - 1] = iter[1..(m - 1)]
    BY <1>1
  <2> HIDE DEF r
  <2> QED BY <1>8, <2>1
<1> HIDE DEF r
<1> DEFINE Said(x, m) == /\ ToSet(attrs) \subseteq supported_attr => x.errs = <<>>
                         /\ x.errs = <<>> => Len(x.vals) = m /\ \A k \in 1..m : x.vals[k] = Value(k)
           Kept(x, m) == x \in A /\ Said(x, m)
<1>12. Kept(base, 0)
  BY <1>3, <1>9 DEF base
<1> HIDE DEF Said
<1>13. ASSUME NEW m \in Nat, m + 1 <= n, NEW x, Kept(x, m)
       PROVE  Kept(Step(x, m + 1), m + 1)
  <2> DEFINE q == m + 1
             y == Step(x, q)
  <2>1. q \in 1..n /\ idx[q] = q
    BY <1>1, <1>13
  <2>2. x \in A /\ Said(x, m)
    BY <1>13
  <2> HIDE DEF Kept
  <2>3. y \in A
    <3> HIDE DEF q
    <3> QED BY <1>0, <2>1, <2>2
  <2>4. x.vals \in Seq(V) /\ x.errs \in Seq(Errors)
    BY <2>2 DEF A
  <2> HIDE DEF y
  <2>5. CASE At(q) \in supported_attr
    <3>1. y.vals = Append(x.vals, Value(q)) /\ y.errs = x.errs
      BY <2>2, <2>5 DEF Step, A, y
    <3>2. ASSUME x.errs = <<>> PROVE Len(y.vals) = q /\ \A k \in 1..q : y.vals[k] = Value(k)
      <4>1. Len(x.vals) = m /\ \A k \in 1..m : x.vals[k] = Value(k)
        BY <2>2, <3>2 DEF Said
      <4> QED BY <2>4, <3>1, <4>1
    <3>3. Said(y, q)
      BY <2>2, <3>1, <3>2 DEF Said
    <3> QED BY <2>3, <3>3 DEF Kept, y
  <2>6. CASE At(q) \notin supported_attr
    <3>1. y.errs = Append(x.errs, "FAILURE")
      BY <2>2, <2>6 DEF Step, A, y
    <3>2. y.errs # <<>>
      <4>1. "FAILURE" \in Errors
        BY DEF Errors
      <4>2. Len(y.errs) = Len(x.errs) + 1 /\ Len(x.errs) \in Nat
        BY <2>4, <3>1, <4>1
      <4>3. Len(y.errs) # 0
        BY <4>2
      <4> QED BY <4>3
    <3>3. ~ (ToSet(attrs) \subseteq supported_attr)
      BY <1>a, <2>1, <2>6
    <3> QED BY <2>3, <3>2, <3>3 DEF Said, Kept, y
  <2> QED BY <2>5, <2>6
<1> HIDE DEF Kept
<1> DEFINE T == {m \in Nat : m <= n => Kept(r[m], m)}
<1>14. 0 \in T
  BY <1>10, <1>12
<1>15. ASSUME NEW m \in Nat, m \in T PROVE m + 1 \in T
  <2> SUFFICES ASSUME m + 1 <= n PROVE Kept(r[m + 1], m + 1)
    OBVIOUS
  <2>1. m + 1 \in 1..n /\ Kept(r[m], m) /\ (m + 1) - 1 = m
    BY <1>1, <1>15
  <2>2. r[m + 1] = Step(r[m], m + 1)
    BY <1>1, <1>11, <2>1
  <2> QED BY <1>13, <2>1, <2>2
<1>16. n \in T
  <2> HIDE DEF T
  <2> QED BY <1>1, <1>14, <1>15, Induction
<1>17. Kept(res, n)
  BY <1>1, <1>2, <1>10, <1>16 DEF res
<1> HIDE DEF res
<1>18. /\ res.errs \in Seq(Errors) /\ (ToSet(attrs) \subseteq supported_attr => res.errs = <<>>)
       /\ res.errs = <<>> => Len(res.vals) = n /\ \A k \in 1..n : res.vals[k] = Value(k)
       /\ res.vals \in Seq(V)
  BY <1>17 DEF A, Kept, Said
<1>19. DOMAIN res.vals = 1..Len(res.vals)
  BY <1>18
<1>20. res.errs = <<>> => /\ Len(res.vals) = n /\ DOMAIN res.vals = 1..n
                          /\ \A k \in 1..n : res.vals[k] = SlotValue(objs, attrs, failed, k)
  BY <1>s, <1>18, <1>19
<1> QED BY <1>c, <1>18, <1>20, Zenon DEF n, Renders

-----------------------------------------------------------------------------
(* What the names and the attributes of a command stand for.               *)

\* The heap holds every object, once.
LEMMA OrderIs ==
    ASSUME order \in Orders
    PROVE  order \in Seq(Objs) /\ ToSet(order) = Objs /\ Injective(order)
<1>1. order \in Seq(Objs) /\ ToSet(order) = Objs /\ Len(order) = Cardinality(Objs)
  BY PwrcmdAssumption
<1>2. Cardinality(ToSet(order)) = Len(order) <=> Injective(order)
  BY <1>1, CountIs
<1> QED BY <1>1, <1>2

LEMMA OneIs ==
    ASSUME NEW S, NEW p \in Seq(S), NEW x, Injective(p), ToSet(p) = {x}
    PROVE  p = <<x>> /\ Len(p) = 1
<1>1. Cardinality(ToSet(p)) = Len(p)
  BY CountIs
<1>2. Cardinality({x}) = 1
  BY FS_Singleton
<1>3. Len(p) = 1 /\ DOMAIN p = 1..1
  <2>1. Len(p) = 1
    BY <1>1, <1>2
  <2>2. DOMAIN p = 1..Len(p)
    OBVIOUS
  <2> QED BY <2>1, <2>2
<1>4. p[1] \in ToSet(p)
  BY <1>3 DEF ToSet
<1>5. p[1] = x
  BY <1>4
<1> QED BY <1>3, <1>5

\* The objects that the names stand for; a name without an object is an error.
Found(t, names) ==
    /\ t.errs \in Seq(Errors) /\ t.count = Len(Only(names, Objs))
    /\ t.objs = Only(order, ToSet(names))
    /\ t.errs = <<>> => Asked(names) \subseteq Objs

\* The attributes that there are; an unknown one is an error.
Chosen(a, attrs) ==
    /\ a.errs \in Seq(Errors) /\ a.attrs = Only(attrs, ToSet(AttrNames))
    /\ a.errs = <<>> => Asked(attrs) \subseteq ToSet(AttrNames)

LEMMA NoneMissing ==
    ASSUME NEW S, NEW names \in Seq(S), NEW known, Failures(names, known) = <<>>
    PROVE  Asked(names) \subseteq known
<1> SUFFICES ASSUME NEW x \in Asked(names) PROVE x \in known
  OBVIOUS
<1>1. x \in ToSet(names) /\ x # ""
  BY DEF Asked
<1>2. PICK k \in 1..Len(names) : x = names[k]
  <2>1. DOMAIN names = 1..Len(names)
    OBVIOUS
  <2> QED BY <1>1, <2>1 DEF ToSet
<1> QED BY <1>1, <1>2, FailuresIs

LEMMA GroupFound ==
    ASSUME NEW S, NEW names \in Seq(S)
    PROVE  Found(create_group(names), names)
<1>1. Failures(names, Objs) \in Seq(Errors)
  BY FailuresIs
<1>2. Failures(names, Objs) = <<>> => Asked(names) \subseteq Objs
  BY NoneMissing
<1> QED BY <1>1, <1>2 DEF Found, create_group

LEMMA NameFound ==
    ASSUME order \in Orders, NEW S, NEW names \in Seq(S), Len(names) = 1
    PROVE  Found(GetObjByName(names[1]), names)
<1> DEFINE name == names[1]
           p == Only(names, Objs)
           q == Only(order, ToSet(names))
<1>1. ToSet(names) = {name} /\ Injective(names)
  BY DEF ToSet, Injective
<1>2. order \in Seq(Objs) /\ ToSet(order) = Objs /\ Injective(order)
  BY OrderIs
<1>3. /\ p \in Seq(S) /\ ToSet(p) = {name} \cap Objs /\ Injective(p)
      /\ p = <<>> <=> {name} \cap Objs = {}
  BY <1>1, OnlyIs
<1>4. /\ q \in Seq(Objs) /\ ToSet(q) = Objs \cap {name} /\ Injective(q)
      /\ q = <<>> <=> Objs \cap {name} = {}
  BY <1>1, <1>2, OnlyIs
<1> HIDE DEF name, p, q
<1>5. CASE name \in Objs
  <2>1. ToSet(p) = {name} /\ ToSet(q) = {name}
    BY <1>3, <1>4, <1>5
  <2>2. Len(p) = 1 /\ q = <<name>>
    BY <1>3, <1>4, <2>1, OneIs
  <2>3. /\ GetObjByName(name).objs = <<name>> /\ GetObjByName(name).count = 1
        /\ GetObjByName(name).errs = <<>>
    BY <1>5 DEF GetObjByName, Known
  <2>4. Asked(names) \subseteq Objs
    BY <1>1, <1>5 DEF Asked
  <2> QED BY <2>2, <2>3, <2>4 DEF Found, name, p, q
<1>6. CASE name \notin Objs
  <2>1. p = <<>> /\ q = <<>>
    BY <1>3, <1>4, <1>6
  <2>2. /\ GetObjByName(name).objs = <<>> /\ GetObjByName(name).count = 0
        /\ GetObjByName(name).errs = <<"NO_OBJ_BY_NAME">>
    BY <1>6 DEF GetObjByName, Known
  <2>3. <<"NO_OBJ_BY_NAME">> \in Seq(Errors) /\ <<"NO_OBJ_BY_NAME">> # <<>>
    BY DEF Errors
  <2>4. Len(p) = 0
    BY <2>1
  <2> QED BY <2>1, <2>2, <2>3, <2>4 DEF Found, name, p, q
<1> QED BY <1>5, <1>6

LEMMA AttrsChosen ==
    ASSUME NEW S, NEW attrs \in Seq(S)
    PROVE  Chosen(create_attrs(attrs), attrs)
<1>1. Failures(attrs, ToSet(AttrNames)) \in Seq(Errors)
  BY FailuresIs
<1>2. Failures(attrs, ToSet(AttrNames)) = <<>> => Asked(attrs) \subseteq ToSet(AttrNames)
  BY NoneMissing
<1> HIDE DEF AttrNames
<1> QED BY <1>1, <1>2 DEF Chosen, create_attrs

LEMMA AloneChosen ==
    ASSUME NEW opt, NEW S, opt.attrs \in Seq(S), Len(opt.attrs) = 1, Single(opt)
    PROVE  Chosen(Alone(opt), opt.attrs)
<1> DEFINE p == Only(opt.attrs, ToSet(AttrNames))
<1>1. opt.attr = opt.attrs[1] /\ opt.attr \in ToSet(AttrNames)
  BY DEF Single
<1>2. ToSet(opt.attrs) = {opt.attr} /\ Injective(opt.attrs)
  BY <1>1 DEF ToSet, Injective
<1>3. p \in Seq(S) /\ ToSet(p) = {opt.attr} \cap ToSet(AttrNames) /\ Injective(p)
  BY <1>2, OnlyIs
<1>4. p = <<opt.attr>>
  <2> HIDE DEF p
  <2>1. ToSet(p) = {opt.attr}
    BY <1>1, <1>3
  <2> QED BY <1>3, <2>1, OneIs
<1>5. Alone(opt).attrs = <<opt.attr>> /\ Alone(opt).errs = <<>>
  BY DEF Alone
<1>6. Asked(opt.attrs) \subseteq ToSet(AttrNames)
  BY <1>1, <1>2 DEF Asked
<1> HIDE DEF p
<1>7. Alone(opt).errs \in Seq(Errors)
  BY <1>5
<1> QED BY <1>4, <1>5, <1>6, <1>7 DEF Chosen, p

\* There is room for a slot of every object that was found, and no more if each
\* is named once.
LEMMA ArraysIs ==
    ASSUME order \in Orders, NEW S, NEW names \in Seq(S), NEW t, Found(t, names)
    PROVE  LET named == Only(names, Objs) IN
           /\ t.objs \in Seq(Objs) /\ t.count \in Nat /\ Len(t.objs) <= t.count
           /\ ToSet(t.objs) = ToSet(names) \cap Objs
           /\ t.count = 0 => ToSet(names) \cap Objs = {}
           /\ Len(named) = Cardinality(ToSet(named)) => Len(t.objs) = t.count
           /\ t.objs = Only(order, ToSet(named))
<1> DEFINE named == Only(names, Objs)
<1>1. order \in Seq(Objs) /\ ToSet(order) = Objs /\ Injective(order)
  BY OrderIs
<1>2. /\ named \in Seq(S) /\ ToSet(named) = ToSet(names) \cap Objs
      /\ named = <<>> <=> ToSet(names) \cap Objs = {}
  BY OnlyIs
<1>3. t.objs = Only(order, ToSet(names)) /\ t.count = Len(named)
  BY DEF Found
<1> HIDE DEF named
<1>4. t.objs \in Seq(Objs) /\ ToSet(t.objs) = Objs \cap ToSet(names) /\ Injective(t.objs)
  BY <1>1, <1>3, OnlyIs
<1>5. Cardinality(ToSet(named)) \in Nat /\ Cardinality(ToSet(named)) <= Len(named)
  BY <1>2, CountIs
<1>6. Cardinality(ToSet(t.objs)) = Len(t.objs)
  BY <1>4, CountIs
<1>7. ToSet(t.objs) = ToSet(named)
  BY <1>2, <1>4
<1>8. t.count \in Nat
  BY <1>2, <1>3
<1>9. t.count = 0 => named = <<>>
  <2> SUFFICES ASSUME t.count = 0 PROVE named = <<>>
    OBVIOUS
  <2>1. Len(named) = 0
    BY <1>3
  <2>2. named \in Seq(S)
    BY <1>2
  <2> QED BY <2>1, <2>2
<1>10. t.objs = Only(order, ToSet(named))
  <2>1. \A k \in DOMAIN order : order[k] \in Objs
    BY <1>1
  <2>2. {k \in DOMAIN order : order[k] \in ToSet(names)}
        = {k \in DOMAIN order : order[k] \in ToSet(named)}
    BY <1>2, <2>1
  <2> QED BY <1>3, <2>2 DEF Only
<1>11. /\ Len(t.objs) <= t.count
       /\ Len(named) = Cardinality(ToSet(named)) => Len(t.objs) = t.count
  BY <1>3, <1>5, <1>6, <1>7
<1> QED BY <1>2, <1>4, <1>8, <1>9, <1>10, <1>11 DEF named

\* Every pair of an object and an attribute has a slot.
LEMMA SlotIs ==
    ASSUME NEW S, NEW objs \in Seq(S), NEW R, NEW attrs \in Seq(R),
           NEW i \in 1..Len(objs), NEW m \in 1..Len(attrs)
    PROVE  \E k \in 1..(Len(objs) * Len(attrs)) : Slot(objs, attrs, k) = <<objs[i], attrs[m]>>
<1> DEFINE l == Len(attrs)
           c == Len(objs)
           k == ((i - 1) * l) + m
<1>1. l \in Nat /\ c \in Nat /\ l > 0
  OBVIOUS
<1>2. i \in 1..c /\ m \in 1..l
  OBVIOUS
<1> HIDE DEF l, c
<1>3. i - 1 \in Nat /\ m - 1 \in Nat /\ m - 1 < l /\ (i - 1) * l \in Nat
  BY <1>1, <1>2
<1>4. (k - 1) \div l = i - 1 /\ (k - 1) % l = m - 1
  <2> DEFINE q == i - 1
             e == m - 1
  <2>1. q \in Nat /\ e \in Nat /\ e < l /\ k - 1 = (q * l) + e
    BY <1>1, <1>2, <1>3
  <2> HIDE DEF q, e, k
  <2>2. ((q * l) + e) \div l = q /\ ((q * l) + e) % l = e
    BY <1>1, <2>1
  <2> QED BY <2>1, <2>2 DEF q, e
<1>5. k \in 1..(c * l)
  <2>1. (c - i) * l >= 0 /\ c * l = ((c - i) * l) + ((i - 1) * l) + l
    BY <1>1, <1>2
  <2>2. (c - i) * l \in Int /\ c * l \in Int
    BY <1>1, <1>2
  <2> DEFINE x == (c - i) * l
             y == (i - 1) * l
             z == c * l
  <2>3. x >= 0 /\ x \in Int /\ y \in Nat /\ z \in Int /\ z = x + y + l /\ m \in 1..l /\ k = y + m
    BY <1>2, <1>3, <2>1, <2>2
  <2> HIDE DEF x, y, z, k
  <2>4. k \in 1..z
    BY <1>1, <2>3
  <2> QED BY <2>4 DEF z
<1>6. Slot(objs, attrs, k) = <<objs[((k - 1) \div l) + 1], attrs[((k - 1) % l) + 1]>>
  BY Zenon DEF Slot, l
<1> HIDE DEF k
<1>7. ((k - 1) \div l) + 1 = i /\ ((k - 1) % l) + 1 = m
  BY <1>2, <1>4
<1>8. Slot(objs, attrs, k) = <<objs[i], attrs[m]>>
  BY <1>6, <1>7
<1> QED BY <1>5, <1>8 DEF c, l

\* The status names the slots of the accesses that failed.
Explains(objs, attrs, failed) ==
    LET st == json_render_status(objs, attrs, failed) IN
    \A k \in 1..(Len(objs) * Len(attrs)) :
       GetCode(Slot(objs, attrs, k), failed) # "SUCCESS" =>
          st # <<>> /\ \E e \in ToSet(st) : e.index = k - 1 /\ e.access = Slot(objs, attrs, k)

LEMMA StatusIs ==
    ASSUME NEW S, NEW objs \in Seq(S), NEW R, NEW attrs \in Seq(R), NEW failed
    PROVE  Explains(objs, attrs, failed)
<1> DEFINE n == Len(objs) * Len(attrs)
           st == json_render_status(objs, attrs, failed)
           Entry(k) == [access |-> Slot(objs, attrs, k), index |-> k - 1,
                        error |-> GetCode(Slot(objs, attrs, k), failed)]
           all == [k \in 1..n |-> Entry(k)]
           P == {k \in DOMAIN all : all[k].error # "SUCCESS"}
           E == {Entry(k) : k \in 1..n}
<1>1. st = Picked(all, P)
  BY Zenon DEF json_render_status
<1>2. n \in Nat
  BY DEF n
<1> HIDE DEF n, Entry
<1>3. all \in [1..n -> E] /\ DOMAIN all = 1..n
  OBVIOUS
<1>4. all \in Seq(E)
  BY <1>2, <1>3, IsSeq
<1>5. P \in SUBSET DOMAIN all
  OBVIOUS
<1>6. \A k \in 1..n : all[k] = Entry(k)
  OBVIOUS
<1> HIDE DEF all, E
<1>7. /\ st \in Seq(E)
      /\ \A e \in 1..Len(st) : st[e] = all[Nth(P, e)]
      /\ \A k \in P : Rank(P, k) \in 1..Len(st) /\ Nth(P, Rank(P, k)) = k
  <2> HIDE DEF P, st
  <2> QED BY <1>1, <1>4, <1>5, PickedIs
<1>8. ASSUME NEW k \in 1..n, GetCode(Slot(objs, attrs, k), failed) # "SUCCESS"
      PROVE  st # <<>> /\ \E e \in ToSet(st) : e.index = k - 1 /\ e.access = Slot(objs, attrs, k)
  <2>1. /\ Entry(k).error # "SUCCESS" /\ Entry(k).index = k - 1
        /\ Entry(k).access = Slot(objs, attrs, k)
    BY <1>8 DEF Entry
  <2>2. k \in P
    BY <1>3, <1>6, <2>1
  <2> HIDE DEF P, st
  <2> DEFINE e == Rank(P, k)
  <2>3. e \in 1..Len(st) /\ st[e] = Entry(k)
    BY <1>6, <1>7, <2>2
  <2> HIDE DEF e
  <2>4. Len(st) \in Nat /\ DOMAIN st = 1..Len(st)
    BY <1>7
  <2>5. st # <<>> /\ st[e] \in ToSet(st)
    BY <2>3, <2>4 DEF ToSet
  <2> QED BY <2>1, <2>3, <2>5
<1> QED BY <1>8, Zenon DEF n, Explains

-----------------------------------------------------------------------------
(* What a command leaves for process_command to print.                     *)

Gets == {"get_attr", "get_attrs", "get_grp_attr", "get_grp_attrs"}
Sets == {"set_attr", "set_attrs", "set_grp_attr", "set_grp_attrs"}

\* The values have a slot each, as SlotsExplained asks.
Explained(heap, opt, body) ==
    LET known  == Only(opt.attrs, ToSet(AttrNames))
        named  == Only(opt.names, Objs)
        objs   == Only(heap, ToSet(named))
    IN  /\ body.vals # <<>> /\ Len(named) = Cardinality(ToSet(named))
        /\ ToSet(known) \subseteq supported_attr
        => /\ Len(body.vals) = Len(objs) * Len(known)
           /\ \A k \in DOMAIN body.vals :
                IF body.vals[k] = <<>>
                THEN \E e \in ToSet(body.status) :
                       e.index = k - 1 /\ e.access = Slot(objs, known, k)
                ELSE body.vals[k] = Slot(objs, known, k)

\* All that was asked is done, as SuccessMeansAll asks.
Complete(opt, body, set) ==
    /\ Dispatch(opt) \in Gets => Asked(opt.names) \X Asked(opt.attrs) \subseteq ToSet(body.vals)
    /\ Dispatch(opt) \in Sets =>
         \A o \in Asked(opt.names), k \in DOMAIN opt.attrs :
            opt.attrs[k] = "" \/ opt.values[k] = "" \/ <<o, opt.attrs[k], opt.values[k]>> \in set

Answers(opt, j, r) ==
    /\ Good(r.json) /\ r.json.on = j.on
    /\ ~ j.on => r.json.body = NoBody
    /\ Explained(order, opt, r.json.body)
    /\ r.json.on /\ r.json.ret = "SUCCESS" => Complete(opt, r.json.body, r.sent)

LEMMA NothingExplained ==
    ASSUME NEW opt, NEW body, body.vals = <<>>
    PROVE  Explained(order, opt, body)
BY DEF Explained

LEMMA AddGood ==
    ASSUME NEW j, Good(j), NEW b
    PROVE  LET p == json_add(j, b) IN
           /\ Good(p) /\ p.on = j.on /\ p.ret = j.ret
           /\ p.body = IF j.on THEN b ELSE j.body
BY DEF json_add, Good

LEMMA ConcatIs ==
    ASSUME NEW a \in Seq(Errors), NEW b \in Seq(Errors)
    PROVE  a \o b \in Seq(Errors) /\ (a \o b = <<>> => a = <<>> /\ b = <<>>)
OBVIOUS

LEMMA FailAnswers ==
    ASSUME NEW opt, NEW j, Good(j), j.body = NoBody, NEW codes \in Seq(Errors),
           codes = <<>> => Complete(opt, NoBody, {})
    PROVE  Answers(opt, j, Fail(j, codes))
<1> DEFINE p == PrintAll(j, codes)
<1>1. Fail(j, codes).json = p /\ Fail(j, codes).sent = {}
  BY DEF Fail, Result
<1>2. Good(p) /\ p.on = j.on /\ p.body = NoBody
      /\ IF codes = <<>> THEN p = j ELSE j.on => p.any /\ p.ret # "SUCCESS"
  BY PrintAllGood
<1> HIDE DEF p
<1>3. Explained(order, opt, NoBody)
  <2>1. NoBody.vals = <<>>
    BY DEF NoBody
  <2> QED BY <2>1, NothingExplained
<1>4. p.on /\ p.ret = "SUCCESS" => codes = <<>>
  BY <1>2
<1> QED BY <1>1, <1>2, <1>3, <1>4 DEF Answers

\* A command that neither gets nor sets attributes.
LEMMA OtherAnswers ==
    ASSUME NEW opt, Dispatch(opt) \notin Gets \cup Sets, NEW j, NEW k, Good(k),
           k.on = j.on, k.body = NoBody, NEW b, b.vals = <<>>
    PROVE  Answers(opt, j, Result(json_add(k, b), {}))
<1> DEFINE p == json_add(k, b)
<1>1. Good(p) /\ p.on = k.on /\ p.body = IF k.on THEN b ELSE k.body
  BY AddGood
<1>2. Result(p, {}).json = p
  BY DEF Result
<1> HIDE DEF p
<1>3. NoBody.vals = <<>>
  BY DEF NoBody
<1>4. p.body.vals = <<>>
  BY <1>1, <1>3
<1>5. Explained(order, opt, p.body)
  BY <1>4, NothingExplained
<1>6. \A body, set : Complete(opt, body, set)
  BY DEF Complete
<1> QED BY <1>1, <1>2, <1>5, <1>6 DEF Answers, p

\* What RenderValues puts into the document of a get.
LEMMA RenderAnswers ==
    ASSUME order \in Orders, NEW opt, NEW S, opt.names \in Seq(S), NEW R, opt.attrs \in Seq(R),
           NEW t, Found(t, opt.names), NEW a, Chosen(a, opt.attrs),
           NEW j, Good(j), j.body = NoBody, Dispatch(opt) \notin Sets, NEW failed,
           j.on /\ j.ret = "SUCCESS" =>
              t.errs = <<>> /\ a.errs = <<>> /\ json_render_status(t.objs, a.attrs, failed) = <<>>
    PROVE  Answers(opt, j, Result(RenderValues(j, t.objs, a.attrs, t.count, failed), {}))
<1> DEFINE objs  == t.objs
           attrs == a.attrs
           named == Only(opt.names, Objs)
           st    == json_render_status(objs, attrs, failed)
           B(v)  == [NoBody EXCEPT !.vals = v, !.status = st]
           z     == Len(objs) * Len(attrs)
           c     == t.count * Len(attrs)
<1>1. attrs = Only(opt.attrs, ToSet(AttrNames)) /\ attrs \in Seq(R)
      /\ ToSet(attrs) = ToSet(opt.attrs) \cap ToSet(AttrNames)
  <2> HIDE DEF AttrNames
  <2>1. attrs = Only(opt.attrs, ToSet(AttrNames))
    BY DEF Chosen
  <2> QED BY <2>1, OnlyIs
<1>2. /\ objs \in Seq(Objs) /\ t.count \in Nat /\ Len(objs) <= t.count
      /\ ToSet(objs) = ToSet(opt.names) \cap Objs
      /\ Len(named) = Cardinality(ToSet(named)) => Len(objs) = t.count
      /\ objs = Only(order, ToSet(named))
  BY ArraysIs
<1>3. PICK vals, errs :
        /\ RenderValues(j, objs, attrs, t.count, failed) = PrintAll(json_add(j, B(vals)), errs)
        /\ errs \in Seq(Errors) /\ (ToSet(attrs) \subseteq supported_attr => errs = <<>>)
        /\ errs = <<>> =>
              /\ Len(vals) = t.count * Len(attrs) /\ DOMAIN vals = 1..(t.count * Len(attrs))
              /\ \A k \in 1..(t.count * Len(attrs)) : vals[k] = SlotValue(objs, attrs, failed, k)
  <2>1. attrs \in Seq(R) /\ t.count \in Nat
    BY <1>1, <1>2
  <2> HIDE DEF objs, attrs
  <2>2. Renders(j, objs, attrs, t.count, failed)
    BY <2>1, Rendered
  <2> QED BY <2>2, Zenon DEF Renders
<1> DEFINE k == json_add(j, B(vals))
           p == PrintAll(k, errs)
<1>4. B(vals).vals = vals /\ B(vals).status = st
  BY DEF NoBody
<1> HIDE DEF B
<1>5. Good(k) /\ k.on = j.on /\ k.ret = j.ret /\ k.body = IF j.on THEN B(vals) ELSE NoBody
  BY AddGood
<1> HIDE DEF k
<1>6. Good(p) /\ p.on = k.on /\ p.body = k.body
      /\ IF errs = <<>> THEN p = k ELSE k.on => p.any /\ p.ret # "SUCCESS"
  BY <1>3, <1>5, PrintAllGood
<1>7. Result(RenderValues(j, t.objs, a.attrs, t.count, failed), {}).json = p
  BY <1>3 DEF Result, k
<1> HIDE DEF p, objs, attrs, named
<1>13. \A q \in 1..z : GetCode(Slot(objs, attrs, q), failed) # "SUCCESS" =>
          st # <<>> /\ \E e \in ToSet(st) : e.index = q - 1 /\ e.access = Slot(objs, attrs, q)
  <2>1. objs \in Seq(Objs) /\ attrs \in Seq(R)
    BY <1>1, <1>2
  <2>2. Explains(objs, attrs, failed)
    BY <2>1, StatusIs
  <2> QED BY <2>2, Zenon DEF Explains
<1>14. \A i \in 1..Len(objs), m \in 1..Len(attrs) :
          \E q \in 1..z : Slot(objs, attrs, q) = <<objs[i], attrs[m]>>
  <2>1. objs \in Seq(Objs) /\ attrs \in Seq(R)
    BY <1>1, <1>2
  <2> QED BY <2>1, SlotIs, Zenon
<1> HIDE DEF st
<1>8. z \in Nat /\ c \in Nat /\ z <= c
  <2>1. Len(attrs) \in Nat /\ Len(objs) \in Nat
    BY <1>1, <1>2
  <2> DEFINE x == Len(objs)
             y == Len(attrs)
             w == t.count
  <2>2. x \in Nat /\ y \in Nat /\ w \in Nat /\ x <= w
    BY <1>2, <2>1
  <2> HIDE DEF x, y, w
  <2>3. x * y \in Nat /\ w * y \in Nat /\ x * y <= w * y
    BY <2>2
  <2> QED BY <2>3 DEF x, y, w
<1>9. Explained(order, opt, p.body)
  <2>1. CASE ~ j.on
    <3>1. p.body.vals = <<>>
      BY <1>5, <1>6, <2>1 DEF NoBody
    <3> QED BY <3>1, NothingExplained
  <2>2. CASE j.on
    <3>1. p.body.vals = vals /\ p.body.status = st
      BY <1>4, <1>5, <1>6, <2>2
    <3>2. ASSUME Len(named) = Cardinality(ToSet(named)), ToSet(attrs) \subseteq supported_attr
          PROVE  /\ Len(vals) = Len(objs) * Len(attrs)
                 /\ \A i \in DOMAIN vals :
                      IF vals[i] = <<>>
                      THEN \E e \in ToSet(st) : e.index = i - 1 /\ e.access = Slot(objs, attrs, i)
                      ELSE vals[i] = Slot(objs, attrs, i)
      <4>1. Len(vals) = c /\ DOMAIN vals = 1..c
            /\ \A i \in 1..c : vals[i] = SlotValue(objs, attrs, failed, i)
        BY <1>3, <3>2
      <4>2. c = z
        BY <1>2, <3>2
      <4>3. ASSUME NEW i \in DOMAIN vals
            PROVE  IF vals[i] = <<>>
                   THEN \E e \in ToSet(st) : e.index = i - 1 /\ e.access = Slot(objs, attrs, i)
                   ELSE vals[i] = Slot(objs, attrs, i)
        <5>1. i \in 1..z /\ vals[i] = SlotValue(objs, attrs, failed, i)
          BY <4>1, <4>2, <4>3
        <5>2. Slot(objs, attrs, i) # <<>>
          BY DEF Slot
        <5>3. i <= Len(objs) * Len(attrs)
          BY <1>8, <5>1
        <5>4. vals[i] = IF GetCode(Slot(objs, attrs, i), failed) = "SUCCESS"
                        THEN Slot(objs, attrs, i) ELSE <<>>
          BY <5>1, <5>3 DEF SlotValue
        <5>5. vals[i] = <<>> => GetCode(Slot(objs, attrs, i), failed) # "SUCCESS"
          BY <5>2, <5>4
        <5>6. vals[i] = <<>> =>
                 \E e \in ToSet(st) : e.index = i - 1 /\ e.access = Slot(objs, attrs, i)
          BY <1>13, <5>1, <5>5
        <5> QED BY <5>4, <5>6
      <4> HIDE DEF z, c
      <4> QED BY <4>1, <4>2, <4>3 DEF z
    <3>3. attrs = Only(opt.attrs, ToSet(AttrNames)) /\ objs = Only(order, ToSet(named))
      BY <1>1, <1>2
    <3> DEFINE Told == /\ Len(vals) = Len(objs) * Len(attrs)
                       /\ \A i \in DOMAIN vals :
                            IF vals[i] = <<>>
                            THEN \E e \in ToSet(st) :
                                   e.index = i - 1 /\ e.access = Slot(objs, attrs, i)
                            ELSE vals[i] = Slot(objs, attrs, i)
    <3>4. Len(named) = Cardinality(ToSet(named)) /\ ToSet(attrs) \subseteq supported_attr => Told
      BY <3>2
    <3>5. (p.body.vals # <<>> /\ Len(named) = Cardinality(ToSet(named))
             /\ ToSet(attrs) \subseteq supported_attr => Told) => Explained(order, opt, p.body)
      <4> HIDE DEF AttrNames, supported_attr
      <4> QED BY <3>1, <3>3 DEF Explained, named
    <3> QED BY <3>4, <3>5
  <2> QED BY <2>1, <2>2
<1>10. ASSUME p.on, p.ret = "SUCCESS" PROVE Complete(opt, p.body, {})
  <2>1. errs = <<>> /\ p = k /\ j.on /\ j.ret = "SUCCESS"
    BY <1>5, <1>6, <1>10
  <2>2. t.errs = <<>> /\ a.errs = <<>> /\ st = <<>>
    BY <2>1 DEF st, objs, attrs
  <2>3. p.body.vals = vals
    BY <1>4, <1>5, <2>1
  <2>4. Asked(opt.names) \subseteq Objs /\ Asked(opt.attrs) \subseteq ToSet(AttrNames)
    <3> HIDE DEF AttrNames
    <3> QED BY <2>2 DEF Found, Chosen
  <2>5. Asked(opt.names) \subseteq ToSet(objs) /\ Asked(opt.attrs) \subseteq ToSet(attrs)
    <3> HIDE DEF AttrNames
    <3> QED BY <1>1, <1>2, <2>4 DEF Asked
  <2>6. ASSUME NEW o \in ToSet(objs), NEW x \in ToSet(attrs) PROVE <<o, x>> \in ToSet(vals)
    <3>1. PICK i \in 1..Len(objs) : o = objs[i]
      <4>1. DOMAIN objs = 1..Len(objs)
        BY <1>2
      <4> QED BY <2>6, <4>1 DEF ToSet
    <3>2. PICK m \in 1..Len(attrs) : x = attrs[m]
      <4>1. DOMAIN attrs = 1..Len(attrs)
        BY <1>1
      <4> QED BY <2>6, <4>1 DEF ToSet
    <3>3. PICK q \in 1..z : Slot(objs, attrs, q) = <<o, x>>
      BY <1>14, <3>1, <3>2, Zenon
    <3>4. q \in 1..c /\ q <= Len(objs) * Len(attrs)
      BY <1>8
    <3>5. GetCode(Slot(objs, attrs, q), failed) = "SUCCESS"
      BY <1>13, <2>2, <3>3
    <3>6. vals[q] = <<o, x>> /\ DOMAIN vals = 1..c
      BY <1>3, <2>1, <3>3, <3>4, <3>5 DEF SlotValue
    <3> QED BY <3>4, <3>6 DEF ToSet
  <2>7. Asked(opt.names) \X Asked(opt.attrs) \subseteq ToSet(vals)
    BY <2>5, <2>6
  <2> QED BY <2>3, <2>7 DEF Complete
<1>11. ~ j.on => p.body = NoBody
  BY <1>5, <1>6
<1>12. Result(RenderValues(j, t.objs, a.attrs, t.count, failed), {}).sent = {}
  BY DEF Result
<1> QED BY <1>5, <1>6, <1>7, <1>9, <1>10, <1>11, <1>12, Zenon DEF Answers

LEMMA OneCode ==
    ASSUME NEW code \in Errors
    PROVE  <<code>> \in Seq(Errors) /\ <<code>> # <<>>
OBVIOUS

\* The functions that get attributes.
LEMMA ArraysGotten ==
    ASSUME order \in Orders, NEW opt, NEW S, opt.names \in Seq(S), NEW R, opt.attrs \in Seq(R),
           NEW t, Found(t, opt.names), NEW a, Chosen(a, opt.attrs),
           NEW j, Good(j), j.body = NoBody, Dispatch(opt) \notin Sets, NEW failed
    PROVE  Answers(opt, j, GetArrays(j, t, a, failed))
<1> DEFINE bad == json_render_status(t.objs, a.attrs, failed) # <<>>
           k   == PrintAll(j, t.errs \o a.errs)
           one == IF bad THEN <<"FAILURE">> ELSE <<>>
           q   == PrintAll(k, one)
<1>1. GetArrays(j, t, a, failed) =
         IF t.count = 0 THEN Fail(j, t.errs)
         ELSE IF a.attrs = <<>> THEN Result(k, {})
         ELSE Result(RenderValues(q, t.objs, a.attrs, t.count, failed), {})
  BY Zenon DEF GetArrays
<1>2. /\ t.errs \in Seq(Errors) /\ a.errs \in Seq(Errors)
      /\ t.errs = <<>> => Asked(opt.names) \subseteq Objs
      /\ a.errs = <<>> => Asked(opt.attrs) \subseteq ToSet(AttrNames)
  <2> HIDE DEF AttrNames
  <2> QED BY DEF Found, Chosen
<1>3. t.errs \o a.errs \in Seq(Errors) /\ (t.errs \o a.errs = <<>> => t.errs = <<>> /\ a.errs = <<>>)
  BY <1>2, ConcatIs
<1>4. one \in Seq(Errors) /\ (one = <<>> => ~ bad)
  <2>1. <<"FAILURE">> \in Seq(Errors) /\ <<"FAILURE">> # <<>>
    <3>1. "FAILURE" \in Errors
      BY DEF Errors
    <3> QED BY <3>1, OneCode
  <2> HIDE DEF bad
  <2>2. CASE bad
    BY <2>1, <2>2
  <2>3. CASE ~ bad
    BY <2>3
  <2> QED BY <2>2, <2>3
<1>5. t.count = 0 => ToSet(opt.names) \cap Objs = {}
  BY ArraysIs
<1>6. a.attrs = <<>> => ToSet(opt.attrs) \cap ToSet(AttrNames) = {}
  <2> HIDE DEF AttrNames
  <2>1. a.attrs = Only(opt.attrs, ToSet(AttrNames))
    BY DEF Chosen
  <2> QED BY <2>1, OnlyIs
<1> HIDE DEF bad, one
<1>7. CASE t.count = 0
  <2>1. t.errs = <<>> => Complete(opt, NoBody, {})
    <3>1. t.errs = <<>> => Asked(opt.names) = {}
      BY <1>2, <1>5, <1>7 DEF Asked
    <3> QED BY <3>1 DEF Complete
  <2>2. Answers(opt, j, Fail(j, t.errs))
    BY <1>2, <2>1, FailAnswers
  <2> QED BY <1>1, <1>7, <2>2
<1>8. CASE t.count # 0 /\ a.attrs = <<>>
  <2>1. t.errs \o a.errs = <<>> => Complete(opt, NoBody, {})
    <3>1. a.errs = <<>> => Asked(opt.attrs) = {}
      BY <1>2, <1>6, <1>8 DEF Asked
    <3> QED BY <1>3, <3>1 DEF Complete
  <2>2. Answers(opt, j, Fail(j, t.errs \o a.errs))
    BY <1>3, <2>1, FailAnswers
  <2>3. Fail(j, t.errs \o a.errs) = Result(k, {})
    BY DEF Fail
  <2> QED BY <1>1, <1>8, <2>2, <2>3
<1>9. CASE t.count # 0 /\ a.attrs # <<>>
  <2>1. Good(k) /\ k.on = j.on /\ k.body = NoBody
        /\ IF t.errs \o a.errs = <<>> THEN k = j ELSE j.on => k.any /\ k.ret # "SUCCESS"
    BY <1>3, PrintAllGood
  <2> HIDE DEF k
  <2>2. Good(q) /\ q.on = k.on /\ q.body = NoBody
        /\ IF one = <<>> THEN q = k ELSE k.on => q.any /\ q.ret # "SUCCESS"
    BY <1>4, <2>1, PrintAllGood
  <2> HIDE DEF q
  <2>3. q.on /\ q.ret = "SUCCESS" => one = <<>> /\ t.errs \o a.errs = <<>>
    BY <2>1, <2>2
  <2>4. q.on /\ q.ret = "SUCCESS" =>
           t.errs = <<>> /\ a.errs = <<>> /\ json_render_status(t.objs, a.attrs, failed) = <<>>
    BY <1>3, <1>4, <2>3 DEF bad
  <2>5. Answers(opt, q, Result(RenderValues(q, t.objs, a.attrs, t.count, failed), {}))
    BY <2>2, <2>4, RenderAnswers
  <2>6. Answers(opt, q, GetArrays(j, t, a, failed))
    BY <1>1, <1>9, <2>5
  <2> QED BY <2>1, <2>2, <2>6 DEF Answers
<1> QED BY <1>7, <1>8, <1>9

LEMMA OneGotten ==
    ASSUME order \in Orders, NEW opt, NEW S, opt.names \in Seq(S), NEW R, opt.attrs \in Seq(R),
           Len(opt.names) = 1, Len(opt.attrs) = 1, Single(opt),
           NEW j, Good(j), j.body = NoBody, Dispatch(opt) \notin Sets, NEW failed
    PROVE  Answers(opt, j, cmd_get_attr(j, opt, failed))
<1> DEFINE t == GetObjByName(opt.names[1])
           a == Alone(opt)
           code == GetCode(<<t.objs[1], opt.attr>>, failed)
<1>1. Found(t, opt.names) /\ Chosen(a, opt.attrs)
  <2>1. Found(t, opt.names)
    BY NameFound
  <2>2. Chosen(a, opt.attrs)
    BY AloneChosen
  <2> QED BY <2>1, <2>2
<1>2. cmd_get_attr(j, opt, failed) =
         IF t.count = 0 THEN Fail(j, t.errs)
         ELSE IF code # "SUCCESS" THEN Fail(j, <<code>>)
         ELSE Result(RenderValues(j, t.objs, <<opt.attr>>, 1, failed), {})
  BY Zenon DEF cmd_get_attr
<1>3. IF t.count = 0 THEN t.errs = <<"NO_OBJ_BY_NAME">>
      ELSE t.count = 1 /\ t.objs = <<opt.names[1]>> /\ t.errs = <<>>
  BY DEF GetObjByName
<1>4. a.attrs = <<opt.attr>> /\ a.errs = <<>>
  BY DEF Alone
<1>5. code \in Code
  BY DEF GetCode, Code, Errors
<1> HIDE DEF t, a, code
<1>6. CASE t.count = 0
  <2>1. t.errs \in Seq(Errors) /\ t.errs # <<>>
    <3>1. "NO_OBJ_BY_NAME" \in Errors
      BY DEF Errors
    <3>2. <<"NO_OBJ_BY_NAME">> \in Seq(Errors) /\ <<"NO_OBJ_BY_NAME">> # <<>>
      BY <3>1, OneCode
    <3> QED BY <1>3, <1>6, <3>2
  <2>2. Answers(opt, j, Fail(j, t.errs))
    BY <2>1, FailAnswers
  <2> QED BY <1>2, <1>6, <2>2
<1>7. CASE t.count # 0 /\ code # "SUCCESS"
  <2>1. <<code>> \in Seq(Errors) /\ <<code>> # <<>>
    BY <1>5, <1>7 DEF Code
  <2>2. Answers(opt, j, Fail(j, <<code>>))
    BY <2>1, FailAnswers
  <2> QED BY <1>2, <1>7, <2>2
<1>8. CASE t.count # 0 /\ code = "SUCCESS"
  <2>1. t.objs = <<opt.names[1]>> /\ t.count = 1 /\ t.errs = <<>>
    BY <1>3, <1>8
  <2>2. json_render_status(t.objs, a.attrs, failed) = <<>>
    <3> DEFINE all == [k \in 1..1 |->
                  [access |-> Slot(t.objs, a.attrs, k), index |-> k - 1,
                   error |-> GetCode(Slot(t.objs, a.attrs, k), failed)]]
               P == {k \in DOMAIN all : all[k].error # "SUCCESS"}
    <3>1. Len(t.objs) * Len(a.attrs) = 1
      BY <1>4, <2>1
    <3>2. json_render_status(t.objs, a.attrs, failed) = Picked(all, P)
      BY <3>1 DEF json_render_status
    <3>3. Slot(t.objs, a.attrs, 1) = <<t.objs[1], opt.attr>>
      BY <1>4, <2>1 DEF Slot
    <3>4. P = {}
      <4>1. all[1].error = code
        BY <3>3 DEF code
      <4> QED BY <1>8, <4>1
    <3> HIDE DEF all
    <3>5. Picked(all, {}) = <<>>
      <4>1. Cardinality({}) = 0
        BY FS_EmptySet
      <4> QED BY <4>1 DEF Picked
    <3> QED BY <3>2, <3>4, <3>5
  <2>3. Answers(opt, j, Result(RenderValues(j, t.objs, a.attrs, t.count, failed), {}))
    BY <1>1, <1>4, <2>1, <2>2, RenderAnswers
  <2> QED BY <1>2, <1>4, <1>8, <2>1, <2>3
<1> QED BY <1>6, <1>7, <1>8

\* The pairs of an attribute and a value that can be set; any other is an error.
Valued(a, opt) ==
    /\ a.errs \in Seq(Errors) /\ \E W : a.attrs \in Seq(W)
    /\ a.errs = <<>> => \A k \in 1..Len(opt.attrs) :
          \/ opt.attrs[k] = "" \/ opt.values[k] = ""
          \/ \E m \in 1..Len(a.attrs) :
                a.attrs[m] = opt.attrs[k] /\ a.values[m] = opt.values[k]

\* The functions that set attributes.
LEMMA ArraysSet ==
    ASSUME order \in Orders, NEW opt, NEW S, opt.names \in Seq(S), NEW R, opt.attrs \in Seq(R),
           NEW t, Found(t, opt.names), NEW a, Valued(a, opt),
           NEW j, Good(j), j.body = NoBody, Dispatch(opt) \notin Gets, NEW failed
    PROVE  Answers(opt, j, SetArrays(j, t, a, failed))
<1> DEFINE asks == ToSet(t.objs) \X DOMAIN a.attrs
           bad  == {x \in asks : <<x[1], a.attrs[x[2]]>> \in failed}
           one  == IF bad # {} THEN <<"FAILURE">> ELSE <<>>
           k    == PrintAll(j, t.errs \o a.errs \o one)
           set  == {<<x[1], a.attrs[x[2]], a.values[x[2]]>> : x \in asks \ bad}
           p    == json_add(k, j.body)
<1>1. SetArrays(j, t, a, failed) =
         IF t.count = 0 THEN Fail(j, t.errs)
         ELSE IF a.attrs = <<>> THEN Fail(j, t.errs \o a.errs)
         ELSE Result(p, set)
  BY Zenon DEF SetArrays
<1>2. /\ t.errs \in Seq(Errors) /\ a.errs \in Seq(Errors)
      /\ t.errs = <<>> => Asked(opt.names) \subseteq Objs
  BY DEF Found, Valued
<1>3. t.errs \o a.errs \in Seq(Errors) /\ (t.errs \o a.errs = <<>> => t.errs = <<>> /\ a.errs = <<>>)
  BY <1>2, ConcatIs
<1>4. one \in Seq(Errors) /\ (one = <<>> => bad = {})
  <2>1. <<"FAILURE">> \in Seq(Errors) /\ <<"FAILURE">> # <<>>
    <3>1. "FAILURE" \in Errors
      BY DEF Errors
    <3> QED BY <3>1, OneCode
  <2> HIDE DEF bad
  <2>2. CASE bad # {}
    BY <2>1, <2>2
  <2>3. CASE bad = {}
    BY <2>3
  <2> QED BY <2>2, <2>3
<1> HIDE DEF one
<1>5. /\ t.errs \o a.errs \o one \in Seq(Errors)
      /\ t.errs \o a.errs \o one = <<>> => t.errs \o a.errs = <<>> /\ one = <<>>
  <2> DEFINE both == t.errs \o a.errs
  <2>1. both \in Seq(Errors)
    BY <1>3
  <2> HIDE DEF both
  <2>2. both \o one \in Seq(Errors) /\ (both \o one = <<>> => both = <<>> /\ one = <<>>)
    BY <1>4, <2>1, ConcatIs
  <2> QED BY <2>2 DEF both
<1>6. ToSet(t.objs) = ToSet(opt.names) \cap Objs /\ (t.count = 0 => ToSet(opt.names) \cap Objs = {})
  BY ArraysIs
<1>7. DOMAIN opt.attrs = 1..Len(opt.attrs) /\ DOMAIN a.attrs = 1..Len(a.attrs)
  <2>1. PICK W : a.attrs \in Seq(W)
    BY DEF Valued
  <2> QED BY <2>1
<1>8. a.errs = <<>> => \A i \in DOMAIN opt.attrs :
         \/ opt.attrs[i] = "" \/ opt.values[i] = ""
         \/ \E m \in DOMAIN a.attrs :
               a.attrs[m] = opt.attrs[i] /\ a.values[m] = opt.values[i]
  BY <1>7 DEF Valued
<1>9. CASE t.count = 0
  <2>1. t.errs = <<>> => Complete(opt, NoBody, {})
    <3>1. t.errs = <<>> => Asked(opt.names) = {}
      BY <1>2, <1>6, <1>9 DEF Asked
    <3> QED BY <3>1 DEF Complete
  <2>2. Answers(opt, j, Fail(j, t.errs))
    BY <1>2, <2>1, FailAnswers
  <2> QED BY <1>1, <1>9, <2>2
<1>10. CASE t.count # 0 /\ a.attrs = <<>>
  <2>1. t.errs \o a.errs = <<>> => Complete(opt, NoBody, {})
    <3>1. DOMAIN a.attrs = {}
      BY <1>7, <1>10
    <3>2. a.errs = <<>> => \A i \in DOMAIN opt.attrs : opt.attrs[i] = "" \/ opt.values[i] = ""
      BY <1>8, <3>1
    <3> QED BY <1>3, <3>2 DEF Complete
  <2>2. Answers(opt, j, Fail(j, t.errs \o a.errs))
    BY <1>3, <2>1, FailAnswers
  <2> QED BY <1>1, <1>10, <2>2
<1>11. CASE t.count # 0 /\ a.attrs # <<>>
  <2>1. Good(k) /\ k.on = j.on /\ k.body = NoBody
        /\ IF t.errs \o a.errs \o one = <<>> THEN k = j ELSE j.on => k.any /\ k.ret # "SUCCESS"
    BY <1>5, PrintAllGood
  <2> HIDE DEF k
  <2>2. Good(p) /\ p.on = k.on /\ p.ret = k.ret /\ p.body = IF k.on THEN j.body ELSE k.body
    BY <2>1, AddGood
  <2> HIDE DEF p
  <2>3. ASSUME p.on, p.ret = "SUCCESS" PROVE Complete(opt, p.body, set)
    <3>1. t.errs \o a.errs = <<>> /\ one = <<>>
      BY <1>5, <2>1, <2>2, <2>3
    <3>2. t.errs = <<>> /\ a.errs = <<>> /\ bad = {}
      BY <1>3, <1>4, <3>1
    <3>3. Asked(opt.names) \subseteq ToSet(t.objs)
      BY <1>2, <1>6, <3>2 DEF Asked
    <3>4. ASSUME NEW o \in Asked(opt.names), NEW i \in DOMAIN opt.attrs,
                 opt.attrs[i] # "", opt.values[i] # ""
          PROVE  <<o, opt.attrs[i], opt.values[i]>> \in set
      <4>1. PICK m \in DOMAIN a.attrs : a.attrs[m] = opt.attrs[i] /\ a.values[m] = opt.values[i]
        BY <1>8, <3>2, <3>4
      <4>2. <<o, m>> \in asks \ bad
        BY <3>2, <3>3
      <4> HIDE DEF asks, bad
      <4>3. <<o, a.attrs[m], a.values[m]>> \in set
        BY <4>2
      <4> QED BY <4>1, <4>3
    <3> HIDE DEF set
    <3> QED BY <3>4 DEF Complete, Gets, Sets
  <2>4. p.body = NoBody
    BY <2>1, <2>2
  <2>5. Explained(order, opt, NoBody)
    <3>1. NoBody.vals = <<>>
      BY DEF NoBody
    <3> QED BY <3>1, NothingExplained
  <2>6. Result(p, set).json = p /\ Result(p, set).sent = set
    BY DEF Result
  <2> HIDE DEF set
  <2>7. Answers(opt, j, Result(p, set))
    BY <2>1, <2>2, <2>3, <2>4, <2>5, <2>6 DEF Answers
  <2> QED BY <1>1, <1>11, <2>7
<1> QED BY <1>9, <1>10, <1>11

LEMMA AloneValued ==
    ASSUME NEW opt, NEW S, opt.attrs \in Seq(S), Len(opt.attrs) = 1, Single(opt)
    PROVE  Valued(Alone(opt), opt)
<1> DEFINE a == Alone(opt)
<1>1. a.attrs = <<opt.attrs[1]>> /\ a.values = opt.values /\ a.errs = <<>>
  BY DEF Alone, Single
<1> HIDE DEF a
<1>2. a.errs \in Seq(Errors)
  BY <1>1
<1>3. a.attrs \in Seq({opt.attrs[1]}) /\ Len(a.attrs) = 1 /\ a.attrs[1] = opt.attrs[1]
  BY <1>1
<1>4. ASSUME NEW k \in 1..Len(opt.attrs)
      PROVE  \E m \in 1..Len(a.attrs) : a.attrs[m] = opt.attrs[k] /\ a.values[m] = opt.values[k]
  <2>1. k = 1
    OBVIOUS
  <2>2. 1 \in 1..Len(a.attrs)
    BY <1>3
  <2> QED BY <1>1, <1>3, <2>1, <2>2
<1>5. \E W : a.attrs \in Seq(W)
  BY <1>3
<1> QED BY <1>2, <1>4, <1>5 DEF Valued, a

LEMMA ValuesValued ==
    ASSUME NEW opt, NEW S, opt.attrs \in Seq(S), NEW R, opt.values \in Seq(R), Matched(opt)
    PROVE  Valued(create_values(opt.attrs, opt.values), opt)
<1> DEFINE a == create_values(opt.attrs, opt.values)
<1>1. Len(opt.attrs) = Len(opt.values)
  BY DEF Matched
<1>2. /\ a.attrs \in Seq(S) /\ a.errs \in Seq(Errors)
      /\ a.errs = <<>> => \A k \in 1..Len(opt.attrs) :
            \/ opt.attrs[k] = "" \/ opt.values[k] = ""
            \/ \E m \in 1..Len(a.attrs) : a.attrs[m] = opt.attrs[k] /\ a.values[m] = opt.values[k]
  <2>1. Creates(S, opt.attrs, opt.values)
    BY <1>1, ValuesCreated
  <2> QED BY <2>1, Zenon DEF Creates
<1> HIDE DEF a
<1>3. \E W : a.attrs \in Seq(W)
  BY <1>2
<1> QED BY <1>2, <1>3 DEF Valued, a

LEMMA CodeAnswers ==
    ASSUME NEW opt, NEW j, Good(j), j.body = NoBody, NEW code \in Errors
    PROVE  Answers(opt, j, Fail(j, <<code>>))
<1>1. <<code>> \in Seq(Errors) /\ <<code>> # <<>>
  BY OneCode
<1> QED BY <1>1, FailAnswers

\* An object that is not found by its name.
LEMMA NameAnswers ==
    ASSUME NEW opt, NEW j, Good(j), j.body = NoBody, NEW name, GetObjByName(name).count = 0
    PROVE  Answers(opt, j, Fail(j, GetObjByName(name).errs))
<1>1. GetObjByName(name).errs = <<"NO_OBJ_BY_NAME">>
  BY DEF GetObjByName
<1>2. "NO_OBJ_BY_NAME" \in Errors
  BY DEF Errors
<1> QED BY <1>1, <1>2, CodeAnswers

\* What a command needs of its options.
Formed(opt) ==
    /\ opt.names \in Seq(ToSet(opt.names)) /\ opt.attrs \in Seq(ToSet(opt.attrs))
    /\ opt.values \in Seq(ToSet(opt.values))

LEMMA DispatchIs ==
    ASSUME NEW opt, opt.type \in Commands
    PROVE  /\ Dispatch(opt) \in {"get_attr", "set_attr"} =>
                 Len(opt.names) = 1 /\ Len(opt.attrs) = 1
           /\ Dispatch(opt) \in {"get_attrs", "set_attrs"} => Len(opt.names) = 1
           /\ Dispatch(opt) \in {"get_grp_attr", "set_grp_attr"} => Len(opt.attrs) = 1
<1>1. CASE opt.type = "list"
  BY <1>1 DEF Dispatch
<1>2. CASE opt.type = "get" /\ opt.index # -1
  BY <1>2 DEF Dispatch
<1>3. CASE opt.type = "get" /\ opt.index = -1 /\ opt.meta # "NOT_SPECIFIED"
  BY <1>3 DEF Dispatch
<1>4. CASE opt.type = "get" /\ opt.index = -1 /\ opt.meta = "NOT_SPECIFIED"
  BY <1>4 DEF Dispatch
<1>5. CASE opt.type = "set" /\ opt.meta # "NOT_SPECIFIED"
  BY <1>5 DEF Dispatch
<1>6. CASE opt.type = "set" /\ opt.meta = "NOT_SPECIFIED"
  BY <1>6 DEF Dispatch
<1>7. CASE opt.type = "trav"
  BY <1>7 DEF Dispatch
<1> QED BY <1>1, <1>2, <1>3, <1>4, <1>5, <1>6, <1>7 DEF Commands

LEMMA GetAnswers ==
    ASSUME order \in Orders, NEW opt, Formed(opt), opt.type \in Commands, Single(opt),
           NEW j, Good(j), j.body = NoBody, NEW failed
    PROVE  /\ Dispatch(opt) = "get_attr"      => Answers(opt, j, cmd_get_attr(j, opt, failed))
           /\ Dispatch(opt) = "get_attrs"     => Answers(opt, j, cmd_get_attrs(j, opt, failed))
           /\ Dispatch(opt) = "get_grp_attr"  => Answers(opt, j, cmd_get_grp_attr(j, opt, failed))
           /\ Dispatch(opt) = "get_grp_attrs" => Answers(opt, j, cmd_get_grp_attrs(j, opt, failed))
<1>1. opt.names \in Seq(ToSet(opt.names)) /\ opt.attrs \in Seq(ToSet(opt.attrs))
  BY DEF Formed
<1>2. Dispatch(opt) \in Gets => Dispatch(opt) \notin Sets
  BY DEF Gets, Sets
<1>3. ASSUME Dispatch(opt) = "get_attr" PROVE Answers(opt, j, cmd_get_attr(j, opt, failed))
  <2>1. Len(opt.names) = 1 /\ Len(opt.attrs) = 1
    BY <1>3, DispatchIs
  <2>2. Dispatch(opt) \notin Sets
    BY <1>3 DEF Sets
  <2> QED BY <1>1, <2>1, <2>2, OneGotten
<1>4. ASSUME Dispatch(opt) = "get_attrs" PROVE Answers(opt, j, cmd_get_attrs(j, opt, failed))
  <2>1. Found(GetObjByName(opt.names[1]), opt.names)
    BY <1>1, <1>4, DispatchIs, NameFound
  <2>2. Chosen(create_attrs(opt.attrs), opt.attrs)
    BY <1>1, AttrsChosen
  <2>3. Dispatch(opt) \notin Sets
    BY <1>4 DEF Sets
  <2> QED BY <1>1, <2>1, <2>2, <2>3, ArraysGotten DEF cmd_get_attrs
<1>5. ASSUME Dispatch(opt) = "get_grp_attr" PROVE Answers(opt, j, cmd_get_grp_attr(j, opt, failed))
  <2>1. Found(create_group(opt.names), opt.names)
    BY <1>1, GroupFound
  <2>2. Chosen(Alone(opt), opt.attrs)
    BY <1>1, <1>5, DispatchIs, AloneChosen
  <2>3. Dispatch(opt) \notin Sets
    BY <1>5 DEF Sets
  <2> QED BY <1>1, <2>1, <2>2, <2>3, ArraysGotten DEF cmd_get_grp_attr
<1>6. ASSUME Dispatch(opt) = "get_grp_attrs" PROVE Answers(opt, j, cmd_get_grp_attrs(j, opt, failed))
  <2>1. Found(create_group(opt.names), opt.names)
    BY <1>1, GroupFound
  <2>2. Chosen(create_attrs(opt.attrs), opt.attrs)
    BY <1>1, AttrsChosen
  <2>3. Dispatch(opt) \notin Sets
    BY <1>6 DEF Sets
  <2> QED BY <1>1, <2>1, <2>2, <2>3, ArraysGotten DEF cmd_get_grp_attrs
<1> QED BY <1>3, <1>4, <1>5, <1>6

LEMMA SetAnswers ==
    ASSUME order \in Orders, NEW opt, Formed(opt), opt.type \in Commands, Single(opt),
           NEW j, Good(j), j.body = NoBody, NEW failed
    PROVE  /\ Dispatch(opt) = "set_attr"      => Answers(opt, j, cmd_set_attr(j, opt, failed))
           /\ Dispatch(opt) = "set_attrs"     => Answers(opt, j, cmd_set_attrs(j, opt, failed))
           /\ Dispatch(opt) = "set_grp_attr"  => Answers(opt, j, cmd_set_grp_attr(j, opt, failed))
           /\ Dispatch(opt) = "set_grp_attrs" => Answers(opt, j, cmd_set_grp_attrs(j, opt, failed))
<1>1. /\ opt.names \in Seq(ToSet(opt.names)) /\ opt.attrs \in Seq(ToSet(opt.attrs))
      /\ opt.values \in Seq(ToSet(opt.values))
  BY DEF Formed
<1>2. Answers(opt, j, Fail(j, <<"FAILURE">>)) /\ Answers(opt, j, Fail(j, <<"BAD_VALUE">>))
  <2>1. "FAILURE" \in Errors /\ "BAD_VALUE" \in Errors
    BY DEF Errors
  <2> QED BY <2>1, CodeAnswers
<1>3. ASSUME Dispatch(opt) = "set_attr" PROVE Answers(opt, j, cmd_set_attr(j, opt, failed))
  <2>1. Found(GetObjByName(opt.names[1]), opt.names)
    BY <1>1, <1>3, DispatchIs, NameFound
  <2>2. Valued(Alone(opt), opt)
    BY <1>1, <1>3, DispatchIs, AloneValued
  <2>3. Dispatch(opt) \notin Gets
    BY <1>3 DEF Gets
  <2>4. Answers(opt, j, SetArrays(j, GetObjByName(opt.names[1]), Alone(opt), failed))
    BY <1>1, <2>1, <2>2, <2>3, ArraysSet
  <2> QED BY <1>2, <2>4, Zenon DEF cmd_set_attr
<1>4. ASSUME Dispatch(opt) = "set_attrs" PROVE Answers(opt, j, cmd_set_attrs(j, opt, failed))
  <2>1. Found(GetObjByName(opt.names[1]), opt.names)
    BY <1>1, <1>4, DispatchIs, NameFound
  <2>2. Matched(opt) => Valued(create_values(opt.attrs, opt.values), opt)
    BY <1>1, ValuesValued
  <2>3. Dispatch(opt) \notin Gets
    BY <1>4 DEF Gets
  <2>4. Matched(opt) => Answers(opt, j, SetArrays(j, GetObjByName(opt.names[1]),
                                   create_values(opt.attrs, opt.values), failed))
    BY <1>1, <2>1, <2>2, <2>3, ArraysSet
  <2> QED BY <1>2, <2>4, Zenon DEF cmd_set_attrs
<1>5. ASSUME Dispatch(opt) = "set_grp_attr" PROVE Answers(opt, j, cmd_set_grp_attr(j, opt, failed))
  <2>1. Found(create_group(opt.names), opt.names)
    BY <1>1, GroupFound
  <2>2. Valued(Alone(opt), opt)
    BY <1>1, <1>5, DispatchIs, AloneValued
  <2>3. Dispatch(opt) \notin Gets
    BY <1>5 DEF Gets
  <2>4. Answers(opt, j, SetArrays(j, create_group(opt.names), Alone(opt), failed))
    BY <1>1, <2>1, <2>2, <2>3, ArraysSet
  <2> QED BY <1>2, <2>4, Zenon DEF cmd_set_grp_attr
<1>6. ASSUME Dispatch(opt) = "set_grp_attrs" PROVE Answers(opt, j, cmd_set_grp_attrs(j, opt, failed))
  <2>1. Found(create_group(opt.names), opt.names)
    BY <1>1, GroupFound
  <2>2. Matched(opt) => Valued(create_values(opt.attrs, opt.values), opt)
    BY <1>1, ValuesValued
  <2>3. Dispatch(opt) \notin Gets
    BY <1>6 DEF Gets
  <2>4. Matched(opt) => Answers(opt, j, SetArrays(j, create_group(opt.names),
                                   create_values(opt.attrs, opt.values), failed))
    BY <1>1, <2>1, <2>2, <2>3, ArraysSet
  <2> QED BY <1>2, <2>4, Zenon DEF cmd_set_grp_attrs
<1> QED BY <1>3, <1>4, <1>5, <1>6

\* The commands that neither get nor set attributes.
LEMMA MetaAnswers ==
    ASSUME NEW opt, Dispatch(opt) \notin Gets \cup Sets, NEW j, Good(j), j.body = NoBody,
           NEW answer \in Code
    PROVE  /\ Answers(opt, j, cmd_get_meta(j, opt, answer))
           /\ Answers(opt, j, cmd_set_meta(j, opt, answer))
<1> DEFINE t == GetObjByName(opt.names[1])
           k == IF answer = "SUCCESS" THEN j ELSE json_print(j, answer)
           b == [j.body EXCEPT !.value = "value"]
<1>1. Answers(opt, j, Fail(j, <<"FAILURE">>)) /\ Answers(opt, j, Fail(j, <<"BAD_VALUE">>))
  <2>1. "FAILURE" \in Errors /\ "BAD_VALUE" \in Errors
    BY DEF Errors
  <2> QED BY <2>1, CodeAnswers
<1>2. answer # "SUCCESS" => answer \in Errors
  BY DEF Code
<1>3. t.count = 0 => Answers(opt, j, Fail(j, t.errs))
  BY NameAnswers
<1>4. answer # "SUCCESS" => Answers(opt, j, Fail(j, <<answer>>))
  BY <1>2, CodeAnswers
<1>5. b.vals = <<>> /\ NoBody.vals = <<>>
  BY DEF NoBody
<1> HIDE DEF b
<1>6. Answers(opt, j, Result(json_add(j, b), {}))
  BY <1>5, OtherAnswers
<1>7. Good(k) /\ k.on = j.on /\ k.body = NoBody
  BY <1>2, PrintGood
<1> HIDE DEF k
<1>8. Answers(opt, j, Result(json_add(k, k.body), {}))
  BY <1>5, <1>7, OtherAnswers
<1> HIDE DEF t
<1>9. Answers(opt, j, cmd_get_meta(j, opt, answer))
  BY <1>1, <1>3, <1>4, <1>6, Zenon DEF cmd_get_meta, t, b
<1>10. Answers(opt, j, cmd_set_meta(j, opt, answer))
  BY <1>1, <1>3, <1>8, Zenon DEF cmd_set_meta, t, k
<1> QED BY <1>9, <1>10

LEMMA TravAnswers ==
    ASSUME NEW opt, Dispatch(opt) \notin Gets \cup Sets, NEW j, Good(j), j.body = NoBody
    PROVE  /\ Answers(opt, j, cmd_get_parent(j, opt))
           /\ Answers(opt, j, cmd_get_children(j, opt))
<1> DEFINE t == GetObjByName(opt.names[1])
           b == [j.body EXCEPT !.names = Parent(t.objs[1])]
           c == [j.body EXCEPT !.names = ToSet(ObjGetChildren(t.objs[1]))]
<1>1. /\ Answers(opt, j, Fail(j, <<"WARN_NO_PARENT">>))
      /\ Answers(opt, j, Fail(j, <<"WARN_NO_CHILDREN">>))
  <2>1. "WARN_NO_PARENT" \in Errors /\ "WARN_NO_CHILDREN" \in Errors
    BY DEF Errors
  <2> QED BY <2>1, CodeAnswers
<1>2. t.count = 0 => Answers(opt, j, Fail(j, t.errs))
  BY NameAnswers
<1>3. b.vals = <<>> /\ c.vals = <<>>
  <2> HIDE DEF t
  <2> QED BY DEF NoBody
<1> HIDE DEF b, c
<1>4. Answers(opt, j, Result(json_add(j, b), {})) /\ Answers(opt, j, Result(json_add(j, c), {}))
  BY <1>3, OtherAnswers
<1> HIDE DEF t
<1>5. Answers(opt, j, cmd_get_parent(j, opt))
  BY <1>1, <1>2, <1>4, Zenon DEF cmd_get_parent, t, b
<1>6. Answers(opt, j, cmd_get_children(j, opt))
  BY <1>1, <1>2, <1>4, Zenon DEF cmd_get_children, t, c
<1> QED BY <1>5, <1>6

LEMMA ListAnswers ==
    ASSUME NEW opt, Dispatch(opt) \notin Gets \cup Sets, NEW j, Good(j), j.body = NoBody
    PROVE  Answers(opt, j, cmd_get_list(j, opt))
<1> DEFINE Has(list) == opt.list \in {list, "all"}
           b == [j.body EXCEPT !.tree = IF Has("hier") THEN print_hierarchy_list ELSE @,
                               !.names = IF Has("name") THEN print_name_list ELSE @,
                               !.attrs = IF Has("attr") THEN print_attribute_list.list ELSE @]
           c == [b EXCEPT !.attrs = <<>>]
           code == print_attribute_list.ret
           p == json_print(json_add(j, c), code)
<1>1. cmd_get_list(j, opt) =
         IF Has("attr") /\ code # "SUCCESS" THEN Result(p, {}) ELSE Result(json_add(j, b), {})
  BY Zenon DEF cmd_get_list
<1>2. code # "SUCCESS" => code \in Errors
  <2>1. code \in {"SUCCESS", "WARN_TRUNC"}
    BY Zenon DEF print_attribute_list, get_attr_list
  <2> HIDE DEF code
  <2> QED BY <2>1 DEF Errors
<1> HIDE DEF code
<1>3. b.vals = <<>> /\ c.vals = <<>>
  <2> HIDE DEF Has
  <2> QED BY DEF NoBody
<1> HIDE DEF b, c
<1>4. Answers(opt, j, Result(json_add(j, b), {}))
  BY <1>3, OtherAnswers
<1>5. ASSUME code # "SUCCESS" PROVE Answers(opt, j, Result(p, {}))
  <2> DEFINE k == json_add(j, c)
  <2>1. Good(k) /\ k.on = j.on /\ k.body = IF j.on THEN c ELSE j.body
    BY AddGood
  <2> HIDE DEF k
  <2>2. Good(p) /\ p.on = k.on /\ p.body = k.body
    BY <1>2, <1>5, <2>1, PrintGood DEF k
  <2> HIDE DEF p
  <2>3. p.body.vals = <<>> /\ (~ j.on => p.body = NoBody)
    BY <1>3, <2>1, <2>2 DEF NoBody
  <2>4. Explained(order, opt, p.body)
    BY <2>3, NothingExplained
  <2>5. Complete(opt, p.body, {})
    BY DEF Complete
  <2>6. Result(p, {}).json = p /\ Result(p, {}).sent = {}
    BY DEF Result
  <2> QED BY <2>1, <2>2, <2>3, <2>4, <2>5, <2>6 DEF Answers
<1> HIDE DEF p
<1> QED BY <1>1, <1>4, <1>5

-----------------------------------------------------------------------------
(* The session.                                                            *)

\* The output module between two commands: what is in it is an error.
Rest(j) == Good(j) /\ j.body = NoBody /\ (j.on /\ j.any => j.ret # "SUCCESS")

LEMMA DisableIs ==
    ASSUME NEW j, Good(j)
    PROVE  /\ Rest(json_disable_output(j)) /\ ~ json_disable_output(j).on
           /\ Rest(json_enable_output(j)) /\ json_enable_output(j).on /\ ~ json_enable_output(j).any
<1> DEFINE d == json_disable_output(j)
           e == json_enable_output(j)
<1>1. "SUCCESS" \in Code /\ "freed" \in Pointer
  BY DEF Code, Pointer
<1>2. Good(d) /\ d.body = NoBody /\ ~ d.on
  <2>1. j \in [on : BOOLEAN, ret : Code, any : BOOLEAN, body : {j.body}, errs : Seq(Errors),
               cerrmsgs : Pointer, ub : BOOLEAN, first : Code] /\ j.ret = j.first
    BY DEF Good
  <2> DEFINE m == IF j.cerrmsgs = "live" THEN "freed" ELSE j.cerrmsgs
  <2>2. m \in Pointer
    BY <1>1, <2>1
  <2> HIDE DEF m
  <2>3. d = [j EXCEPT !.on = FALSE, !.body = NoBody, !.errs = <<>>, !.cerrmsgs = m]
    BY DEF json_disable_output, m
  <2> HIDE DEF d
  <2>4. d = [on |-> FALSE, ret |-> j.ret, any |-> j.any, body |-> NoBody, errs |-> <<>>,
             cerrmsgs |-> m, ub |-> j.ub, first |-> j.first]
    BY <2>1, <2>3
  <2>5. <<>> \in Seq(Errors)
    OBVIOUS
  <2>6. /\ d.body = NoBody /\ ~ d.on /\ d.ret = d.first
        /\ d \in [on : BOOLEAN, ret : Code, any : BOOLEAN, body : {NoBody}, errs : Seq(Errors),
                  cerrmsgs : Pointer, ub : BOOLEAN, first : Code]
    BY <2>1, <2>2, <2>4, <2>5
  <2> QED BY <2>6 DEF Good
<1>3. e = [d EXCEPT !.on = TRUE, !.ret = "SUCCESS", !.any = FALSE, !.first = "SUCCESS"]
  BY Zenon DEF json_enable_output
<1> HIDE DEF d, e
<1>4. Good(e) /\ e.body = NoBody /\ e.on /\ ~ e.any
  BY <1>1, <1>2, <1>3 DEF Good
<1> QED BY <1>2, <1>4 DEF Rest, d, e

LEMMA PrintRest ==
    ASSUME NEW j, Rest(j), NEW code \in Errors
    PROVE  LET p == json_print(j, code) IN
           Rest(p) /\ p.on = j.on /\ (j.on => p.any /\ p.ret # "SUCCESS")
<1> DEFINE p == json_print(j, code)
<1>1. Good(p) /\ p.on = j.on /\ p.body = j.body /\ (j.on => p.any /\ p.ret # "SUCCESS")
  BY PrintGood DEF Rest
<1> HIDE DEF p
<1> QED BY <1>1 DEF Rest, p

LEMMA FlushIs ==
    ASSUME NEW j, Good(j), NEW force \in BOOLEAN
    PROVE  LET f == json_flush_output(j, force) IN
           IF j.on /\ (force \/ j.any)
           THEN /\ f.docs = <<Document(j)>> /\ Rest(f.json) /\ f.json.on /\ ~ f.json.any
           ELSE /\ f.docs = <<>> /\ f.json = j
BY DisableIs DEF json_flush_output

\* What the documents say of a command.
Told(ds, heap, opt, set) ==
    /\ \E S : ds \in Seq(S)
    /\ \A k \in 1..Len(ds) : ds[k].ret = ds[k].first /\ Explained(heap, opt, ds[k].body)
    /\ ds # <<>> /\ ds[1].ret = "SUCCESS" => Complete(opt, ds[1].body, set)

LEMMA NoneTold ==
    ASSUME NEW heap, NEW opt, NEW set
    PROVE  Told(<<>>, heap, opt, set)
BY DEF Told

LEMMA OneTold ==
    ASSUME NEW heap, NEW opt, NEW set, NEW j, Good(j), Explained(heap, opt, j.body),
           j.ret = "SUCCESS" => Complete(opt, j.body, set)
    PROVE  Told(<<Document(j)>>, heap, opt, set)
<1> DEFINE d == Document(j)
<1>1. d.ret = j.ret /\ d.first = j.first /\ d.body = j.body /\ j.ret = j.first
  BY DEF Document, Good
<1> HIDE DEF d
<1>2. <<d>> \in Seq({d}) /\ Len(<<d>>) = 1 /\ <<d>>[1] = d
  OBVIOUS
<1>3. \E S : <<d>> \in Seq(S)
  BY <1>2
<1>4. \A k \in 1..Len(<<d>>) : <<d>>[k].ret = <<d>>[k].first /\ Explained(heap, opt, <<d>>[k].body)
  BY <1>1, <1>2
<1>5. Told(<<d>>, heap, opt, set)
  BY <1>1, <1>2, <1>3, <1>4 DEF Told
<1> QED BY <1>5 DEF d

LEMMA MoreTold ==
    ASSUME NEW heap, NEW opt, NEW set, NEW ds, Told(ds, heap, opt, set),
           NEW j, Rest(j), j.ret # "SUCCESS"
    PROVE  Told(ds \o <<Document(j)>>, heap, opt, set) /\ ds \o <<Document(j)>> # <<>>
<1> DEFINE d == Document(j)
           es == ds \o <<d>>
<1>1. d.ret = j.ret /\ d.first = j.first /\ d.body = NoBody /\ j.ret = j.first
  BY DEF Document, Rest, Good
<1> HIDE DEF d
<1>2. PICK S : ds \in Seq(S)
  BY DEF Told
<1>3. ds \in Seq(S \cup {d}) /\ <<d>> \in Seq(S \cup {d})
  BY <1>2
<1>4. /\ es \in Seq(S \cup {d}) /\ Len(es) = Len(ds) + 1 /\ Len(ds) \in Nat
      /\ \A k \in 1..Len(ds) : es[k] = ds[k]
      /\ es[Len(ds) + 1] = d
  BY <1>3
<1>5. NoBody.vals = <<>>
  BY DEF NoBody
<1>6. Explained(heap, opt, NoBody)
  BY <1>5 DEF Explained
<1> HIDE DEF es
<1>7. \A k \in 1..Len(es) : es[k].ret = es[k].first /\ Explained(heap, opt, es[k].body)
  <2> SUFFICES ASSUME NEW k \in 1..Len(es)
               PROVE  es[k].ret = es[k].first /\ Explained(heap, opt, es[k].body)
    OBVIOUS
  <2>1. CASE k = Len(ds) + 1
    BY <1>1, <1>4, <1>6, <2>1
  <2>2. CASE k # Len(ds) + 1
    <3>1. k \in 1..Len(ds) /\ es[k] = ds[k]
      BY <1>4, <2>2
    <3> QED BY <3>1 DEF Told
  <2> QED BY <2>1, <2>2
<1>8. es[1].ret = "SUCCESS" => Complete(opt, es[1].body, set)
  <2>1. CASE Len(ds) = 0
    <3>1. es[1] = d
      BY <1>4, <2>1
    <3> QED BY <1>1, <3>1
  <2>2. CASE Len(ds) # 0
    <3>1. 1 \in 1..Len(ds) /\ ds # <<>>
      BY <1>2, <1>4, <2>2
    <3>2. es[1] = ds[1]
      BY <1>4, <3>1
    <3> QED BY <3>1, <3>2 DEF Told
  <2> QED BY <2>1, <2>2
<1>9. Len(es) # 0
  BY <1>4
<1>10. es # <<>> /\ \E R : es \in Seq(R)
  BY <1>4, <1>9
<1>11. Told(es, heap, opt, set)
  BY <1>7, <1>8, <1>10, Zenon DEF Told
<1> QED BY <1>10, <1>11 DEF es, d

\* Where a session is, and what it has printed there.
Phased ==
    /\ phase = "start" => dflt = NoFlags
    /\ phase = "init" => Single(cmd) /\ Typed(dflt, cmd) /\ (json.on => dflt["c"] > 0)
    /\ phase = "prompt" => dflt["c"] = 0 /\ (json.on => Len(docs) = 1)
    /\ phase = "command" => cmd.type \in Commands /\ Single(cmd)
    /\ phase = "exit" /\ json.on => docs # <<>> \/ json.any
    /\ phase = "exited" /\ json.on => docs # <<>>

ReportInv ==
    /\ order \in Orders /\ dflt \in [Letters -> Nat] /\ Formed(cmd)
    /\ Rest(json) /\ Told(docs, order, cmd, sent) /\ Phased

LEMMA ReportInit == Init => ReportInv
<1> SUFFICES ASSUME Init PROVE ReportInv
  OBVIOUS
<1>1. order \in Orders /\ dflt = NoFlags /\ dflt \in [Letters -> Nat]
  BY DEF Init, NoFlags
<1>2. Formed(cmd)
  BY DEF Init, InitCmdOpt, Formed
<1>3. Good(InitJson) /\ InitJson.body = NoBody /\ ~ InitJson.on
  BY DEF InitJson, Good, Code, Pointer
<1>4. Rest(json)
  BY <1>3 DEF Init, Rest
<1>5. Told(docs, order, cmd, sent)
  BY NoneTold DEF Init
<1>6. phase = "start"
  BY DEF Init
<1>7. Phased
  BY <1>1, <1>6 DEF Phased
<1> QED BY <1>1, <1>2, <1>4, <1>5, <1>7 DEF ReportInv

LEMMA ParseStep ==
    ASSUME ReportInv, NEW line \in Starts \cup Lines, Parse(line)
    PROVE  LET p == parse_cmd_line(line, dflt, phase = "prompt") IN
           /\ cmd' = p.opt /\ Formed(cmd') /\ Rest(json') /\ docs' = <<>>
           /\ json'.on => p.is = "command"
<1> DEFINE p == parse_cmd_line(line, dflt, phase = "prompt")
           j == json_disable_output(json)
<1>1. dflt \in [Letters -> Nat] /\ Good(json)
  BY DEF ReportInv, Rest
<1>2. /\ p.opt.names \in Seq(ToSet(p.opt.names)) /\ p.opt.attrs \in Seq(ToSet(p.opt.attrs))
      /\ p.opt.values \in Seq(ToSet(p.opt.values))
  BY <1>1, ParseIs
<1>3. /\ cmd' = p.opt /\ docs' = <<>>
      /\ json' = IF p.is = "command" /\ p.json THEN json_enable_output(j) ELSE j
  BY Zenon DEF Parse
<1> HIDE DEF p
<1>4. Rest(j) /\ ~ j.on
  BY <1>1, DisableIs
<1>5. Good(j)
  BY <1>4 DEF Rest
<1> HIDE DEF j
<1>6. Rest(json_enable_output(j))
  BY <1>5, DisableIs
<1>7. Rest(json') /\ (json'.on => p.is = "command")
  BY <1>3, <1>4, <1>6
<1>8. Formed(cmd')
  BY <1>2, <1>3 DEF Formed
<1> QED BY <1>3, <1>7, <1>8 DEF p

LEMMA StartStep ==
    ASSUME ReportInv, NEW line \in Starts, Start(line)
    PROVE  ReportInv'
<1> DEFINE p == parse_cmd_line(line, NoFlags, FALSE)
<1>1. phase = "start" /\ Parse(line) /\ order' = order
      /\ phase' = (IF p.is = "error" THEN "exited" ELSE "init")
      /\ dflt' = IF p.is = "interactive" THEN [p.flags EXCEPT !["i"] = 0] ELSE p.flags
  BY Zenon DEF Start
<1>2. dflt = NoFlags /\ (phase = "prompt") = FALSE /\ order \in Orders
  BY <1>1 DEF ReportInv, Phased
<1>3. parse_cmd_line(line, dflt, phase = "prompt") = p
  BY <1>2
<1>4. /\ cmd' = p.opt /\ Formed(cmd') /\ Rest(json') /\ docs' = <<>>
      /\ json'.on => p.is = "command"
  BY <1>1, <1>3, ParseStep
<1>5. NoFlags \in [Letters -> Nat] /\ NoFlags["c"] = 0
  BY DEF NoFlags, Letters
<1>6. /\ p.flags \in [Letters -> Nat]
      /\ p.is # "error" => Single(p.opt) /\ Typed(p.flags, p.opt)
      /\ p.is = "command" => p.flags["c"] > 0
  BY <1>5, ParseIs
<1> HIDE DEF p
<1>7. dflt' \in [Letters -> Nat] /\ dflt'["c"] = p.flags["c"]
  <2>1. "i" \in Letters /\ "c" \in Letters
    BY DEF Letters
  <2> QED BY <1>1, <1>6, <2>1
<1>8. Told(docs', order', cmd', sent')
  BY <1>4, NoneTold
<1>9. Phased'
  <2>1. CASE p.is = "error"
    BY <1>1, <1>4, <2>1 DEF Phased
  <2>2. CASE p.is # "error"
    <3>1. Single(cmd') /\ Typed(dflt', cmd')
      BY <1>4, <1>6, <1>7, <2>2 DEF Typed
    <3>2. json'.on => dflt'["c"] > 0
      BY <1>4, <1>6, <1>7
    <3> QED BY <1>1, <2>2, <3>1, <3>2 DEF Phased
  <2> QED BY <2>1, <2>2
<1> QED BY <1>1, <1>2, <1>4, <1>7, <1>8, <1>9 DEF ReportInv

LEMMA DoStep ==
    ASSUME ReportInv, NEW line \in Lines, Do(line)
    PROVE  ReportInv'
<1> DEFINE p == parse_cmd_line(line, dflt, TRUE)
<1>1. phase = "prompt" /\ Parse(line) /\ order' = order /\ dflt' = dflt
      /\ phase' = IF p.is = "command" THEN "command" ELSE "prompt"
  BY Zenon DEF Do
<1>2. dflt \in [Letters -> Nat] /\ dflt["c"] = 0 /\ order \in Orders
  BY <1>1 DEF ReportInv, Phased
<1>3. parse_cmd_line(line, dflt, phase = "prompt") = p
  <2>1. (phase = "prompt") = TRUE
    BY <1>1
  <2> QED BY <2>1
<1>4. /\ cmd' = p.opt /\ Formed(cmd') /\ Rest(json') /\ docs' = <<>>
      /\ json'.on => p.is = "command"
  BY <1>1, <1>3, ParseStep
<1>5. /\ p.is # "error" => Single(p.opt) /\ Typed(p.flags, p.opt)
      /\ p.is = "command" => p.flags["c"] > 0
  BY <1>2, ParseIs
<1> HIDE DEF p
<1>6. Told(docs', order', cmd', sent')
  BY <1>4, NoneTold
<1>7. p.is = "command" => cmd'.type \in Commands /\ Single(cmd')
  BY <1>4, <1>5 DEF Typed
<1>8. Phased'
  BY <1>1, <1>2, <1>4, <1>7 DEF Phased
<1> QED BY <1>1, <1>2, <1>4, <1>6, <1>8 DEF ReportInv

\* The end of process_command, which shows the document whether or not there is
\* something in it.
LEMMA FinishStep ==
    ASSUME ReportInv, phase = "command", NEW r, Answers(cmd, json, r), Finish(r)
    PROVE  ReportInv'
<1> DEFINE f == json_flush_output(r.json, TRUE)
<1>1. /\ json' = f.json /\ docs' = f.docs /\ sent' = r.sent
      /\ dflt' = dflt /\ cmd' = cmd /\ order' = order
      /\ phase' = IF dflt["c"] > 0 THEN "exit" ELSE "prompt"
  BY Zenon DEF Finish
<1>2. /\ Good(r.json) /\ r.json.on = json.on /\ (~ json.on => r.json.body = NoBody)
      /\ Explained(order, cmd, r.json.body)
      /\ r.json.on /\ r.json.ret = "SUCCESS" => Complete(cmd, r.json.body, r.sent)
  BY DEF Answers
<1>3. /\ order \in Orders /\ dflt \in [Letters -> Nat] /\ Formed(cmd)
      /\ dflt["c"] \in Nat
  BY DEF ReportInv, Letters
<1>4. IF r.json.on THEN f.docs = <<Document(r.json)>> /\ Rest(f.json) /\ f.json.on
      ELSE f.docs = <<>> /\ f.json = r.json
  BY <1>2, FlushIs
<1> HIDE DEF f
<1>5. CASE r.json.on
  <2>1. Told(<<Document(r.json)>>, order, cmd, r.sent)
    BY <1>2, <1>5, OneTold
  <2>2. Told(docs', order', cmd', sent') /\ Rest(json') /\ Len(docs') = 1 /\ docs' # <<>>
    <3>1. docs' = <<Document(r.json)>> /\ Rest(json')
      BY <1>1, <1>4, <1>5
    <3>2. Told(docs', order', cmd', sent')
      BY <1>1, <2>1, <3>1
    <3>3. Len(<<Document(r.json)>>) = 1 /\ <<Document(r.json)>> # <<>>
      OBVIOUS
    <3> QED BY <3>1, <3>2, <3>3
  <2>3. Phased'
    BY <1>1, <1>3, <2>2 DEF Phased
  <2> QED BY <1>1, <1>3, <2>2, <2>3 DEF ReportInv
<1>6. CASE ~ r.json.on
  <2>1. Rest(json') /\ ~ json'.on
    BY <1>1, <1>2, <1>4, <1>6 DEF Rest
  <2>2. Told(docs', order', cmd', sent')
    BY <1>1, <1>4, <1>6, NoneTold
  <2>3. Phased'
    BY <1>1, <1>3, <2>1 DEF Phased
  <2> QED BY <1>1, <1>3, <2>1, <2>2, <2>3 DEF ReportInv
<1> QED BY <1>5, <1>6

\* A step that changes nothing but the phase, to one where nothing is promised.
LEMMA StopStep ==
    ASSUME ReportInv, UNCHANGED <<dflt, cmd, json, docs, ctx, order, sent, done>>,
           \/ phase' = "crashed"
           \/ phase = "prompt" /\ phase' = "exit"
    PROVE  ReportInv'
<1>1. /\ dflt' = dflt /\ cmd' = cmd /\ json' = json /\ docs' = docs
      /\ order' = order /\ sent' = sent
  OBVIOUS
<1>2. Len(docs) = 1 => docs # <<>>
  OBVIOUS
<1>3. Phased'
  BY <1>1, <1>2 DEF ReportInv, Phased
<1> QED BY <1>1, <1>3 DEF ReportInv

LEMMA CommandStep ==
    ASSUME ReportInv, process_command \/ cmd_get_meta_at_index
    PROVE  ReportInv'
<1>1. /\ order \in Orders /\ Formed(cmd) /\ Good(json) /\ json.body = NoBody
  BY DEF ReportInv, Rest
<1>2. phase = "command"
  BY DEF process_command, cmd_get_meta_at_index
<1>3. cmd.type \in Commands /\ Single(cmd)
  BY <1>2 DEF ReportInv, Phased
<1> DEFINE Ends == \E r : Answers(cmd, json, r) /\ Finish(r)
<1>4. ASSUME Ends PROVE ReportInv'
  BY <1>2, <1>4, FinishStep
<1> HIDE DEF Ends
<1>5. ASSUME NEW r, Answers(cmd, json, r), Finish(r) PROVE Ends
  BY <1>5 DEF Ends
<1>6. \A failed :
        /\ Dispatch(cmd) = "get_attr"      => Answers(cmd, json, cmd_get_attr(json, cmd, failed))
        /\ Dispatch(cmd) = "get_attrs"     => Answers(cmd, json, cmd_get_attrs(json, cmd, failed))
        /\ Dispatch(cmd) = "get_grp_attr"  => Answers(cmd, json, cmd_get_grp_attr(json, cmd, failed))
        /\ Dispatch(cmd) = "get_grp_attrs" => Answers(cmd, json, cmd_get_grp_attrs(json, cmd, failed))
  BY <1>1, <1>3, GetAnswers
<1>7. \A failed :
        /\ Dispatch(cmd) = "set_attr"      => Answers(cmd, json, cmd_set_attr(json, cmd, failed))
        /\ Dispatch(cmd) = "set_attrs"     => Answers(cmd, json, cmd_set_attrs(json, cmd, failed))
        /\ Dispatch(cmd) = "set_grp_attr"  => Answers(cmd, json, cmd_set_grp_attr(json, cmd, failed))
        /\ Dispatch(cmd) = "set_grp_attrs" => Answers(cmd, json, cmd_set_grp_attrs(json, cmd, failed))
  BY <1>1, <1>3, SetAnswers
<1>8. Dispatch(cmd) \notin Gets \cup Sets =>
         /\ \A answer \in Code : /\ Answers(cmd, json, cmd_get_meta(json, cmd, answer))
                                 /\ Answers(cmd, json, cmd_set_meta(json, cmd, answer))
         /\ Answers(cmd, json, cmd_get_parent(json, cmd))
         /\ Answers(cmd, json, cmd_get_children(json, cmd))
         /\ Answers(cmd, json, cmd_get_list(json, cmd))
  BY <1>1, MetaAnswers, TravAnswers, ListAnswers
<1>9. \A f \in {"get_meta", "set_meta", "get_parent", "get_children", "get_list",
                "get_meta_at_index"} : f \notin Gets \cup Sets
  BY DEF Gets, Sets
<1>10. {"SUCCESS", "NO_META", "READ_ONLY", "BAD_INDEX"} \subseteq Code
  BY DEF Code, Errors
<1>11. CASE process_command
  <2> DEFINE f == Dispatch(cmd)
  <2>1. \/ \E failed \in Failed :
              \/ f = "get_attr"      /\ Finish(cmd_get_attr(json, cmd, failed))
              \/ f = "get_attrs"     /\ Finish(cmd_get_attrs(json, cmd, failed))
              \/ f = "get_grp_attr"  /\ Finish(cmd_get_grp_attr(json, cmd, failed))
              \/ f = "get_grp_attrs" /\ Finish(cmd_get_grp_attrs(json, cmd, failed))
              \/ f = "set_attr"      /\ Finish(cmd_set_attr(json, cmd, failed))
              \/ f = "set_attrs"     /\ Finish(cmd_set_attrs(json, cmd, failed))
              \/ f = "set_grp_attr"  /\ Finish(cmd_set_grp_attr(json, cmd, failed))
              \/ f = "set_grp_attrs" /\ Finish(cmd_set_grp_attrs(json, cmd, failed))
        \/ \E answer \in {"SUCCESS", "NO_META", "READ_ONLY"} :
              \/ f = "get_meta" /\ Finish(cmd_get_meta(json, cmd, answer))
              \/ f = "set_meta" /\ Finish(cmd_set_meta(json, cmd, answer))
        \/ f = "get_parent" /\ Finish(cmd_get_parent(json, cmd))
        \/ f = "get_children" /\ Finish(cmd_get_children(json, cmd))
        \/ f = "get_list" /\ Finish(cmd_get_list(json, cmd))
    BY <1>11, Zenon DEF process_command
  <2> HIDE DEF f
  <2>2. ASSUME NEW failed \in Failed,
              \/ f = "get_attr"      /\ Finish(cmd_get_attr(json, cmd, failed))
              \/ f = "get_attrs"     /\ Finish(cmd_get_attrs(json, cmd, failed))
              \/ f = "get_grp_attr"  /\ Finish(cmd_get_grp_attr(json, cmd, failed))
              \/ f = "get_grp_attrs" /\ Finish(cmd_get_grp_attrs(json, cmd, failed))
              \/ f = "set_attr"      /\ Finish(cmd_set_attr(json, cmd, failed))
              \/ f = "set_attrs"     /\ Finish(cmd_set_attrs(json, cmd, failed))
              \/ f = "set_grp_attr"  /\ Finish(cmd_set_grp_attr(json, cmd, failed))
              \/ f = "set_grp_attrs" /\ Finish(cmd_set_grp_attrs(json, cmd, failed))
        PROVE  Ends
    BY <1>5, <1>6, <1>7, <2>2, Zenon DEF f
  <2>3. ASSUME NEW answer \in {"SUCCESS", "NO_META", "READ_ONLY"},
              \/ f = "get_meta" /\ Finish(cmd_get_meta(json, cmd, answer))
              \/ f = "set_meta" /\ Finish(cmd_set_meta(json, cmd, answer))
        PROVE  Ends
    <3>1. answer \in Code
      BY <1>10
    <3>2. f \notin Gets \cup Sets
      BY <1>9, <2>3
    <3>3. /\ Answers(cmd, json, cmd_get_meta(json, cmd, answer))
          /\ Answers(cmd, json, cmd_set_meta(json, cmd, answer))
      BY <1>8, <3>1, <3>2, Zenon DEF f
    <3> QED BY <1>5, <2>3, <3>3, Zenon
  <2>4. ASSUME \/ f = "get_parent" /\ Finish(cmd_get_parent(json, cmd))
               \/ f = "get_children" /\ Finish(cmd_get_children(json, cmd))
               \/ f = "get_list" /\ Finish(cmd_get_list(json, cmd))
        PROVE  Ends
    <3>1. f \notin Gets \cup Sets
      BY <1>9, <2>4
    <3>2. /\ Answers(cmd, json, cmd_get_parent(json, cmd))
          /\ Answers(cmd, json, cmd_get_children(json, cmd))
          /\ Answers(cmd, json, cmd_get_list(json, cmd))
      BY <1>8, <3>1, Zenon DEF f
    <3> QED BY <1>5, <2>4, <3>2, Zenon
  <2>5. Ends
    BY <2>1, <2>2, <2>3, <2>4, Zenon
  <2> QED BY <1>4, <2>5
<1>12. CASE cmd_get_meta_at_index
  <2>1. CASE phase' = "crashed" /\ UNCHANGED <<dflt, cmd, json, docs, ctx, order, sent, done>>
    BY <2>1, StopStep
  <2>2. CASE \E answer \in {"SUCCESS", "BAD_INDEX"} : Finish(cmd_get_meta(json, cmd, answer))
    <3>1. PICK answer \in {"SUCCESS", "BAD_INDEX"} : Finish(cmd_get_meta(json, cmd, answer))
      BY <2>2
    <3>2. answer \in Code
      BY <1>10
    <3>3. Dispatch(cmd) = "get_meta_at_index"
      BY <1>12 DEF cmd_get_meta_at_index
    <3>4. Dispatch(cmd) \notin Gets \cup Sets
      BY <1>9, <3>3
    <3>5. Answers(cmd, json, cmd_get_meta(json, cmd, answer))
      BY <1>8, <3>2, <3>4, Zenon
    <3> QED BY <1>4, <1>5, <3>1, <3>5
  <2> QED BY <1>12, <2>1, <2>2, Zenon DEF cmd_get_meta_at_index
<1> QED BY <1>11, <1>12

LEMMA FailureCode == "FAILURE" \in Errors
BY DEF Errors

LEMMA InitStep ==
    ASSUME ReportInv, NEW ok \in BOOLEAN, api_init(ok)
    PROVE  ReportInv'
<1> DEFINE p == json_print(json, "FAILURE")
<1>1. /\ phase = "init" /\ json' = IF ok THEN json ELSE p
      /\ phase' = (IF ~ ok THEN "exit" ELSE IF cmd.type = "invalid" THEN "prompt" ELSE "command")
      /\ dflt' = dflt /\ cmd' = cmd /\ docs' = docs /\ order' = order /\ sent' = sent
  BY Zenon DEF api_init
<1>2. /\ order \in Orders /\ dflt \in [Letters -> Nat] /\ Formed(cmd) /\ Rest(json)
      /\ Told(docs, order, cmd, sent)
      /\ Single(cmd) /\ Typed(dflt, cmd) /\ (json.on => dflt["c"] > 0)
  BY <1>1 DEF ReportInv, Phased
<1>3. Rest(p) /\ p.on = json.on /\ (json.on => p.any)
  BY <1>2, FailureCode, PrintRest
<1> HIDE DEF p
<1>4. Rest(json')
  BY <1>1, <1>2, <1>3
<1>5. "invalid" \notin Commands /\ dflt["c"] \in Nat
  BY <1>2 DEF Commands, Letters
<1>6. cmd.type = "invalid" => dflt["c"] = 0 /\ ~ json.on
  BY <1>2, <1>5 DEF Typed
<1>7. cmd.type # "invalid" => cmd.type \in Commands
  BY <1>2 DEF Typed
<1>8. Phased'
  <2>1. CASE ~ ok
    BY <1>1, <1>3, <2>1 DEF Phased
  <2>2. CASE ok /\ cmd.type = "invalid"
    BY <1>1, <1>6, <2>2 DEF Phased
  <2>3. CASE ok /\ cmd.type # "invalid"
    BY <1>1, <1>2, <1>7, <2>3 DEF Phased
  <2> QED BY <2>1, <2>2, <2>3
<1> QED BY <1>1, <1>2, <1>4, <1>8 DEF ReportInv

\* A word that is no command is reported in a document of its own.
LEMMA WordStep ==
    ASSUME ReportInv, BadWord
    PROVE  ReportInv'
<1> DEFINE p == json_print(json, "FAILURE")
           f == json_flush_output(p, FALSE)
<1>1. /\ phase = "prompt" /\ phase' = phase /\ json' = f.json /\ docs' = f.docs
      /\ dflt' = dflt /\ cmd' = cmd /\ order' = order /\ sent' = sent
  BY Zenon DEF BadWord
<1>2. /\ order \in Orders /\ dflt \in [Letters -> Nat] /\ Formed(cmd) /\ Rest(json)
      /\ dflt["c"] = 0
  BY <1>1 DEF ReportInv, Phased
<1>3. Rest(p) /\ p.on = json.on /\ (json.on => p.any /\ p.ret # "SUCCESS")
  BY <1>2, FailureCode, PrintRest
<1> HIDE DEF p
<1>4. Good(p) /\ p.body = NoBody
  BY <1>3 DEF Rest
<1>5. IF p.on /\ p.any
      THEN f.docs = <<Document(p)>> /\ Rest(f.json) /\ f.json.on
      ELSE f.docs = <<>> /\ f.json = p
  BY <1>4, FlushIs
<1> HIDE DEF f
<1>6. CASE json.on
  <2>1. docs' = <<Document(p)>> /\ Rest(json')
    BY <1>1, <1>3, <1>5, <1>6
  <2>2. Explained(order, cmd, p.body)
    <3>1. NoBody.vals = <<>>
      BY DEF NoBody
    <3> QED BY <1>4, <3>1, NothingExplained
  <2>3. Told(<<Document(p)>>, order, cmd, sent)
    BY <1>3, <1>4, <1>6, <2>2, OneTold
  <2>4. Len(<<Document(p)>>) = 1
    OBVIOUS
  <2>5. Told(docs', order', cmd', sent')
    BY <1>1, <2>1, <2>3
  <2>6. Phased'
    BY <1>1, <1>2, <2>1, <2>4 DEF Phased
  <2> QED BY <1>1, <1>2, <2>1, <2>5, <2>6 DEF ReportInv
<1>7. CASE ~ json.on
  <2>1. docs' = <<>> /\ json' = p /\ ~ p.on
    BY <1>1, <1>3, <1>5, <1>7
  <2>2. Told(docs', order', cmd', sent')
    BY <2>1, NoneTold
  <2>3. Phased'
    BY <1>1, <1>2, <2>1 DEF Phased
  <2> QED BY <1>1, <1>2, <1>3, <2>1, <2>2, <2>3 DEF ReportInv
<1> QED BY <1>6, <1>7

LEMMA SlashStep ==
    ASSUME ReportInv, BadSlash
    PROVE  ReportInv'
<1> DEFINE p == json_print(json, "FAILURE")
<1>1. /\ phase = "prompt" /\ phase' = phase /\ json' = p /\ docs' = docs
      /\ dflt' = dflt /\ cmd' = cmd /\ order' = order /\ sent' = sent
  BY Zenon DEF BadSlash
<1>2. /\ order \in Orders /\ dflt \in [Letters -> Nat] /\ Formed(cmd) /\ Rest(json)
      /\ Told(docs, order, cmd, sent) /\ dflt["c"] = 0 /\ (json.on => Len(docs) = 1)
  BY <1>1 DEF ReportInv, Phased
<1>3. Rest(p) /\ p.on = json.on
  BY <1>2, FailureCode, PrintRest
<1> HIDE DEF p
<1>4. Phased'
  BY <1>1, <1>2, <1>3 DEF Phased
<1> QED BY <1>1, <1>2, <1>3, <1>4 DEF ReportInv

\* What is left of the output is shown at the end.
LEMMA ExitStep ==
    ASSUME ReportInv, NEW ok \in BOOLEAN, force_exit(ok)
    PROVE  ReportInv'
<1> DEFINE f == json_flush_output(json, FALSE)
           p == json_print(f.json, "FAILURE")
<1>1. /\ phase = "exit" /\ docs' = docs \o f.docs
      /\ json' = (IF ok \/ ~ ctx THEN f.json ELSE p)
      /\ phase' = (IF ok \/ ~ ctx THEN "exited" ELSE "exit")
      /\ dflt' = dflt /\ cmd' = cmd /\ order' = order /\ sent' = sent
  BY Zenon DEF force_exit
<1>2. /\ order \in Orders /\ dflt \in [Letters -> Nat] /\ Formed(cmd) /\ Rest(json)
      /\ Told(docs, order, cmd, sent) /\ (json.on => docs # <<>> \/ json.any)
  BY <1>1 DEF ReportInv, Phased
<1>3. IF json.on /\ json.any
      THEN f.docs = <<Document(json)>> /\ Rest(f.json) /\ f.json.on
      ELSE f.docs = <<>> /\ f.json = json
  <2>1. Good(json)
    BY <1>2 DEF Rest
  <2> QED BY <2>1, FlushIs
<1> HIDE DEF f
<1>4. Rest(f.json) /\ f.json.on = json.on
  BY <1>2, <1>3 DEF Rest, Good
<1>5. Rest(p) /\ p.on = json.on
  BY <1>4, FailureCode, PrintRest
<1> HIDE DEF p
<1>6. Rest(json') /\ json'.on = json.on
  BY <1>1, <1>4, <1>5
<1>7. Told(docs', order', cmd', sent') /\ (json.on => docs' # <<>>)
  <2>1. CASE json.on /\ json.any
    <3>1. json.ret # "SUCCESS"
      BY <1>2, <2>1 DEF Rest
    <3>2. docs' = docs \o <<Document(json)>>
      BY <1>1, <1>3, <2>1
    <3>3. Told(docs \o <<Document(json)>>, order, cmd, sent) /\ docs \o <<Document(json)>> # <<>>
      BY <1>2, <3>1, MoreTold
    <3> QED BY <1>1, <3>2, <3>3
  <2>2. CASE ~ (json.on /\ json.any)
    <3>1. PICK S : docs \in Seq(S)
      BY <1>2 DEF Told
    <3>2. docs \o <<>> = docs
      BY <3>1
    <3>3. docs' = docs
      BY <1>1, <1>3, <2>2, <3>2
    <3> QED BY <1>1, <1>2, <2>2, <3>3
  <2> QED BY <2>1, <2>2
<1>8. Phased'
  BY <1>1, <1>6, <1>7 DEF Phased
<1> QED BY <1>1, <1>2, <1>6, <1>7, <1>8 DEF ReportInv

LEMMA ReportStep == ReportInv /\ [Next]_vars => ReportInv'
<1> SUFFICES ASSUME ReportInv, [Next]_vars PROVE ReportInv'
  OBVIOUS
<1>1. CASE \E line \in Starts : Start(line)
  BY <1>1, StartStep
<1>2. CASE \E ok \in BOOLEAN : api_init(ok) \/ force_exit(ok)
  BY <1>2, InitStep, ExitStep
<1>3. CASE process_command \/ cmd_get_meta_at_index
  BY <1>3, CommandStep
<1>4. CASE \E line \in Lines : Do(line)
  BY <1>4, DoStep
<1>5. CASE BadWord
  BY <1>5, WordStep
<1>6. CASE BadSlash
  BY <1>6, SlashStep
<1>7. CASE Quit \/ EndOfInput \/ Crash
  BY <1>7, StopStep DEF Quit, EndOfInput, Crash
<1>8. CASE UNCHANGED vars
  <2>1. /\ phase' = phase /\ dflt' = dflt /\ cmd' = cmd /\ json' = json /\ docs' = docs
        /\ order' = order /\ sent' = sent
    BY <1>8 DEF vars
  <2>2. Phased'
    BY <2>1 DEF ReportInv, Phased
  <2> QED BY <2>1, <2>2 DEF ReportInv
<1> QED BY <1>1, <1>2, <1>3, <1>4, <1>5, <1>6, <1>7, <1>8, Zenon DEF Next

LEMMA ReportInductive == Spec => []ReportInv
BY ReportInit, ReportStep, PTL DEF Spec

\* The documents are a sequence.
LEMMA DocsAre ==
    ASSUME NEW ds, NEW heap, NEW opt, NEW set, Told(ds, heap, opt, set)
    PROVE  DOMAIN ds = 1..Len(ds)
<1>1. PICK S : ds \in Seq(S)
  BY DEF Told
<1> QED BY <1>1

\* In a session of any length every command is answered by one document, and
\* the return code in it is the first error of this command.
THEOREM ReportsAlwaysOwn == Spec => []CommandReports
<1>1. ReportInv => CommandReports
  <2> SUFFICES ASSUME ReportInv PROVE CommandReports
    OBVIOUS
  <2>1. Told(docs, order, cmd, sent)
    BY DEF ReportInv
  <2>2. DOMAIN docs = 1..Len(docs)
    BY <2>1, DocsAre
  <2>3. \A k \in DOMAIN docs : docs[k].ret = docs[k].first
    BY <2>1, <2>2 DEF Told
  <2>4. /\ phase = "prompt" /\ json.on => Len(docs) = 1
        /\ phase = "exited" /\ json.on => docs # <<>>
    BY DEF ReportInv, Phased
  <2> QED BY <2>3, <2>4 DEF CommandReports
<1> QED BY <1>1, ReportInductive, PTL

\* Success is reported only when every attribute of every object that was named
\* was gotten or set, whatever names, attributes and values the line has.
THEOREM SuccessAlwaysAll == Spec => []SuccessMeansAll
<1>1. ReportInv => SuccessMeansAll
  <2> SUFFICES ASSUME ReportInv, Answered PROVE SuccessMeansAll
    BY DEF SuccessMeansAll
  <2>1. Told(docs, order, cmd, sent)
    BY DEF ReportInv
  <2>2. Complete(cmd, docs[1].body, sent)
    BY <2>1 DEF Told, Answered
  <2> QED BY <2>2, Zenon DEF SuccessMeansAll, Complete, Gets, Sets
<1> QED BY <1>1, ReportInductive, PTL

\* A value is always at the place of its object and attribute, and a place
\* without one is named by the status.
THEOREM SlotsAlwaysExplained == Spec => []SlotsExplained
<1>1. ReportInv => SlotsExplained
  <2> SUFFICES ASSUME ReportInv PROVE SlotsExplained
    OBVIOUS
  <2>1. Told(docs, order, cmd, sent)
    BY DEF ReportInv
  <2>2. DOMAIN docs = 1..Len(docs)
    BY <2>1, DocsAre
  <2>3. \A d \in ToSet(docs) : Explained(order, cmd, d.body)
    BY <2>1, <2>2 DEF Told, ToSet
  <2> QED BY <2>3, Zenon DEF SlotsExplained, Explained
<1> QED BY <1>1, ReportInductive, PTL
===============================================================================
