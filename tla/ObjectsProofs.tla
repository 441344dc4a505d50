----------------------------- MODULE ObjectsProofs -----------------------------
(***************************************************************************)
(* The time windows of the RAPL domains, for any smallest window and any   *)
(* requests, and the outputs of gets with their status, for any objects,   *)
(* attributes and failures.                                                *)
(***************************************************************************)
EXTENDS Objects, FiniteSetTheorems, SequenceTheorems, TLAPS

\* The multiple of MinWindow nearest to t.
Nearest(r, t) ==
    /\ r \in Nat /\ r % MinWindow = 0 /\ MinWindow <= r /\ r <= 10 * MinWindow
    /\ 2 * (r - t) <= MinWindow /\ 2 * (t - r) <= MinWindow

\* The microseconds of t.
Truncated(f, t) == f \in Nat /\ pwr_usec_to_nsec(f) \in (t - USec + 1)..t

WindowInv ==
    /\ window \in [Domains -> Nat] /\ file \in [Domains -> Nat]
    /\ asked \in [Domains -> [window : Nat, file : Nat]]
    /\ \A o \in Domains : Nearest(window[o], asked[o].window) /\ Truncated(file[o], asked[o].file)
    /\ last.op = "power" =>
          /\ last.accesses[1].obj \in Domains
          /\ last.values[1] = window[last.accesses[1].obj] \div MinWindow

LEMMA Moduli ==
    /\ MinWindow \in Nat /\ MinWindow > 0 /\ TimeMod \in Nat /\ 10 * MinWindow < TimeMod
    /\ USec \in Nat /\ USec > 0 /\ EnergyMod \in Nat /\ EnergyMod > 0
    /\ Requests \subseteq 0..(TimeMod - 1)
BY ObjectsAssumption

LEMMA DivBounds ==
    ASSUME NEW m \in Nat, m > 0, NEW t \in Nat
    PROVE  /\ t \div m \in Nat /\ (t \div m) * m <= t /\ t < (t \div m) * m + m
           /\ (t \div m) * m \in Nat
OBVIOUS

LEMMA Multiple ==
    ASSUME NEW m \in Nat, m > 0, NEW q \in Nat
    PROVE  (q * m) % m = 0
OBVIOUS

LEMMA AtMostOnce ==
    ASSUME NEW m \in Nat, m > 0, NEW t \in 0..(2 * m - 1)
    PROVE  t % m = IF t < m THEN t ELSE t - m
OBVIOUS

\* A request that is accepted is rounded to the nearest window; one whose sum
\* with half a window rolls over is refused.
LEMMA RoundIsNearest ==
    ASSUME NEW t \in 0..(TimeMod - 1), MinWindow <= RoundWindow(t), RoundWindow(t) <= 10 * MinWindow
    PROVE  Nearest(RoundWindow(t), t)
<1> DEFINE h == MinWindow \div 2
           s == (t + h) % TimeMod
           q == s \div MinWindow
<1>1. MinWindow \in Nat /\ MinWindow > 0 /\ TimeMod \in Nat /\ 10 * MinWindow < TimeMod
  BY Moduli
<1>2. h \in Nat /\ 2 * h <= MinWindow /\ MinWindow <= 2 * h + 1
  BY <1>1
<1>3. RoundWindow(t) = q * MinWindow
  BY DEF RoundWindow
<1> HIDE DEF h
<1>4. t \in Nat /\ t < TimeMod /\ t + h \in 0..(2 * TimeMod - 1)
  BY <1>1, <1>2
<1>5. s = IF t + h < TimeMod THEN t + h ELSE t + h - TimeMod
  <2> DEFINE z == t + h
  <2>1. TimeMod > 0 /\ z \in 0..(2 * TimeMod - 1)
    BY <1>1, <1>4
  <2> HIDE DEF z
  <2>2. z % TimeMod = IF z < TimeMod THEN z ELSE z - TimeMod
    BY <1>1, <2>1, AtMostOnce
  <2> QED BY <1>1, <1>2, <1>4, <2>2 DEF z
<1> HIDE DEF s
<1>6. s \in Nat
  BY <1>1, <1>2, <1>4, <1>5
<1>7. q \in Nat /\ q * MinWindow <= s /\ s < q * MinWindow + MinWindow /\ q * MinWindow \in Nat
  BY <1>1, <1>6, DivBounds
<1>8. (q * MinWindow) % MinWindow = 0
  BY <1>1, <1>7, Multiple
<1> HIDE DEF q
<1> DEFINE r == q * MinWindow
<1>9. r \in Nat /\ r <= s /\ s < r + MinWindow /\ MinWindow <= r /\ r <= 10 * MinWindow
  BY <1>3, <1>7
<1> HIDE DEF r
<1>10. s = t + h
  BY <1>1, <1>2, <1>4, <1>5, <1>9
<1>11. 2 * (r - t) <= MinWindow /\ 2 * (t - r) <= MinWindow
  BY <1>1, <1>2, <1>4, <1>9, <1>10
<1>12. r = RoundWindow(t) /\ r % MinWindow = 0
  BY <1>3, <1>8 DEF r
<1> QED BY <1>9, <1>11, <1>12 DEF Nearest

LEMMA FileTruncates ==
    ASSUME NEW t \in Nat
    PROVE  Truncated(pwr_nsec_to_usec(t), t)
<1>1. /\ t \div USec \in Nat /\ (t \div USec) * USec <= t /\ t < (t \div USec) * USec + USec
      /\ (t \div USec) * USec \in Nat
  BY Moduli, DivBounds
<1> DEFINE f == (t \div USec) * USec
<1>2. f \in Nat /\ f <= t /\ t < f + USec
  BY <1>1
<1> HIDE DEF f
<1>3. f \in (t - USec + 1)..t
  BY <1>2, Moduli
<1> QED BY <1>1, <1>3 DEF Truncated, pwr_nsec_to_usec, pwr_usec_to_nsec, f

\* The energy between two readings is what was used in between, if that is less
\* than what the counter holds.
LEMMA EnergyIsUsed ==
    ASSUME NEW e \in 0..(EnergyMod - 1), NEW used \in Nat, used < EnergyMod
    PROVE  EnergyUsed(e, (e + used) % EnergyMod) = used
<1>1. EnergyMod \in Nat /\ EnergyMod > 0 /\ e + used \in 0..(2 * EnergyMod - 1)
  BY Moduli
<1>2. (e + used) % EnergyMod = IF e + used < EnergyMod THEN e + used ELSE e + used - EnergyMod
  BY <1>1, AtMostOnce
<1> QED BY <1>1, <1>2 DEF EnergyUsed

LEMMA WindowInit == Init => WindowInv
<1> SUFFICES ASSUME Init PROVE WindowInv
  OBVIOUS
<1>1. /\ window = [o \in Domains |-> MinWindow] /\ file = [o \in Domains |-> 0]
      /\ asked = [o \in Domains |-> [window |-> MinWindow, file |-> 0]] /\ last = NoCall
  BY DEF Init
<1>2. Nearest(MinWindow, MinWindow)
  <2>1. MinWindow = 1 * MinWindow /\ (1 * MinWindow) % MinWindow = 0
    BY Moduli, Multiple
  <2> QED BY <2>1, Moduli DEF Nearest
<1>3. Truncated(0, 0)
  BY Moduli DEF Truncated, pwr_usec_to_nsec
<1>4. last.op # "power"
  BY <1>1 DEF NoCall
<1> QED BY <1>1, <1>2, <1>3, <1>4, Moduli DEF WindowInv

\* The calls that leave the windows alone.
LEMMA WindowKept ==
    ASSUME WindowInv, UNCHANGED metaVars,
           last'.op # "power" \/ last' = last
    PROVE  WindowInv'
BY DEF WindowInv, metaVars

LEMMA WindowStep == WindowInv /\ [Next]_vars => WindowInv'
<1> SUFFICES ASSUME WindowInv, [Next]_vars PROVE WindowInv'
  OBVIOUS
<1>1. ASSUME NEW accesses, Gets(accesses) PROVE WindowInv'
  <2>1. UNCHANGED metaVars /\ last'.op = "gets"
    BY <1>1 DEF Gets, Done
  <2> QED BY <2>1, WindowKept
<1>2. ASSUME NEW accesses, NEW values, Sets(accesses, values) PROVE WindowInv'
  <2>0. \E rets, failed : Done("sets", accesses, rets, values, failed) /\ metaVars' = metaVars
    BY <1>2, Zenon DEF Sets
  <2>1. UNCHANGED metaVars /\ last'.op = "sets"
    BY <2>0 DEF Done
  <2> QED BY <2>1, WindowKept
<1>3. CASE CallObj
  BY <1>1, <1>2, <1>3 DEF CallObj
<1>4. CASE CallGrp
  BY <1>1, <1>2, <1>4 DEF CallGrp
<1>5. CASE StatusPopError
  BY <1>5, WindowKept DEF StatusPopError
<1>6. CASE UseResults
  BY <1>6, WindowKept DEF UseResults, NoCall
<1>7. ASSUME NEW o \in Domains, NEW t \in Requests, SetWindow(o, t) PROVE WindowInv'
  <2> DEFINE r == RoundWindow(t)
  <2>1. t \in 0..(TimeMod - 1) /\ t \in Nat
    BY Moduli
  <2>2. CASE MinWindow <= r /\ r <= 10 * MinWindow
    <3>1. Nearest(r, t)
      BY <2>1, <2>2, RoundIsNearest
    <3>2. /\ window' = [window EXCEPT ![o] = r] /\ asked' = [asked EXCEPT ![o].window = t]
          /\ file' = file /\ last'.op = "window"
      BY <1>7, <2>2 DEF SetWindow, Done
    <3>3. r \in Nat
      BY <3>1 DEF Nearest
    <3> HIDE DEF r
    <3>4. window' \in [Domains -> Nat] /\ asked' \in [Domains -> [window : Nat, file : Nat]]
      BY <2>1, <3>2, <3>3 DEF WindowInv
    <3>5. ASSUME NEW d \in Domains
          PROVE  Nearest(window'[d], asked'[d].window) /\ Truncated(file'[d], asked'[d].file)
      <4>1. CASE d = o
        BY <3>1, <3>2, <4>1 DEF WindowInv
      <4>2. CASE d # o
        BY <3>2, <4>2 DEF WindowInv
      <4> QED BY <4>1, <4>2
    <3> QED BY <3>2, <3>4, <3>5 DEF WindowInv
  <2>3. CASE ~ (MinWindow <= r /\ r <= 10 * MinWindow)
    <3>1. UNCHANGED metaVars /\ last'.op = "window"
      BY <1>7, <2>3 DEF SetWindow, Done, metaVars
    <3> QED BY <3>1, WindowKept
  <2> QED BY <2>2, <2>3
<1>8. ASSUME NEW o \in Domains, NEW t \in Requests, SetLimitWindow(o, t) PROVE WindowInv'
  <2>1. t \in Nat
    BY Moduli
  <2>2. PICK ret \in Errors \cup {"SUCCESS"} :
          /\ IF ret = "SUCCESS"
             THEN /\ file' = [file EXCEPT ![o] = pwr_nsec_to_usec(t)]
                  /\ asked' = [asked EXCEPT ![o].file = t]
             ELSE UNCHANGED <<file, asked>>
          /\ last'.op = "limitwindow" /\ window' = window
    BY <1>8 DEF SetLimitWindow, Done
  <2>3. CASE ret = "SUCCESS"
    <3> DEFINE f == pwr_nsec_to_usec(t)
    <3>1. Truncated(f, t) /\ f \in Nat
      BY <2>1, FileTruncates DEF Truncated
    <3>2. file' = [file EXCEPT ![o] = f] /\ asked' = [asked EXCEPT ![o].file = t]
      BY <2>2, <2>3
    <3> HIDE DEF f
    <3>3. file' \in [Domains -> Nat] /\ asked' \in [Domains -> [window : Nat, file : Nat]]
      BY <2>1, <3>1, <3>2 DEF WindowInv
    <3>4. ASSUME NEW d \in Domains
          PROVE  Nearest(window'[d], asked'[d].window) /\ Truncated(file'[d], asked'[d].file)
      <4>1. CASE d = o
        BY <2>2, <3>1, <3>2, <4>1 DEF WindowInv
      <4>2. CASE d # o
        BY <2>2, <3>2, <4>2 DEF WindowInv
      <4> QED BY <4>1, <4>2
    <3> QED BY <2>2, <3>3, <3>4 DEF WindowInv
  <2>4. CASE ret # "SUCCESS"
    BY <2>2, <2>4, WindowKept DEF metaVars
  <2> QED BY <2>3, <2>4
<1>9. ASSUME NEW o, NEW a, NEW m, SetOtherMeta(o, a, m) PROVE WindowInv'
  <2>1. UNCHANGED metaVars /\ last'.op = "setmeta"
    BY <1>9 DEF SetOtherMeta, Done
  <2> QED BY <2>1, WindowKept
<1>10. ASSUME NEW o \in Domains, x86_get_power(o) PROVE WindowInv'
  <2> DEFINE used == window[o] \div MinWindow
  <2>1. PICK e \in 0..(EnergyMod - 1) :
          /\ used < EnergyMod
          /\ last' = [op |-> "power", accesses |-> <<Access(o, "POWER", 0, 1)>>,
                      rets |-> <<"SUCCESS">>,
                      values |-> <<EnergyUsed(e, (e + used) % EnergyMod)>>,
                      failed |-> <<>>, ret |-> Overall(<<"SUCCESS">>)]
          /\ UNCHANGED metaVars
    BY <1>10 DEF x86_get_power, Done
  <2>2. used \in Nat
    BY Moduli, DivBounds DEF WindowInv
  <2>3. window' = window /\ file' = file /\ asked' = asked
    BY <2>1 DEF metaVars
  <2> HIDE DEF used
  <2>4. last'.values[1] = used /\ last'.accesses[1].obj = o
    BY <2>1, <2>2, EnergyIsUsed DEF Access
  <2>5. used = window'[o] \div MinWindow
    BY <2>3 DEF used
  <2> QED BY <2>3, <2>4, <2>5 DEF WindowInv
<1>11. CASE UNCHANGED vars
  BY <1>11, WindowKept DEF vars, metaVars
<1> QED BY <1>3, <1>4, <1>5, <1>6, <1>7, <1>8, <1>9, <1>10, <1>11 DEF Next

\* The window of a power reading is the multiple of pm_counters_time_window
\* nearest to the last request that x86_socket_power_set_meta or
\* x86_mem_power_set_meta accepted, x86_get_power reports the energy consumed in
\* it although the counter rolls over, and the window of a limit reads back to
\* the microsecond: for any smallest window, modulus and requests.
THEOREM PowerAlwaysInWindow == Spec => []PowerWindow
<1>1. WindowInv => PowerWindow
  <2> SUFFICES ASSUME WindowInv PROVE PowerWindow
    OBVIOUS
  <2>1. ASSUME NEW o \in Domains
        PROVE  /\ window[o] % MinWindow = 0 /\ MinWindow <= window[o]
               /\ window[o] <= 10 * MinWindow
               /\ 2 * (window[o] - asked[o].window) <= MinWindow
               /\ 2 * (asked[o].window - window[o]) <= MinWindow
               /\ pwr_usec_to_nsec(file[o]) \in (asked[o].file - USec + 1)..asked[o].file
    BY DEF WindowInv, Nearest, Truncated
  <2> QED BY <2>1, Zenon DEF WindowInv, PowerWindow
<1> QED BY <1>1, WindowInit, WindowStep, PTL DEF Spec

-----------------------------------------------------------------------------
(* The status object of a get of several values.                           *)

\* The place of k among the elements of F.
Rank(F, k) == Cardinality({j \in F : j <= k})

\* A set with n elements has an e-th smallest for each e up to n, and each of
\* its elements is the e-th smallest for one e.
LEMMA NthIs ==
    ASSUME NEW n \in Nat, NEW F \in SUBSET (1..n)
    PROVE  /\ Cardinality(F) \in Nat
           /\ \A e \in 1..Cardinality(F) : Nth(F, e) \in F /\ Rank(F, Nth(F, e)) = e
           /\ \A k \in F : Rank(F, k) \in 1..Cardinality(F) /\ Nth(F, Rank(F, k)) = k
<1> DEFINE c == Cardinality(F)
           Upto(k) == {j \in F : j <= k}
           rank == [k \in F |-> Rank(F, k)]
<1>1. IsFiniteSet(F) /\ c \in Nat
  <2>1. IsFiniteSet(1..n)
    BY FS_Interval
  <2> QED BY <2>1, FS_Subset, FS_CardinalityType
<1>2. F \subseteq Nat
  OBVIOUS
<1>3. ASSUME NEW k \in F
      PROVE  IsFiniteSet(Upto(k)) /\ Rank(F, k) \in 1..c
  <2>1. Upto(k) \in SUBSET F /\ k \in Upto(k)
    BY <1>2
  <2>2. IsFiniteSet(Upto(k)) /\ Cardinality(Upto(k)) <= c /\ Cardinality(Upto(k)) \in Nat
    BY <1>1, <2>1, FS_Subset, FS_CardinalityType
  <2>3. Cardinality(Upto(k)) # 0
    BY <2>1, <2>2, FS_EmptySet
  <2> QED BY <2>2, <2>3, <1>1 DEF Rank
<1>4. ASSUME NEW j \in F, NEW k \in F, j < k
      PROVE  Rank(F, j) # Rank(F, k)
  <2>0. j \in Nat /\ k \in Nat
    BY <1>2
  <2>1. Upto(j) \in SUBSET Upto(k) /\ k \in Upto(k) /\ k \notin Upto(j)
    <3>1. \A i \in F : i \in Nat /\ (i <= j => i <= k)
      BY <1>2, <1>4, <2>0
    <3>2. k <= k /\ ~ (k <= j)
      BY <1>4, <2>0
    <3> QED BY <3>1, <3>2
  <2>2. Upto(j) # Upto(k)
    BY <2>1
  <2>3. Cardinality(Upto(k)) # Cardinality(Upto(j))
    BY <1>3, <2>1, <2>2, FS_Subset
  <2> QED BY <2>3 DEF Rank
<1>5. ASSUME NEW j \in F, NEW k \in F, Rank(F, j) = Rank(F, k)
      PROVE  j = k
  BY <1>2, <1>4, <1>5
<1>6. rank \in Injection(F, 1..c)
  <2>1. rank \in [F -> 1..c]
    BY <1>3
  <2>2. \A a, b \in F : rank[a] = rank[b] => a = b
    BY <1>5
  <2> QED BY <2>1, <2>2 DEF Injection, IsInjective
<1>7. rank \in Surjection(F, 1..c)
  <2>1. IsFiniteSet(1..c) /\ Cardinality(1..c) = c
    BY <1>1, FS_Interval
  <2> QED BY <1>6, <2>1, FS_Injection
<1>8. ASSUME NEW e \in 1..c
      PROVE  Nth(F, e) \in F /\ Rank(F, Nth(F, e)) = e
  <2>1. \E k \in F : Rank(F, k) = e
    BY <1>7 DEF Surjection
  <2> QED BY <2>1 DEF Nth, Rank
<1>9. ASSUME NEW k \in F
      PROVE  Rank(F, k) \in 1..c /\ Nth(F, Rank(F, k)) = k
  BY <1>3, <1>5, <1>8
<1> QED BY <1>1, <1>8, <1>9

\* The accesses of a get are reported with their position.
Indexed(accesses) ==
    \E n \in Nat : DOMAIN accesses = 1..n /\ \A k \in 1..n : accesses[k].index = k - 1

Failing(accesses, rets) == {k \in DOMAIN accesses : rets[k] # "SUCCESS"}

\* The status s has an error for each of the accesses F that fail, in order.
Names(s, F, accesses) ==
    /\ DOMAIN s = 1..Cardinality(F)
    /\ \A e \in 1..Cardinality(F) :
          /\ s[e].obj = accesses[Nth(F, e)].obj
          /\ s[e].name = accesses[Nth(F, e)].attr
          /\ s[e].index = accesses[Nth(F, e)].index

LEMMA IsSeq ==
    ASSUME NEW m \in Nat, NEW S, NEW f \in [1..m -> S]
    PROVE  f \in Seq(S)
OBVIOUS

LEMMA ErrorsNamed ==
    ASSUME NEW accesses, NEW n \in Nat, DOMAIN accesses = 1..n, NEW rets
    PROVE  Names(<<>> \o push_status_errors(accesses, rets), Failing(accesses, rets), accesses)
<1> DEFINE F == {k \in DOMAIN accesses : rets[k] # "SUCCESS"}
           Entry(k) == [obj |-> accesses[k].obj, name |-> accesses[k].attr,
                        index |-> accesses[k].index, error |-> rets[k]]
           p == [e \in 1..Cardinality(F) |-> Entry(Nth(F, e))]
<1>1. F \in SUBSET (1..n) /\ Cardinality(F) \in Nat
  BY NthIs
<1>2. push_status_errors(accesses, rets) = p
  <2> DEFINE all == [k \in DOMAIN accesses |-> Entry(k)]
  <2>1. push_status_errors(accesses, rets) = [e \in 1..Cardinality(F) |-> all[Nth(F, e)]]
    BY DEF push_status_errors, Picked
  <2>2. \A e \in 1..Cardinality(F) : all[Nth(F, e)] = Entry(Nth(F, e))
    BY NthIs
  <2> HIDE DEF all, Entry, F
  <2> QED BY <2>1, <2>2
<1>3. p \in Seq({Entry(Nth(F, e)) : e \in 1..Cardinality(F)})
  <2> DEFINE S == {Entry(Nth(F, e)) : e \in 1..Cardinality(F)}
  <2>1. p \in [1..Cardinality(F) -> S]
    OBVIOUS
  <2> HIDE DEF p, S
  <2> QED BY <1>1, <2>1, IsSeq DEF S
<1>4. <<>> \o p = p
  BY <1>3, ConcatEmptySeq
<1>5. /\ DOMAIN p = 1..Cardinality(F)
      /\ \A e \in 1..Cardinality(F) :
            /\ p[e].obj = accesses[Nth(F, e)].obj
            /\ p[e].name = accesses[Nth(F, e)].attr
            /\ p[e].index = accesses[Nth(F, e)].index
  OBVIOUS
<1>6. Names(p, F, accesses)
  BY <1>5 DEF Names
<1> HIDE DEF p
<1> QED BY <1>2, <1>4, <1>6 DEF Failing

\* A single get fills its slot, or fails; a failure leaves the slot empty or 0.
LEMMA GetFills ==
    ASSUME NEW o, NEW a, NEW f
    PROVE  LET r == ObjAttrGetValue(o, a, f)
           IN  IF r.ret = "SUCCESS" THEN r.out = <<ValueOf(val, o, a)>> ELSE r.out \in {<<>>, <<0>>}
BY DEF ObjAttrGetValue

LEMMA GetsReported ==
    ASSUME NEW accesses, Indexed(accesses), Gets(accesses)
    PROVE  OutputOrError'
<1>1. PICK n \in Nat : DOMAIN accesses = 1..n /\ \A k \in 1..n : accesses[k].index = k - 1
  BY DEF Indexed
<1>2. PICK failed :
        LET res  == [k \in DOMAIN accesses |->
                       ObjAttrGetValue(accesses[k].obj, accesses[k].attr,
                                       IF k \in DOMAIN failed THEN failed[k] ELSE "readable")]
            rets == [k \in DOMAIN accesses |-> res[k].ret]
        IN  /\ Report(accesses, rets)
            /\ out' = [k \in DOMAIN accesses |-> res[k].out]
            /\ Done("gets", accesses, rets, <<>>, <<>>)
            /\ UNCHANGED <<prog, raw, val, metaVars>>
  BY Zenon DEF Gets
<1> DEFINE How(k) == IF k \in DOMAIN failed THEN failed[k] ELSE "readable"
           Res(k) == ObjAttrGetValue(accesses[k].obj, accesses[k].attr, How(k))
           rets == [k \in DOMAIN accesses |-> Res(k).ret]
           F == {k \in DOMAIN accesses : rets[k] # "SUCCESS"}
<1>3. /\ status' = <<>> \o push_status_errors(accesses, rets)
      /\ out' = [k \in DOMAIN accesses |-> Res(k).out]
      /\ last'.accesses = accesses /\ last'.ret = Overall(rets) /\ val' = val
  BY <1>2 DEF Report, Done, clear_status
<1>4. ASSUME NEW k \in 1..n
      PROVE  IF k \in F THEN out'[k] \in {<<>>, <<0>>}
             ELSE out'[k] = <<ValueOf(val, accesses[k].obj, accesses[k].attr)>>
  <2>1. rets[k] = Res(k).ret /\ out'[k] = Res(k).out
    BY <1>1, <1>3
  <2>2. IF Res(k).ret = "SUCCESS"
        THEN Res(k).out = <<ValueOf(val, accesses[k].obj, accesses[k].attr)>>
        ELSE Res(k).out \in {<<>>, <<0>>}
    BY GetFills
  <2> QED BY <1>1, <2>1, <2>2
<1>5. DOMAIN out' = 1..n /\ DOMAIN rets = 1..n
  BY <1>1, <1>3
<1>6. F \in SUBSET (1..n) /\ Names(status', F, accesses)
  <2>1. F = Failing(accesses, rets)
    BY DEF Failing
  <2>2. Names(status', Failing(accesses, rets), accesses)
    <3> HIDE DEF rets
    <3> QED BY <1>1, <1>3, ErrorsNamed
  <2> QED BY <1>1, <2>1, <2>2
<1>7. /\ Cardinality(F) \in Nat
      /\ \A e \in 1..Cardinality(F) : Nth(F, e) \in F /\ Rank(F, Nth(F, e)) = e
      /\ \A k \in F : Rank(F, k) \in 1..Cardinality(F) /\ Nth(F, Rank(F, k)) = k
  BY <1>6, NthIs
<1>8. (last'.ret = "SUCCESS") <=> (F = {})
  BY <1>3, <1>5, <1>1 DEF Overall, ToSet
<1> HIDE DEF F, rets
<1>9. (status' = <<>>) <=> (F = {})
  <2>1. Cardinality(F) = 0 <=> F = {}
    BY <1>7, FS_EmptySet
  <2>2. DOMAIN status' = 1..Cardinality(F)
    BY <1>6 DEF Names
  <2>3. status' = <<>> => Cardinality(F) = 0
    BY <1>7, <2>2
  <2>4. Cardinality(F) = 0 => status' = <<>>
    BY <2>2, <1>3 DEF push_status_errors
  <2> QED BY <2>1, <2>3, <2>4
<1>10. ASSUME NEW k \in 1..n
       PROVE  LET at == {e \in DOMAIN status' : status'[e].index = k - 1} IN
              IF at # {}
              THEN /\ Cardinality(at) = 1 /\ out'[k] \in {<<>>, <<0>>}
                   /\ \A e \in at : /\ status'[e].obj = accesses[k].obj
                                    /\ status'[e].name = accesses[k].attr
              ELSE out'[k] = <<ValueOf(val, accesses[k].obj, accesses[k].attr)>>
  <2> DEFINE at == {e \in DOMAIN status' : status'[e].index = k - 1}
  <2>1. ASSUME NEW e \in DOMAIN status'
        PROVE  status'[e].index = Nth(F, e) - 1 /\ Nth(F, e) \in 1..n
    <3>1. e \in 1..Cardinality(F)
      BY <1>6 DEF Names
    <3>2. Nth(F, e) \in 1..n
      BY <1>6, <1>7, <3>1
    <3> QED BY <1>1, <1>6, <3>1, <3>2 DEF Names
  <2>2. at = {e \in 1..Cardinality(F) : Nth(F, e) = k}
    <3>1. DOMAIN status' = 1..Cardinality(F)
      BY <1>6 DEF Names
    <3>2. ASSUME NEW e \in 1..Cardinality(F)
          PROVE  status'[e].index = k - 1 <=> Nth(F, e) = k
      <4>1. status'[e].index = Nth(F, e) - 1 /\ Nth(F, e) \in Int
        BY <2>1, <3>1
      <4> QED BY <4>1
    <3> QED BY <3>1, <3>2
  <2>3. CASE k \in F
    <3>1. at = {Rank(F, k)}
      BY <1>7, <2>2, <2>3
    <3>2. Cardinality(at) = 1
      BY <3>1, FS_Singleton
    <3>3. Rank(F, k) \in 1..Cardinality(F) /\ Nth(F, Rank(F, k)) = k
      BY <1>7, <2>3
    <3>4. \A e \in at : status'[e].obj = accesses[k].obj /\ status'[e].name = accesses[k].attr
      BY <1>6, <3>1, <3>3 DEF Names
    <3> QED BY <1>4, <2>3, <3>1, <3>2, <3>4
  <2>4. CASE k \notin F
    <3>1. at = {}
      BY <1>7, <2>2, <2>4
    <3> QED BY <1>4, <2>4, <3>1
  <2> QED BY <2>3, <2>4
<1>11. (last'.ret = "SUCCESS") <=> (status' = <<>>)
  BY <1>8, <1>9
<1>12. ASSUME NEW k \in DOMAIN out'
       PROVE  LET at == {e \in DOMAIN status' : status'[e].index = k - 1} IN
              IF at # {}
              THEN /\ Cardinality(at) = 1 /\ out'[k] \in {<<>>, <<0>>}
                   /\ \A e \in at : /\ status'[e].obj = last'.accesses[k].obj
                                    /\ status'[e].name = last'.accesses[k].attr
              ELSE out'[k] = <<ValueOf(val', last'.accesses[k].obj, last'.accesses[k].attr)>>
  <2>1. k \in 1..n
    BY <1>5
  <2>2. last'.accesses = accesses /\ val' = val
    BY <1>3
  <2> QED BY ONLY <1>10, <2>1, <2>2, Zenon
<1> QED BY ONLY <1>11, <1>12, Zenon DEF OutputOrError

LEMMA DivMod ==
    ASSUME NEW m \in Nat, m > 0, NEW x \in Nat
    PROVE  ((x \div m) * m) + (x % m) = x
OBVIOUS

LEMMA NoneOfNone ==
    ASSUME NEW m \in Nat
    PROVE  m * 0 = 0
OBVIOUS

LEMMA PairsIndexed ==
    ASSUME NEW objs \in Seq(Objs), NEW attrs \in Seq(supported_attr)
    PROVE  Indexed(GrpAttrGetValues(objs, attrs))
<1> DEFINE m == Len(attrs)
           n == Len(objs) * m
           At(k) == Access(objs[((k - 1) \div m) + 1], attrs[((k - 1) % m) + 1],
                           (((k - 1) \div m) * m) + ((k - 1) % m), ((k - 1) % m) + 1)
<1>1. m \in Nat /\ Len(objs) \in Nat
  OBVIOUS
<1>2. n \in Nat
  BY <1>1
<1>3. GrpAttrGetValues(objs, attrs) = [k \in 1..n |-> At(k)]
  BY Zenon DEF GrpAttrGetValues, Pairs
<1>4. ASSUME NEW k \in 1..n
      PROVE  At(k).index = k - 1
  <2>1. m > 0
    <3>1. n # 0
      BY <1>2
    <3>2. m = 0 => n = 0
      BY <1>1, NoneOfNone
    <3> QED BY <1>1, <3>1, <3>2
  <2>2. k - 1 \in Nat
    BY <1>2
  <2>3. (((k - 1) \div m) * m) + ((k - 1) % m) = k - 1
    <3> HIDE DEF m, n
    <3> QED BY <1>1, <2>1, <2>2, DivMod
  <2>4. At(k).index = (((k - 1) \div m) * m) + ((k - 1) % m)
    BY DEF Access
  <2> QED BY <2>3, <2>4
<1> HIDE DEF n, At
<1> QED BY <1>2, <1>3, <1>4 DEF Indexed

LEMMA ListIndexed ==
    ASSUME NEW S, NEW s \in Seq(S), NEW x
    PROVE  /\ Indexed(ObjAttrGetValues(x, s))
           /\ Indexed(GrpAttrGetValue(s, x))
<1>1. Len(s) \in Nat /\ DOMAIN s = 1..Len(s)
  OBVIOUS
<1>2. /\ DOMAIN ObjAttrGetValues(x, s) = 1..Len(s)
      /\ \A k \in 1..Len(s) : ObjAttrGetValues(x, s)[k].index = k - 1
  BY <1>1 DEF ObjAttrGetValues, Access
<1>3. /\ DOMAIN GrpAttrGetValue(s, x) = 1..Len(s)
      /\ \A k \in 1..Len(s) : GrpAttrGetValue(s, x)[k].index = k - 1
  BY <1>1 DEF GrpAttrGetValue, Access
<1> QED BY <1>1, <1>2, <1>3 DEF Indexed

OutputInv == prog \in Programs /\ OutputOrError

LEMMA OutputStep == OutputInv /\ [Next]_vars => OutputInv'
<1> SUFFICES ASSUME OutputInv, [Next]_vars PROVE OutputInv'
  OBVIOUS
<1>1. /\ prog.attrs \subseteq Seq(supported_attr) /\ prog.groups \subseteq Seq(Objs)
  BY ObjectsAssumption DEF OutputInv
<1>2. ASSUME NEW accesses, Indexed(accesses), Gets(accesses) PROVE OutputInv'
  <2>1. prog' = prog
    BY <1>2, Zenon DEF Gets
  <2> QED BY <1>2, <2>1, GetsReported DEF OutputInv
<1>3. ASSUME prog' = prog, last'.op # "gets" PROVE OutputInv'
  BY <1>3 DEF OutputInv, OutputOrError
<1>4. ASSUME NEW accesses, NEW values, Sets(accesses, values) PROVE OutputInv'
  <2>1. \E rets, failed : Done("sets", accesses, rets, values, failed) /\ prog' = prog
    BY <1>4, Zenon DEF Sets
  <2> QED BY <1>3, <2>1 DEF Done
<1>5. CASE CallObj
  <2>1. PICK o \in prog.objs, attrs \in prog.attrs :
          \/ Gets(ObjAttrGetValues(o, attrs))
          \/ \E vs \in [DOMAIN attrs -> Values] : Sets(ObjAttrSetValues(o, attrs), vs)
    BY <1>5, Zenon DEF CallObj, AttrLists
  <2>2. Indexed(ObjAttrGetValues(o, attrs))
    BY <1>1, ListIndexed
  <2> QED BY <1>2, <1>4, <2>1, <2>2
<1>6. CASE CallGrp
  <2>1. PICK objs \in prog.groups, attrs \in prog.attrs :
          \/ Gets(GrpAttrGetValue(objs, attrs[1])) \/ Gets(GrpAttrGetValues(objs, attrs))
          \/ \E v \in Values : Sets(GrpAttrSetValue(objs, attrs[1]), <<v>>)
          \/ \E vs \in [DOMAIN attrs -> Values] : Sets(GrpAttrSetValues(objs, attrs), vs)
    BY <1>6, Zenon DEF CallGrp, AttrLists
  <2>2. Indexed(GrpAttrGetValue(objs, attrs[1])) /\ Indexed(GrpAttrGetValues(objs, attrs))
    BY <1>1, ListIndexed, PairsIndexed
  <2> QED BY <1>2, <1>4, <2>1, <2>2
<1>7. CASE StatusPopError
  BY <1>3, <1>7 DEF StatusPopError
<1>8. CASE UseResults
  BY <1>3, <1>8 DEF UseResults, NoCall
<1>9. ASSUME NEW o, NEW t, SetWindow(o, t) \/ SetLimitWindow(o, t) PROVE OutputInv'
  <2>1. CASE SetWindow(o, t)
    BY <1>3, <2>1 DEF SetWindow, Done
  <2>2. CASE SetLimitWindow(o, t)
    BY <1>3, <2>2 DEF SetLimitWindow, Done
  <2> QED BY <1>9, <2>1, <2>2
<1>10. ASSUME NEW o, NEW a, NEW m, SetOtherMeta(o, a, m) PROVE OutputInv'
  BY <1>3, <1>10 DEF SetOtherMeta, Done
<1>11. ASSUME NEW o, x86_get_power(o) PROVE OutputInv'
  BY <1>3, <1>11 DEF x86_get_power, Done
<1>12. CASE UNCHANGED vars
  BY <1>12 DEF OutputInv, OutputOrError, vars
<1> QED BY <1>5, <1>6, <1>7, <1>8, <1>9, <1>10, <1>11, <1>12, Zenon DEF Next

\* After a get of several values (PWR_ObjAttrGetValues, PWR_GrpAttrGetValue,
\* PWR_GrpAttrGetValues) each slot of the output holds the value of its
\* attribute, or the status object has exactly one error with the index of the
\* slot and the object and attribute of the access; and the call succeeds
\* exactly if there is no error: for lists and groups of any length, whichever
\* of the accesses fail.
THEOREM OutputAlwaysOrError == Spec => []OutputOrError
<1>1. Init => OutputInv
  BY DEF Init, NoCall, OutputInv, OutputOrError
<1>2. OutputInv => OutputOrError
  BY DEF OutputInv
<1> QED BY <1>1, <1>2, OutputStep, PTL DEF Spec
===============================================================================
