---------------------------- MODULE LogFilesProofs ----------------------------
(***************************************************************************)
(* The log files that several processes share, for any number of processes *)
(* and any rotation parameters: archives stay in the order of creation,    *)
(* only full files are archived, and no file grows beyond what one more    *)
(* write of each process adds.  And the ring buffer, for any size and any  *)
(* lengths of messages: it is a queue.                                     *)
(***************************************************************************)
EXTENDS LogRing, LogRotate, FiniteSetTheorems, SequenceTheorems, WellFoundedInduction, TLAPS

\* Inside the rotation of stage two and three, or a forced one.
Busy == {"stat", "reopen", "contend", "unlink", "rename"}

Param == [size : Nat, files : Nat \ {0}]

RotateType ==
    /\ pc \in [Procs -> {"off", "open", "run", "check", "dead"} \cup Busy]
    /\ param \in [Procs -> Param] /\ shared \in Param
    /\ inodes \in 0..MaxInodes
    /\ ino \in [Procs -> 0..inodes] /\ names \in [Archives -> 0..inodes]
    /\ step \in [Procs -> Int]
    /\ size \in [1..MaxInodes -> Nat]
    /\ locks \in [1..MaxInodes -> SUBSET Procs]
    /\ ctl \in Procs \cup {NoProc}
    /\ odd \subseteq {"forced", "failed"}

\* The log file is the newest file, and a file that does not exist is empty.
NewestInv ==
    /\ ArchivesInOrder
    /\ names[0] # 0 => names[0] = inodes
    /\ \A i \in 1..MaxInodes : i > inodes => size[i] = 0

\* The control file is a mutex; the parameters of a process come from one of
\* the processes; only who has more than one file rotates, and it does not
\* begin with the log file.
CtlProc(p) ==
    /\ pc[p] \in {"open", "unlink", "rename"} => ctl = p
    /\ pc[p] \in {"off", "open"} => ino[p] = 0
    /\ pc[p] # "off" => \E q \in Procs : param[p] = Params[q]
    /\ pc[p] \in Busy => param[p].files > 1
    /\ pc[p] = "unlink" => step[p] >= 1
    /\ pc[p] = "reopen" \/ (pc[p] = "rename" /\ step[p] < 0) =>
          (names[0] # 0 => names[0] # ino[p])

CtlInv ==
    /\ \A p \in Procs : CtlProc(p)
    /\ \A i \in 1..MaxInodes :
          locks[i] # {} => \E q \in Procs : shared = Params[q]

\* As long as nothing was forced and nothing has failed, there is a log file
\* unless a rotation is about to open it, and who rotates it has found it full.
FullProc(p) ==
    /\ pc[p] \in Busy => ino[p] # 0 /\ size[ino[p]] >= param[p].size
    /\ pc[p] = "unlink" \/ (pc[p] = "rename" /\ step[p] >= 0) => names[0] = ino[p]

FullInv ==
    odd = {} =>
        /\ OnlyFullArchived
        /\ names[0] = 0 => \/ inodes = 0
                           \/ \E p \in Procs : pc[p] = "rename" /\ step[p] < 0
        /\ \A p \in Procs : FullProc(p)

\* The processes that may still write to file i before they look at its size.
MayWrite(i) == {p \in Procs : IF ino[p] = i THEN pc[p] = "run" ELSE names[0] = i}

\* All processes ask for the parameters P, and P lets files be rotated.
Common(P) == P.files > 1 /\ P.size # 0 /\ \A q \in Procs : Params[q] = P

\* What a full file has grown beyond its size, and may still grow, is a unit
\* for each process.
GrowInv ==
    "failed" \notin odd =>
        \A P \in Param : Common(P) => \A i \in 1..MaxInodes :
            size[i] >= P.size =>
                size[i] + Cardinality(MayWrite(i)) <= P.size + Cardinality(Procs)

-----------------------------------------------------------------------------
(* Types                                                                   *)

LEMMA RotateTypeInit == RotateInit => RotateType
<1> SUFFICES ASSUME RotateInit PROVE RotateType
  OBVIOUS
<1>1. NoParam \in Param
  BY DEF NoParam, Param
<1>2. 0 \in 0..MaxInodes
  BY RotateAssumption
<1> QED BY <1>1, <1>2, RotateAssumption DEF RotateInit, RotateType

\* The log file that open() returns is the one there is or the next new one.
LEMMA OpenedType ==
    ASSUME RotateType, CanOpen
    PROVE  /\ OpenedInode \in 1..MaxInodes /\ 0 \in Archives
           /\ names[0] # 0 => OpenedInode = names[0] /\ OpenedInode \in 1..inodes
           /\ names[0] = 0 => OpenedInode = inodes + 1
<1>1. 0 \in Archives /\ MaxInodes \in Nat
  BY RotateAssumption DEF Archives
<1>2. names[0] \in 0..inodes /\ inodes \in 0..MaxInodes
  BY <1>1 DEF RotateType
<1> QED BY <1>1, <1>2 DEF OpenedInode, CanOpen

\* The ways to open the log file again.
LEMMA ReopenType ==
    ASSUME RotateType, NEW p \in Procs, Reopen(p)
    PROVE  /\ inodes' \in 0..MaxInodes
           /\ ino' \in [Procs -> 0..inodes'] /\ names' \in [Archives -> 0..inodes']
           /\ locks' \in [1..MaxInodes -> SUBSET Procs] /\ odd' \subseteq {"forced", "failed"}
<1>1. MaxInodes \in Nat /\ inodes \in 0..MaxInodes
  BY RotateAssumption DEF RotateType
<1>2. locks' \in [1..MaxInodes -> SUBSET Procs]
  BY DEF Reopen, Drop, RotateType
<1>3. odd' \subseteq {"forced", "failed"}
  BY DEF Reopen, RotateType
<1>4. CASE Opens(p) /\ names[0] # 0
  BY <1>1, <1>2, <1>3, <1>4, OpenedType DEF Opens, RotateType
<1>5. CASE Opens(p) /\ names[0] = 0
  <2>1. /\ inodes' = inodes + 1 /\ OpenedInode = inodes + 1 /\ inodes' \in 0..MaxInodes
    BY <1>1, <1>5, OpenedType DEF Opens
  <2>2. 0..inodes \subseteq 0..inodes' /\ inodes + 1 \in 0..inodes'
    BY <1>1, <2>1
  <2>3. ino' = [ino EXCEPT ![p] = inodes + 1] /\ names' = [names EXCEPT ![0] = inodes + 1]
    BY <1>5, <2>1 DEF Opens
  <2>4. ino' \in [Procs -> 0..inodes'] /\ names' \in [Archives -> 0..inodes']
    BY <2>2, <2>3 DEF RotateType
  <2> QED BY <1>2, <1>3, <2>1, <2>4
<1>6. CASE ~ Opens(p)
  <2>1. ino' = [ino EXCEPT ![p] = 0] /\ UNCHANGED <<names, inodes>>
    BY <1>6 DEF Reopen
  <2>2. 0 \in 0..inodes
    BY <1>1
  <2>3. ino' \in [Procs -> 0..inodes'] /\ names' \in [Archives -> 0..inodes']
    BY <2>1, <2>2 DEF RotateType
  <2> QED BY <1>1, <1>2, <1>3, <2>1, <2>3
<1> QED BY <1>4, <1>5, <1>6

LEMMA RotateTypeStep == RotateType /\ [RotateNext]_rotVars => RotateType'
<1> SUFFICES ASSUME RotateType, [RotateNext]_rotVars PROVE RotateType'
  OBVIOUS
<1>0. MaxInodes \in Nat /\ inodes \in 0..MaxInodes /\ 0 \in 0..inodes
  BY RotateAssumption DEF RotateType
<1>1. CASE UNCHANGED rotVars
  BY <1>1 DEF rotVars, RotateType
<1> SUFFICES ASSUME NEW p \in Procs,
                    \/ Start(p) \/ OpenLog(p) \/ Write(p) \/ CheckSize(p) \/ Stat(p)
                    \/ ReopenMoved(p) \/ Contend(p) \/ ForceRotate(p) \/ Unlink(p)
                    \/ Rename(p) \/ Halt(p) \/ Finish(p) \/ Stop(p)
             PROVE  RotateType'
  BY <1>1 DEF RotateNext
<1> USE DEF Goto, Busy
<1>2. CASE Start(p)
  <2>1. Params[p] \in Param
    BY RotateAssumption DEF Param
  <2> QED BY <1>2, <2>1 DEF Start, TakeCtl, RotateType
<1>3. CASE OpenLog(p)
  <2> DEFINE i == OpenedInode
             par == IF locks[i] \ {p} = {} THEN Params[p] ELSE shared
  <2>1. i \in 1..MaxInodes /\ 0 \in Archives /\ inodes' \in 0..MaxInodes /\ i \in 0..inodes'
    BY <1>0, <1>3, OpenedType DEF OpenLog
  <2>2. 0..inodes \subseteq 0..inodes' /\ 0 \in 0..inodes'
    BY <1>0, <1>3 DEF OpenLog
  <2>3. par \in Param
    BY RotateAssumption DEF Param, RotateType
  <2>4. names' \in [Archives -> 0..inodes']
    <3>1. [names EXCEPT ![0] = i] \in [Archives -> 0..inodes']
      BY <2>1, <2>2 DEF RotateType
    <3>2. \A nm \in [Archives -> 0..inodes'] : \A n : Purged(nm, n) \in [Archives -> 0..inodes']
      BY <2>2 DEF Purged
    <3> QED BY <1>3, <3>1, <3>2 DEF OpenLog
  <2>5. ino' \in [Procs -> 0..inodes']
    BY <1>3, <2>1, <2>2 DEF OpenLog, RotateType
  <2>6. /\ param' = [param EXCEPT ![p] = par] /\ shared' = par
        /\ locks' = [locks EXCEPT ![i] = @ \cup {p}] /\ ctl' = NoProc
        /\ pc' = [pc EXCEPT ![p] = "run"] /\ UNCHANGED <<step, size, odd>>
    BY <1>3 DEF OpenLog
  <2> HIDE DEF i, par
  <2> QED BY <2>1, <2>3, <2>4, <2>5, <2>6 DEF RotateType
<1>4. CASE Write(p)
  <2>1. size' \in [1..MaxInodes -> Nat]
    <3>1. size \in [1..MaxInodes -> Nat]
      BY DEF RotateType
    <3>2. CASE ino[p] = 0
      BY <1>4, <3>1, <3>2 DEF Write
    <3>3. CASE ino[p] # 0
      <4>1. ino[p] \in 1..MaxInodes
        BY <1>0, <3>3 DEF RotateType
      <4>2. size' = [size EXCEPT ![ino[p]] = size[ino[p]] + 1] /\ size[ino[p]] + 1 \in Nat
        BY <1>4, <3>1, <3>3, <4>1 DEF Write
      <4> QED BY <3>1, <4>1, <4>2
    <3> QED BY <3>2, <3>3
  <2> QED BY <1>4, <2>1 DEF Write, RotateType
<1>5. CASE CheckSize(p)
  <2>1. pc' \in [Procs -> {"off", "open", "run", "check", "dead"} \cup Busy]
    BY <1>5 DEF CheckSize, RotateType
  <2>2. locks' \in [1..MaxInodes -> SUBSET Procs]
    BY <1>5 DEF CheckSize, RotateType, Drop
  <2> QED BY <1>5, <2>1, <2>2 DEF CheckSize, RotateType
<1>6. CASE Stat(p)
  BY <1>6 DEF Stat, RotateType
<1>7. CASE ReopenMoved(p)
  BY <1>7, ReopenType DEF ReopenMoved, RotateType
<1>8. CASE Contend(p)
  <2>1. CASE Moved(p)
    BY <1>8, <2>1, ReopenType DEF Contend, RotateType
  <2>2. CASE ~ Moved(p)
    <3>1. param[p].files - 1 \in Int
      BY DEF RotateType, Param
    <3> QED BY <1>8, <2>2, <3>1 DEF Contend, RotateType
  <2> QED BY <2>1, <2>2
<1>9. CASE ForceRotate(p)
  <2>1. param[p].files - 1 \in Int
    BY DEF RotateType, Param
  <2>2. /\ pc' = [pc EXCEPT ![p] = "unlink"] /\ ctl' = p
        /\ step' = [step EXCEPT ![p] = param[p].files - 1] /\ odd' = odd \cup {"forced"}
        /\ UNCHANGED <<param, ino, names, size, locks, shared, inodes>>
    BY <1>9 DEF ForceRotate, TakeCtl
  <2>3. odd' \subseteq {"forced", "failed"}
    BY <2>2 DEF RotateType
  <2>4. /\ pc' \in [Procs -> {"off", "open", "run", "check", "dead"} \cup Busy]
        /\ step' \in [Procs -> Int]
    BY <2>1, <2>2 DEF RotateType
  <2> QED BY <2>2, <2>3, <2>4 DEF RotateType
<1>10. CASE Unlink(p)
  <2>1. step[p] - 1 \in Int
    BY DEF RotateType
  <2>2. names' \in [Archives -> 0..inodes] /\ step' \in [Procs -> Int]
    BY <1>0, <1>10, <2>1 DEF Unlink, RotateType
  <2> QED BY <1>10, <2>2 DEF Unlink, RotateType
<1>11. CASE Rename(p)
  <2>1. names' \in [Archives -> 0..inodes]
    <3> DEFINE k == step[p]
    <3>1. k \in Int /\ k >= 0 /\ (k + 1 \in Archives => k \in Archives)
      BY <1>11, RotateAssumption DEF Rename, RotateType, Archives
    <3>2. CASE k \in Archives
      BY <1>0, <1>11, <3>2 DEF Rename, RotateType
    <3>3. CASE k \notin Archives
      <4>1. [names EXCEPT ![k + 1] = names[k], ![k] = 0] = names
        BY <3>1, <3>3 DEF RotateType
      <4> QED BY <1>11, <4>1 DEF Rename, RotateType
    <3> QED BY <3>2, <3>3
  <2>2. step[p] - 1 \in Int
    BY DEF RotateType
  <2> QED BY <1>11, <2>1, <2>2 DEF Rename, RotateType
<1>12. CASE Halt(p)
  BY <1>12 DEF Halt, RotateType
<1>13. CASE Finish(p)
  BY <1>13, ReopenType DEF Finish, RotateType
<1>14. CASE Stop(p)
  <2>1. NoParam \in Param /\ locks' \in [1..MaxInodes -> SUBSET Procs]
    BY <1>14 DEF Stop, NoParam, Param, Drop, RotateType
  <2> QED BY <1>0, <1>14, <2>1 DEF Stop, RotateType
<1> QED BY <1>2, <1>3, <1>4, <1>5, <1>6, <1>7, <1>8, <1>9, <1>10, <1>11, <1>12, <1>13, <1>14

-----------------------------------------------------------------------------
(* The order of the archives                                               *)

\* What open() does to the names: nothing, or the newest file is the log file.
LEMMA OpenNames ==
    ASSUME RotateType, CanOpen, names' = [names EXCEPT ![0] = OpenedInode],
           inodes' = IF names[0] # 0 THEN inodes ELSE inodes + 1, NewestInv
    PROVE  /\ names[0] # 0 => UNCHANGED <<names, inodes>>
           /\ names[0] = 0 => inodes' = inodes + 1 /\ names'[0] = inodes'
           /\ \A k \in Archives \ {0} : names'[k] = names[k]
           /\ names'[0] = inodes' /\ names'[0] # 0 /\ names'[0] = OpenedInode
<1>1. 0 \in Archives /\ names \in [Archives -> 0..inodes] /\ inodes \in Nat
  BY RotateAssumption DEF RotateType, Archives
<1>2. CASE names[0] # 0
  BY <1>1, <1>2 DEF OpenedInode, NewestInv
<1>3. CASE names[0] = 0
  BY <1>1, <1>3 DEF OpenedInode
<1> QED BY <1>2, <1>3

\* Names that are taken away, or given to the newest file, leave the order.
LEMMA OpenKeepsOrder ==
    ASSUME RotateType, NewestInv, UNCHANGED size, inodes' \in {inodes, inodes + 1},
           \A k \in Archives \ {0} : names'[k] \in {names[k], 0},
           names'[0] # 0 => names'[0] = inodes',
           inodes' = inodes => names'[0] \in {names[0], 0}
    PROVE  NewestInv'
<1>1. 0 \in Archives /\ names \in [Archives -> 0..inodes] /\ inodes \in Nat
  BY RotateAssumption DEF RotateType, Archives
<1>2. size \in [1..MaxInodes -> Nat]
  BY DEF RotateType
<1>3. ASSUME NEW j \in Archives, NEW k \in Archives, j < k, names'[j] # 0, names'[k] # 0
      PROVE  names'[j] > names'[k]
  <2>1. k # 0 /\ names'[k] = names[k] /\ names[k] # 0
    BY <1>3 DEF Archives
  <2>2. CASE j # 0
    BY <1>3, <2>1, <2>2 DEF NewestInv, ArchivesInOrder
  <2>3. CASE j = 0 /\ inodes' = inodes
    BY <1>3, <2>1, <2>3 DEF NewestInv, ArchivesInOrder
  <2>4. CASE j = 0 /\ inodes' = inodes + 1
    BY <1>1, <1>3, <2>1, <2>4
  <2> QED BY <2>2, <2>3, <2>4
<1>4. \A i \in 1..MaxInodes : i > inodes' => size'[i] = 0
  BY <1>1 DEF NewestInv
<1> QED BY <1>3, <1>4 DEF NewestInv, ArchivesInOrder

LEMMA ReopenKeepsOrder ==
    ASSUME RotateType, NewestInv, NEW p \in Procs, Reopen(p), UNCHANGED size
    PROVE  NewestInv'
<1>1. CASE Opens(p)
  <2>1. /\ CanOpen /\ names' = [names EXCEPT ![0] = OpenedInode]
        /\ inodes' = IF names[0] # 0 THEN inodes ELSE inodes + 1
    BY <1>1 DEF Opens
  <2>2. /\ names[0] # 0 => UNCHANGED <<names, inodes>>
        /\ names[0] = 0 => inodes' = inodes + 1
        /\ \A k \in Archives \ {0} : names'[k] = names[k]
        /\ names'[0] = inodes'
    BY <2>1, OpenNames
  <2>3. inodes \in Nat
    BY RotateAssumption DEF RotateType
  <2>4. inodes' = inodes => names'[0] = names[0]
    BY <2>2, <2>3
  <2> QED BY <2>2, <2>4, OpenKeepsOrder
<1>2. CASE ~ Opens(p)
  BY <1>2, OpenKeepsOrder DEF Reopen, NewestInv
<1> QED BY <1>1, <1>2

LEMMA NewestStep == RotateType /\ NewestInv /\ [RotateNext]_rotVars => NewestInv'
<1> SUFFICES ASSUME RotateType, NewestInv, [RotateNext]_rotVars PROVE NewestInv'
  OBVIOUS
<1>0. /\ 0 \in Archives /\ names \in [Archives -> 0..inodes] /\ inodes \in Nat
      /\ size \in [1..MaxInodes -> Nat] /\ step \in [Procs -> Int]
  BY RotateAssumption DEF RotateType, Archives
<1>1. CASE UNCHANGED <<names, inodes, size>>
  BY <1>1 DEF NewestInv, ArchivesInOrder
<1>2. CASE UNCHANGED rotVars
  BY <1>1, <1>2 DEF rotVars
<1> SUFFICES ASSUME NEW p \in Procs,
                    \/ Start(p) \/ OpenLog(p) \/ Write(p) \/ CheckSize(p) \/ Stat(p)
                    \/ ReopenMoved(p) \/ Contend(p) \/ ForceRotate(p) \/ Unlink(p)
                    \/ Rename(p) \/ Halt(p) \/ Finish(p) \/ Stop(p)
             PROVE  NewestInv'
  BY <1>2 DEF RotateNext
<1>3. CASE Start(p) \/ CheckSize(p) \/ Stat(p) \/ ForceRotate(p) \/ Halt(p) \/ Stop(p)
  BY <1>1, <1>3 DEF Start, CheckSize, Stat, ForceRotate, Halt, Stop
<1>4. CASE ReopenMoved(p) \/ Finish(p) \/ (Contend(p) /\ Moved(p))
  BY <1>4, ReopenKeepsOrder DEF ReopenMoved, Finish, Contend
<1>5. CASE Contend(p) /\ ~ Moved(p)
  BY <1>1, <1>5 DEF Contend
<1>6. CASE OpenLog(p)
  <2> DEFINE nm == [names EXCEPT ![0] = OpenedInode]
  <2>1. /\ CanOpen /\ inodes' = IF names[0] # 0 THEN inodes ELSE inodes + 1
        /\ UNCHANGED size /\ (names' = nm \/ \E n : names' = Purged(nm, n))
    BY <1>6 DEF OpenLog
  <2>2. /\ nm \in [Archives -> Nat] /\ nm[0] = OpenedInode
        /\ \A k \in Archives \ {0} : nm[k] = names[k]
    <3>1. OpenedInode \in Nat
      BY <1>0, <2>1, OpenedType
    <3> QED BY <1>0, <3>1
  <2>3. OpenedInode = inodes'
    BY <2>1 DEF OpenedInode, NewestInv
  <2>4. \A k \in Archives : names'[k] \in {nm[k], 0}
    BY <2>1, <2>2 DEF Purged
  <2>5. inodes' = inodes => nm[0] = names[0]
    BY <1>0, <2>1, <2>2 DEF OpenedInode
  <2> HIDE DEF nm
  <2> QED BY <1>0, <2>1, <2>2, <2>3, <2>4, <2>5, OpenKeepsOrder
<1>7. CASE Unlink(p)
  <2>1. \A k \in Archives : names'[k] \in {names[k], 0}
    BY <1>0, <1>7 DEF Unlink
  <2> QED BY <1>0, <1>7, <2>1, OpenKeepsOrder DEF Unlink, NewestInv
<1>8. CASE Write(p)
  <2>1. UNCHANGED <<names, inodes>>
    BY <1>8 DEF Write
  <2>2. ino[p] \in 0..inodes
    BY DEF RotateType
  <2>3. \A i \in 1..MaxInodes : i > inodes => size'[i] = size[i]
    BY <1>0, <1>8, <2>2 DEF Write
  <2> QED BY <2>1, <2>3 DEF NewestInv, ArchivesInOrder
<1>9. CASE Rename(p)
  <2> DEFINE k == step[p]
  <2>1. k \in Nat /\ UNCHANGED <<inodes, size>>
    BY <1>0, <1>9 DEF Rename
  <2>2. CASE names[k] = 0
    BY <1>1, <1>9, <2>1, <2>2 DEF Rename
  <2>3. CASE names[k] # 0
    <3>1. names' = [names EXCEPT ![k + 1] = names[k], ![k] = 0]
      BY <1>9, <2>3 DEF Rename
    <3>2. k + 1 \in Archives => k \in Archives
      BY <2>1, RotateAssumption DEF Archives
    <3> HIDE DEF k
    <3>3. ASSUME NEW i \in Archives, names'[i] # 0
          PROVE  \/ i = k + 1 /\ names'[i] = names[k] /\ k \in Archives
                 \/ i # k /\ i # k + 1 /\ names'[i] = names[i]
      BY <1>0, <2>1, <3>1, <3>2, <3>3
    <3>4. ASSUME NEW i \in Archives, NEW j \in Archives, i < j, names'[i] # 0, names'[j] # 0
          PROVE  names'[i] > names'[j]
      <4>1. i \in Nat /\ j \in Nat
        BY RotateAssumption DEF Archives
      <4>2. CASE i = k + 1
        <5>1. names'[i] = names[k] /\ k \in Archives /\ names'[j] = names[j] /\ k < j
          BY <2>1, <3>3, <3>4, <4>1, <4>2
        <5> QED BY <3>4, <5>1 DEF NewestInv, ArchivesInOrder
      <4>3. CASE j = k + 1
        <5>1. names'[j] = names[k] /\ k \in Archives /\ names'[i] = names[i] /\ i < k
          BY <2>1, <3>3, <3>4, <4>1, <4>3
        <5> QED BY <3>4, <5>1 DEF NewestInv, ArchivesInOrder
      <4>4. CASE i # k + 1 /\ j # k + 1
        BY <3>3, <3>4, <4>4 DEF NewestInv, ArchivesInOrder
      <4> QED BY <4>2, <4>3, <4>4
    <3>5. names'[0] # 0 => names'[0] = names[0]
      BY <1>0, <2>1, <3>3
    <3> QED BY <2>1, <3>4, <3>5 DEF NewestInv, ArchivesInOrder
  <2> QED BY <2>2, <2>3
<1> QED BY <1>3, <1>4, <1>5, <1>6, <1>7, <1>8, <1>9

-----------------------------------------------------------------------------
(* The control file                                                        *)

\* One step of the write thread of p.
ProcStep(p) ==
    \/ Start(p) \/ OpenLog(p) \/ Write(p) \/ CheckSize(p) \/ Stat(p)
    \/ ReopenMoved(p) \/ Contend(p) \/ ForceRotate(p) \/ Unlink(p)
    \/ Rename(p) \/ Halt(p) \/ Finish(p) \/ Stop(p)

\* A step of p leaves what belongs to the other processes alone.
LEMMA Local ==
    ASSUME NEW p \in Procs, NEW q \in Procs \ {p}, RotateType, ProcStep(p)
    PROVE  pc'[q] = pc[q] /\ param'[q] = param[q] /\ ino'[q] = ino[q] /\ step'[q] = step[q]
<1> USE DEF Goto, RotateType
<1>1. pc'[q] = pc[q]
  BY DEF ProcStep, Start, OpenLog, Write, CheckSize, Stat, ReopenMoved, Contend,
     ForceRotate, Unlink, Rename, Halt, Finish, Stop
<1>2. param'[q] = param[q]
  BY DEF ProcStep, Start, OpenLog, Write, CheckSize, Stat, ReopenMoved, Contend,
     ForceRotate, Unlink, Rename, Halt, Finish, Stop
<1>3. ino'[q] = ino[q]
  BY DEF ProcStep, Start, OpenLog, Write, CheckSize, Stat, ReopenMoved, Contend,
     ForceRotate, Unlink, Rename, Halt, Finish, Stop, Reopen, Opens
<1>4. step'[q] = step[q]
  BY DEF ProcStep, Start, OpenLog, Write, CheckSize, Stat, ReopenMoved, Contend,
     ForceRotate, Unlink, Rename, Halt, Finish, Stop
<1> QED BY <1>1, <1>2, <1>3, <1>4

\* The log file stays, is moved away, or is created where there was none.
LEMMA LogName ==
    ASSUME NEW p \in Procs, RotateType, NewestInv, ProcStep(p)
    PROVE  \/ names'[0] \in {0, names[0]}
           \/ names[0] = 0 /\ names'[0] = inodes + 1
<1>0. /\ 0 \in Archives /\ names \in [Archives -> 0..inodes] /\ inodes \in Nat
      /\ step \in [Procs -> Int]
  BY RotateAssumption DEF RotateType, Archives
<1>1. CASE \/ Start(p) \/ Write(p) \/ CheckSize(p) \/ Stat(p) \/ ForceRotate(p) \/ Halt(p)
           \/ Stop(p)
  BY <1>1 DEF Start, Write, CheckSize, Stat, ForceRotate, Halt, Stop
<1>2. CASE ReopenMoved(p) \/ Contend(p) \/ Finish(p)
  <2>1. names' = names \/ names' = [names EXCEPT ![0] = OpenedInode]
    BY <1>2 DEF ReopenMoved, Contend, Finish, Reopen, Opens
  <2> QED BY <1>0, <2>1 DEF OpenedInode
<1>3. CASE OpenLog(p)
  <2> DEFINE nm == [names EXCEPT ![0] = OpenedInode]
  <2>1. names' = nm \/ \E n : names' = Purged(nm, n)
    BY <1>3 DEF OpenLog
  <2>2. nm[0] = OpenedInode
    BY <1>0
  <2>3. names'[0] \in {0, OpenedInode}
    BY <1>0, <2>1, <2>2 DEF Purged
  <2> QED BY <1>0, <2>3 DEF OpenedInode
<1>4. CASE Unlink(p)
  BY <1>0, <1>4 DEF Unlink
<1>5. CASE Rename(p)
  BY <1>0, <1>5 DEF Rename
<1> QED BY <1>1, <1>2, <1>3, <1>4, <1>5 DEF ProcStep

\* Who holds the control file keeps it while others run.
LEMMA OthersKeepCtl ==
    ASSUME NEW p \in Procs, NEW q \in Procs \ {p}, RotateType, CtlInv, ProcStep(p), ctl = q
    PROVE  ctl' = q
<1>1. CtlProc(p) /\ q # NoProc
  BY RotateAssumption DEF CtlInv
<1> QED BY <1>1 DEF CtlProc, ProcStep, Start, OpenLog, Write, CheckSize, Stat, ReopenMoved,
     Contend, ForceRotate, Unlink, Rename, Halt, Finish, Stop, TakeCtl

LEMMA CtlOthers ==
    ASSUME NEW p \in Procs, NEW q \in Procs \ {p}, RotateType, NewestInv, CtlInv, ProcStep(p)
    PROVE  CtlProc(q)'
<1>1. CtlProc(q)
  BY DEF CtlInv
<1>2. pc'[q] = pc[q] /\ param'[q] = param[q] /\ ino'[q] = ino[q] /\ step'[q] = step[q]
  BY Local
<1>3. pc[q] \in {"open", "unlink", "rename"} => ctl' = q
  BY <1>1, OthersKeepCtl DEF CtlProc
<1>4. (names[0] # 0 => names[0] # ino[q]) => (names'[0] # 0 => names'[0] # ino[q])
  <2>1. ino[q] \in 0..inodes /\ inodes \in Nat
    BY RotateAssumption DEF RotateType
  <2>2. inodes + 1 # ino[q]
    BY <2>1
  <2> QED BY <2>2, LogName
<1> QED BY <1>1, <1>2, <1>3, <1>4 DEF CtlProc

\* The parameters that the processes share are those of one of them.
LEMMA SharedStep ==
    ASSUME NEW p \in Procs, RotateType, CtlInv, ProcStep(p)
    PROVE  \A i \in 1..MaxInodes : locks'[i] # {} => \E q \in Procs : shared' = Params[q]
<1>1. CASE OpenLog(p)
  <2>1. OpenedInode \in 1..MaxInodes
    BY <1>1, OpenedType DEF OpenLog
  <2>2. shared' = IF locks[OpenedInode] \ {p} = {} THEN Params[p] ELSE shared
    BY <1>1 DEF OpenLog
  <2> QED BY <2>1, <2>2 DEF CtlInv
<1>2. CASE ~ OpenLog(p)
  <2>1. shared' = shared /\ (locks' = locks \/ locks' = Drop(p))
    BY <1>2 DEF ProcStep, Start, Write, CheckSize, Stat, ReopenMoved, Contend,
       ForceRotate, Unlink, Rename, Halt, Finish, Stop, Reopen
  <2>2. \A i \in 1..MaxInodes : locks'[i] # {} => locks[i] # {}
    BY <2>1 DEF Drop
  <2> QED BY <2>1, <2>2 DEF CtlInv
<1> QED BY <1>1, <1>2

LEMMA CtlOwn ==
    ASSUME NEW p \in Procs, RotateType, NewestInv, CtlInv, ProcStep(p)
    PROVE  CtlProc(p)'
<1>0. /\ CtlProc(p) /\ RotateType' /\ ino[p] \in 0..inodes /\ inodes \in Nat
      /\ param[p] \in Param /\ Params[p] \in Param /\ step[p] \in Int
  <2>1. RotateType'
    BY RotateTypeStep DEF RotateNext, ProcStep
  <2>2. ino[p] \in 0..inodes /\ inodes \in Nat /\ param[p] \in Param /\ step[p] \in Int
    BY RotateAssumption DEF RotateType
  <2>3. CtlProc(p) /\ Params[p] \in Param
    BY RotateAssumption DEF CtlInv, Param
  <2> QED BY <2>1, <2>2, <2>3
<1> USE DEF Goto, RotateType
<1>1. CASE Start(p)
  BY <1>0, <1>1 DEF Start, TakeCtl, CtlProc, Busy
<1>2. CASE OpenLog(p)
  <2>1. OpenedInode \in 1..MaxInodes
    BY <1>2, OpenedType DEF OpenLog
  <2>2. shared' = IF locks[OpenedInode] \ {p} = {} THEN Params[p] ELSE shared
    BY <1>2 DEF OpenLog
  <2>3. \E q \in Procs : shared' = Params[q]
    BY <2>1, <2>2 DEF CtlInv
  <2>4. pc'[p] = "run" /\ param'[p] = shared'
    BY <1>2 DEF OpenLog
  <2> QED BY <2>3, <2>4 DEF CtlProc, Busy
<1>3. CASE Write(p)
  <2>1. pc[p] = "run" /\ pc'[p] = "check" /\ UNCHANGED param
    BY <1>3 DEF Write
  <2> QED BY <1>0, <2>1 DEF CtlProc, Busy
<1>4. CASE CheckSize(p)
  <2>1. /\ pc[p] = "check" /\ UNCHANGED param /\ pc'[p] \in {"run", "stat", "dead"}
        /\ pc'[p] = "stat" => param[p].files > 1
    BY <1>4 DEF CheckSize
  <2> QED BY <1>0, <2>1 DEF CtlProc, Busy
<1>5. CASE Stat(p)
  <2>1. /\ pc[p] = "stat" /\ UNCHANGED <<param, names, ino>>
        /\ pc'[p] = IF Moved(p) THEN "reopen" ELSE "contend"
    BY <1>5 DEF Stat
  <2> QED BY <1>0, <2>1 DEF CtlProc, Busy, Moved
<1>6. CASE ReopenMoved(p) \/ Finish(p) \/ (Contend(p) /\ Moved(p))
  <2>1. pc[p] \in Busy /\ pc'[p] = "run" /\ UNCHANGED param
    BY <1>6 DEF ReopenMoved, Finish, Contend, Busy
  <2> QED BY <1>0, <2>1 DEF CtlProc, Busy
<1>7. CASE (Contend(p) /\ ~ Moved(p)) \/ ForceRotate(p)
  <2>1. /\ pc[p] \in {"contend", "run"} /\ (pc[p] = "run" => param[p].files > 1)
        /\ pc'[p] = "unlink" /\ UNCHANGED param /\ ctl' = p
        /\ step'[p] = param[p].files - 1
    BY <1>7 DEF Contend, ForceRotate, TakeCtl
  <2>2. param[p].files \in Nat /\ param[p].files > 1
    BY <1>0, <2>1 DEF CtlProc, Busy, Param
  <2>3. step'[p] >= 1
    BY <2>1, <2>2
  <2> QED BY <1>0, <2>1, <2>2, <2>3 DEF CtlProc, Busy
<1>8. CASE Unlink(p)
  <2>1. /\ pc[p] = "unlink" /\ pc'[p] = "rename" /\ UNCHANGED <<param, ctl>>
        /\ step'[p] = step[p] - 1
    BY <1>8 DEF Unlink
  <2>2. ~ (step'[p] < 0)
    BY <1>0, <2>1 DEF CtlProc
  <2> QED BY <1>0, <2>1, <2>2 DEF CtlProc, Busy
<1>9. CASE Rename(p)
  <2>1. /\ pc[p] = "rename" /\ UNCHANGED <<pc, param, ctl, ino>> /\ step[p] >= 0
        /\ step'[p] = step[p] - 1
    BY <1>9 DEF Rename
  <2>2. step'[p] < 0 => step[p] = 0
    BY <1>0, <2>1
  <2>3. step[p] = 0 => names'[0] = 0
    <3>1. 0 \in Archives /\ 1 # 0
      BY RotateAssumption DEF Archives
    <3> QED BY <1>9, <3>1 DEF Rename
  <2> QED BY <1>0, <2>1, <2>2, <2>3 DEF CtlProc, Busy
<1>10. CASE Halt(p)
  <2>1. pc[p] \in Busy /\ pc'[p] = "run" /\ UNCHANGED param
    BY <1>10 DEF Halt, Busy
  <2> QED BY <1>0, <2>1 DEF CtlProc, Busy
<1>11. CASE Stop(p)
  <2>1. pc'[p] = "off" /\ ino'[p] = 0
    BY <1>11 DEF Stop
  <2> QED BY <2>1 DEF CtlProc, Busy
<1> QED BY <1>1, <1>2, <1>3, <1>4, <1>5, <1>6, <1>7, <1>8, <1>9, <1>10, <1>11 DEF ProcStep

LEMMA CtlStep == RotateType /\ NewestInv /\ CtlInv /\ [RotateNext]_rotVars => CtlInv'
<1> SUFFICES ASSUME RotateType, NewestInv, CtlInv, [RotateNext]_rotVars PROVE CtlInv'
  OBVIOUS
<1>1. CASE UNCHANGED rotVars
  BY <1>1 DEF rotVars, CtlInv, CtlProc
<1>2. ASSUME NEW p \in Procs, ProcStep(p) PROVE CtlInv'
  <2>1. \A q \in Procs : CtlProc(q)'
    BY <1>2, CtlOwn, CtlOthers
  <2> QED BY <1>2, <2>1, SharedStep DEF CtlInv
<1> QED BY <1>1, <1>2 DEF RotateNext, ProcStep

-----------------------------------------------------------------------------
(* Only full files are archived                                            *)

LEMMA SizesGrow ==
    ASSUME NEW p \in Procs, RotateType, ProcStep(p)
    PROVE  \A i \in 1..MaxInodes : size'[i] \in Nat /\ size[i] \in Nat /\ size'[i] >= size[i]
<1>0. size \in [1..MaxInodes -> Nat]
  BY DEF RotateType
<1>1. CASE Write(p)
  <2>1. size' = size \/ size' = [size EXCEPT ![ino[p]] = size[ino[p]] + 1]
    BY <1>1 DEF Write
  <2> TAKE i \in 1..MaxInodes
  <2>2. size[i] \in Nat /\ size[i] + 1 \in Nat /\ size[i] + 1 >= size[i]
    BY <1>0
  <2>3. size'[i] \in {size[i], size[i] + 1}
    BY <1>0, <2>1
  <2> QED BY <2>2, <2>3
<1>2. CASE ~ Write(p)
  <2>1. size' = size
    BY <1>2 DEF ProcStep, Start, OpenLog, CheckSize, Stat, ReopenMoved, Contend,
       ForceRotate, Unlink, Rename, Halt, Finish, Stop
  <2> QED BY <1>0, <2>1
<1> QED BY <1>1, <1>2

\* Only the last rename of a rotation takes the log file away, and who opens
\* it when there is none creates it.
LEMMA LogStays ==
    ASSUME NEW p \in Procs, RotateType, NewestInv, CtlInv, ProcStep(p), names[0] # 0,
           ~ (Rename(p) /\ step[p] = 0)
    PROVE  names'[0] = names[0] /\ inodes' = inodes
<1>0. /\ 0 \in Archives /\ names \in [Archives -> 0..inodes] /\ inodes \in Nat
      /\ step[p] \in Int /\ CtlProc(p)
  BY RotateAssumption DEF RotateType, Archives, CtlInv
<1>1. CASE \/ Start(p) \/ Write(p) \/ CheckSize(p) \/ Stat(p) \/ ForceRotate(p) \/ Halt(p)
           \/ Stop(p)
  BY <1>1 DEF Start, Write, CheckSize, Stat, ForceRotate, Halt, Stop
<1>2. CASE ReopenMoved(p) \/ Contend(p) \/ Finish(p)
  <2>1. /\ names' = names \/ names' = [names EXCEPT ![0] = names[0]]
        /\ inodes' = inodes
    BY <1>2 DEF ReopenMoved, Contend, Finish, Reopen, Opens, OpenedInode
  <2> QED BY <1>0, <2>1
<1>3. CASE OpenLog(p)
  <2> DEFINE nm == [names EXCEPT ![0] = names[0]]
  <2>1. (names' = nm \/ \E n : names' = Purged(nm, n)) /\ inodes' = inodes
    BY <1>3 DEF OpenLog, OpenedInode
  <2>2. nm[0] = names[0]
    BY <1>0
  <2>3. \A n : n \in Nat => Purged(nm, n)[0] = nm[0]
    BY <1>0 DEF Purged
  <2>4. names' = nm \/ \E n \in Nat : names' = Purged(nm, n)
    <3>1. Params[p].files \in Nat /\ shared.files \in Nat
      BY RotateAssumption DEF RotateType, Param
    <3> QED BY <1>3, <3>1 DEF OpenLog, OpenedInode
  <2> HIDE DEF nm
  <2> QED BY <2>1, <2>2, <2>3, <2>4
<1>4. CASE Unlink(p)
  <2>1. step[p] # 0 /\ names' = [names EXCEPT ![step[p]] = 0] /\ inodes' = inodes
    BY <1>0, <1>4 DEF Unlink, CtlProc
  <2> QED BY <1>0, <2>1
<1>5. CASE Rename(p)
  <2>1. step[p] # 0 /\ step[p] + 1 # 0 /\ inodes' = inodes
    BY <1>0, <1>5 DEF Rename
  <2>2. \/ names' = names
        \/ names' = [names EXCEPT ![step[p] + 1] = names[step[p]], ![step[p]] = 0]
    BY <1>5 DEF Rename
  <2> QED BY <1>0, <2>1, <2>2
<1> QED BY <1>1, <1>2, <1>3, <1>4, <1>5 DEF ProcStep

LEMMA LogCreated ==
    ASSUME NEW p \in Procs, RotateType, NewestInv, ProcStep(p), names[0] = 0, names'[0] = 0
    PROVE  inodes' = inodes
<1>0. /\ 0 \in Archives /\ names \in [Archives -> 0..inodes] /\ inodes \in Nat
  BY RotateAssumption DEF RotateType, Archives
<1>1. CASE OpenLog(p)
  <2> DEFINE nm == [names EXCEPT ![0] = inodes + 1]
  <2>1. names' = nm \/ \E n \in Nat : names' = Purged(nm, n)
    <3>1. Params[p].files \in Nat /\ shared.files \in Nat
      BY RotateAssumption DEF RotateType, Param
    <3> QED BY <1>1, <3>1 DEF OpenLog, OpenedInode
  <2>2. nm[0] = inodes + 1
    BY <1>0
  <2>3. \A n : n \in Nat => Purged(nm, n)[0] = nm[0]
    BY <1>0 DEF Purged
  <2> HIDE DEF nm
  <2> QED BY <1>0, <2>1, <2>2, <2>3
<1>2. CASE ReopenMoved(p) \/ Contend(p) \/ Finish(p)
  <2>1. \/ names' = [names EXCEPT ![0] = inodes + 1]
        \/ inodes' = inodes
    BY <1>2 DEF ReopenMoved, Contend, Finish, Reopen, Opens, OpenedInode
  <2> QED BY <1>0, <2>1
<1>3. CASE \/ Start(p) \/ Write(p) \/ CheckSize(p) \/ Stat(p) \/ ForceRotate(p) \/ Halt(p)
           \/ Stop(p) \/ Unlink(p) \/ Rename(p)
  BY <1>3 DEF Start, Write, CheckSize, Stat, ForceRotate, Halt, Stop, Unlink, Rename
<1> QED BY <1>1, <1>2, <1>3 DEF ProcStep

\* Without failures a reopened log file is there.
LEMMA ReopenSucceeds ==
    ASSUME NEW p \in Procs, RotateType, NewestInv, Reopen(p), "failed" \notin odd'
    PROVE  /\ ino'[p] = names'[0] /\ names'[0] # 0 /\ Opens(p)
           /\ names[0] # 0 => names'[0] = names[0] /\ inodes' = inodes
           /\ names[0] = 0 => names'[0] = inodes + 1
<1>1. CanOpen /\ ino' = [ino EXCEPT ![p] = OpenedInode] /\ Opens(p)
      /\ names' = [names EXCEPT ![0] = OpenedInode]
      /\ inodes' = IF names[0] # 0 THEN inodes ELSE inodes + 1
  BY DEF Reopen, Opens
<1>2. ino'[p] = OpenedInode
  BY <1>1 DEF RotateType
<1> QED BY <1>1, <1>2, OpenNames

LEMMA FullOthers ==
    ASSUME NEW p \in Procs, NEW q \in Procs \ {p}, RotateType, NewestInv, CtlInv,
           ProcStep(p), FullProc(q)
    PROVE  FullProc(q)'
<1>1. pc'[q] = pc[q] /\ param'[q] = param[q] /\ ino'[q] = ino[q] /\ step'[q] = step[q]
  BY Local
<1>2. ino[q] \in 0..MaxInodes /\ param[q].size \in Nat /\ MaxInodes \in Nat
  <2>1. inodes \in 0..MaxInodes /\ MaxInodes \in Nat /\ ino[q] \in 0..inodes
    BY RotateAssumption DEF RotateType
  <2>2. param[q].size \in Nat
    BY DEF RotateType, Param
  <2> QED BY <2>1, <2>2
<1>3. ino[q] # 0 /\ size[ino[q]] >= param[q].size => size'[ino[q]] >= param[q].size
  <2>1. ino[q] # 0 => ino[q] \in 1..MaxInodes
    BY <1>2
  <2> QED BY <1>2, <2>1, SizesGrow
<1>4. pc[q] \in Busy /\ names[0] = ino[q] /\ ctl = q => names'[0] = ino[q]
  <2>1. ctl = q => ~ Rename(p)
    BY DEF Rename, CtlInv, CtlProc
  <2> QED BY <2>1, LogStays DEF FullProc
<1>5. pc[q] \in {"unlink", "rename"} => ctl = q
  BY DEF CtlInv, CtlProc
<1> QED BY <1>1, <1>3, <1>4, <1>5 DEF FullProc, Busy

LEMMA FullOwn ==
    ASSUME NEW p \in Procs, RotateType, NewestInv, CtlInv, FullInv, ProcStep(p),
           odd = {}, odd' = {}
    PROVE  FullProc(p)'
<1>0. /\ FullProc(p) /\ CtlProc(p) /\ step[p] \in Int /\ inodes \in Nat
      /\ ino[p] \in 0..inodes
  BY RotateAssumption DEF FullInv, CtlInv, RotateType
<1>a. pc \in [Procs -> {"off", "open", "run", "check", "dead"} \cup Busy]
  BY DEF RotateType
<1>1. CASE pc'[p] \notin Busy
  BY <1>1 DEF FullProc, Busy
<1>2. CASE CheckSize(p) /\ pc'[p] \in Busy
  <2>1. /\ ino[p] # 0 /\ size[ino[p]] >= param[p].size /\ pc'[p] = "stat"
        /\ UNCHANGED <<ino, size, param>>
    BY <1>2, <1>a DEF CheckSize, Goto, Busy
  <2> QED BY <2>1 DEF FullProc
<1>3. CASE Stat(p)
  <2>1. pc[p] = "stat" /\ pc'[p] \in {"reopen", "contend"} /\ UNCHANGED <<ino, size, param>>
    BY <1>3, <1>a DEF Stat, Goto
  <2> QED BY <1>0, <2>1 DEF FullProc, Busy
<1>4. CASE Contend(p) /\ pc'[p] \in Busy
  <2>1. /\ pc[p] = "contend" /\ ctl = NoProc /\ ~ Moved(p) /\ pc'[p] = "unlink"
        /\ UNCHANGED <<ino, size, param, names>>
    BY <1>4, <1>a DEF Contend, Goto, Busy
  <2>2. ino[p] # 0 /\ inodes # 0
    BY <1>0, <2>1 DEF FullProc, Busy
  <2>3. names[0] # 0
    <3>1. ~ \E q \in Procs : pc[q] = "rename"
      BY <2>1, RotateAssumption DEF CtlInv, CtlProc
    <3> QED BY <2>2, <3>1 DEF FullInv
  <2> QED BY <1>0, <2>1, <2>3 DEF FullProc, Busy, Moved
<1>5. CASE Unlink(p)
  <2>1. pc[p] = "unlink" /\ pc'[p] = "rename" /\ UNCHANGED <<ino, size, param>>
    BY <1>5, <1>a DEF Unlink, Goto
  <2>2. names[0] = ino[p] /\ ino[p] # 0 /\ size[ino[p]] >= param[p].size
    BY <1>0, <2>1 DEF FullProc, Busy
  <2>3. names'[0] = names[0]
    BY <2>1, <2>2, LogStays DEF Rename
  <2> QED BY <2>1, <2>2, <2>3 DEF FullProc
<1>6. CASE Rename(p)
  <2>1. /\ pc[p] = "rename" /\ pc'[p] = "rename" /\ step[p] >= 0
        /\ step'[p] = step[p] - 1 /\ UNCHANGED <<ino, size, param>>
    BY <1>6 DEF Rename, RotateType
  <2>2. names[0] = ino[p] /\ ino[p] # 0 /\ size[ino[p]] >= param[p].size
    BY <1>0, <2>1 DEF FullProc, Busy
  <2>3. step'[p] >= 0 => step[p] # 0
    BY <1>0, <2>1
  <2>4. step'[p] >= 0 => names'[0] = names[0]
    BY <2>2, <2>3, LogStays
  <2> QED BY <2>1, <2>2, <2>4 DEF FullProc
<1>7. CASE \/ Start(p) \/ OpenLog(p) \/ Write(p) \/ ReopenMoved(p) \/ Halt(p)
           \/ Finish(p) \/ Stop(p)
  <2>1. pc'[p] \in {"open", "run", "check", "off"}
    BY <1>7, <1>a DEF Start, OpenLog, Write, ReopenMoved, Halt, Finish, Stop, Goto
  <2> QED BY <1>1, <2>1 DEF Busy
<1>8. ~ ForceRotate(p)
  BY DEF ForceRotate
<1> QED BY <1>1, <1>2, <1>3, <1>4, <1>5, <1>6, <1>7, <1>8 DEF ProcStep

\* What is in the archives after a step was there or was the log file that
\* the process rotates.
LEMMA ArchiveStep ==
    ASSUME NEW p \in Procs, RotateType, NewestInv, ProcStep(p),
           NEW k \in Archives \ {0}, names'[k] # 0
    PROVE  \/ \E j \in Archives \ {0} : names'[k] = names[j]
           \/ names'[k] = names[0] /\ pc[p] = "rename" /\ step[p] = 0
<1>a. names \in [Archives -> 0..inodes] /\ step[p] \in Int
  BY DEF RotateType
<1>0. /\ 0 \in Archives /\ names \in [Archives -> 0..inodes] /\ step[p] \in Int
  BY <1>a, RotateAssumption DEF Archives
<1>1. CASE \/ Start(p) \/ Write(p) \/ CheckSize(p) \/ Stat(p) \/ ForceRotate(p) \/ Halt(p)
           \/ Stop(p)
  BY <1>1 DEF Start, Write, CheckSize, Stat, ForceRotate, Halt, Stop
<1>2. CASE ReopenMoved(p) \/ Contend(p) \/ Finish(p)
  <2>1. names' = names \/ names' = [names EXCEPT ![0] = OpenedInode]
    BY <1>2 DEF ReopenMoved, Contend, Finish, Reopen, Opens
  <2> QED BY <1>0, <2>1
<1>3. CASE OpenLog(p)
  <2> DEFINE nm == [names EXCEPT ![0] = OpenedInode]
  <2>1. names' = nm \/ \E n : names' = Purged(nm, n)
    BY <1>3 DEF OpenLog
  <2>2. nm[k] = names[k]
    BY <1>0
  <2>3. names'[k] \in {0, nm[k]}
    BY <1>0, <2>1, <2>2 DEF Purged
  <2> QED BY <2>2, <2>3
<1>4. CASE Unlink(p)
  BY <1>0, <1>4 DEF Unlink
<1>5. CASE Rename(p)
  <2>1. /\ pc[p] = "rename" /\ step[p] \in Nat
        /\ \/ names' = names
           \/ names' = [names EXCEPT ![step[p] + 1] = names[step[p]], ![step[p]] = 0]
    BY <1>0, <1>5 DEF Rename
  <2>2. CASE k = step[p] + 1
    <3>1. step[p] \in Archives
      BY <2>1, <2>2, RotateAssumption DEF Archives
    <3>2. names'[k] \in {names[k], names[step[p]]}
      BY <1>0, <2>1, <2>2, <3>1
    <3> QED BY <2>1, <3>1, <3>2
  <2>3. CASE k # step[p] + 1
    <3>1. names'[k] \in {names[k], 0}
      BY <1>0, <2>1, <2>3
    <3> QED BY <3>1
  <2> QED BY <2>2, <2>3
<1> QED BY <1>1, <1>2, <1>3, <1>4, <1>5 DEF ProcStep

LEMMA FullStep ==
    RotateType /\ NewestInv /\ CtlInv /\ FullInv /\ [RotateNext]_rotVars => FullInv'
<1> SUFFICES ASSUME RotateType, NewestInv, CtlInv, FullInv, [RotateNext]_rotVars
             PROVE  FullInv'
  OBVIOUS
<1>1. CASE UNCHANGED rotVars
  BY <1>1 DEF rotVars, FullInv, FullProc, OnlyFullArchived
<1>2. ASSUME NEW p \in Procs, ProcStep(p) PROVE FullInv'
  <2>1. odd \subseteq odd'
    BY <1>2 DEF ProcStep, Start, OpenLog, Write, CheckSize, Stat, ReopenMoved, Contend,
       ForceRotate, Unlink, Rename, Halt, Finish, Stop, Reopen
  <2> SUFFICES ASSUME odd' = {} PROVE FullInv'
    BY DEF FullInv
  <2>2. odd = {}
    BY <2>1
  <2>3. \A q \in Procs : FullProc(q)'
    <3>1. \A q \in Procs : FullProc(q)
      BY <2>2 DEF FullInv
    <3> QED BY <1>2, <2>2, <3>1, FullOwn, FullOthers
  <2>4. names'[0] = 0 => \/ inodes' = 0
                         \/ \E q \in Procs : pc'[q] = "rename" /\ step'[q] < 0
    <3> SUFFICES ASSUME names'[0] = 0
                 PROVE  inodes' = 0 \/ \E q \in Procs : pc'[q] = "rename" /\ step'[q] < 0
      OBVIOUS
    <3>1. CASE names[0] # 0
      <4>1. Rename(p) /\ step[p] = 0
        BY <1>2, <3>1, LogStays
      <4>2. pc'[p] = "rename" /\ step'[p] = 0 - 1
        BY <4>1 DEF Rename, RotateType
      <4> QED BY <4>2
    <3>2. CASE names[0] = 0
      <4>1. inodes' = inodes
        BY <1>2, <3>2, LogCreated
      <4>2. CASE inodes = 0
        BY <4>1, <4>2
      <4>3. CASE inodes # 0
        <5>1. PICK q \in Procs : pc[q] = "rename" /\ step[q] < 0
          BY <2>2, <3>2, <4>3 DEF FullInv
        <5>2. CASE q # p
          BY <1>2, <5>1, <5>2, Local
        <5>3. CASE q = p
          <6>1. step[p] \in Int
            BY DEF RotateType
          <6>2. Finish(p)
            BY <1>2, <5>1, <5>3, <6>1 DEF ProcStep, Start, OpenLog, Write, CheckSize, Stat,
               ReopenMoved, Contend, ForceRotate, Unlink, Rename, Halt, Stop
          <6> QED BY <6>2, ReopenSucceeds DEF Finish
        <5> QED BY <5>2, <5>3
      <4> QED BY <4>2, <4>3
    <3> QED BY <3>1, <3>2
  <2>5. ASSUME NEW k \in Archives \ {0}, names'[k] # 0
        PROVE  \E q \in Procs : size'[names'[k]] >= Params[q].size
    <3>0. names'[k] \in 1..MaxInodes
      <4>1. RotateType'
        BY RotateTypeStep
      <4>2. inodes' \in 0..MaxInodes /\ MaxInodes \in Nat /\ names'[k] \in 0..inodes'
        BY <4>1, RotateAssumption DEF RotateType
      <4> QED BY <2>5, <4>2
    <3>1. PICK q \in Procs : size[names'[k]] >= Params[q].size
      <4>1. CASE \E j \in Archives \ {0} : names'[k] = names[j]
        BY <2>2, <2>5, <4>1 DEF FullInv, OnlyFullArchived
      <4>2. CASE names'[k] = names[0] /\ pc[p] = "rename" /\ step[p] = 0
        <5>1. names[0] = ino[p] /\ size[ino[p]] >= param[p].size
          BY <2>2, <4>2 DEF FullInv, FullProc, Busy
        <5>2. \E q \in Procs : param[p] = Params[q]
          BY <4>2 DEF CtlInv, CtlProc
        <5> QED BY <4>2, <5>1, <5>2
      <4> QED BY <1>2, <2>5, <4>1, <4>2, ArchiveStep
    <3>2. size'[names'[k]] >= size[names'[k]] /\ size'[names'[k]] \in Nat /\ size[names'[k]] \in Nat
      BY <1>2, <3>0, SizesGrow
    <3>3. Params[q].size \in Nat
      BY RotateAssumption
    <3> QED BY <3>1, <3>2, <3>3
  <2> QED BY <2>3, <2>4, <2>5 DEF FullInv, OnlyFullArchived
<1> QED BY <1>1, <1>2 DEF RotateNext, ProcStep

-----------------------------------------------------------------------------
(* How far a file can grow                                                 *)

\* A file that is full is not opened by a process that has given it up, and a
\* process that has looked at its size does not write to it again.
LEMMA MayWriteShrinks ==
    ASSUME RotateType, NewestInv, CtlInv, NEW p \in Procs, ProcStep(p), ~ Write(p),
           "failed" \notin odd', NEW P \in Param, Common(P),
           NEW i \in 1..MaxInodes, size[i] >= P.size
    PROVE  MayWrite(i)' \subseteq MayWrite(i)
<1>0. /\ P.size \in Nat \ {0} /\ inodes \in 0..MaxInodes /\ MaxInodes \in Nat
      /\ size[i] \in Nat /\ names[0] \in Nat /\ ino[p] \in 0..inodes
  <2>1. P.size \in Nat \ {0}
    BY DEF Common, Param
  <2>2. inodes \in 0..MaxInodes /\ size[i] \in Nat /\ ino[p] \in 0..inodes
    BY DEF RotateType
  <2>3. MaxInodes \in Nat /\ 0 \in Archives
    BY RotateAssumption DEF Archives
  <2>4. names[0] \in 0..inodes
    BY <2>3 DEF RotateType
  <2> QED BY <2>1, <2>2, <2>3, <2>4
<1>1. i # 0 /\ i # inodes + 1
  <2>1. i <= inodes
    BY <1>0 DEF NewestInv
  <2> QED BY <1>0, <2>1
<1>2. names'[0] = i => names[0] = i
  BY <1>1, LogName
<1>3. ASSUME NEW q \in Procs \ {p}, q \in MayWrite(i)' PROVE q \in MayWrite(i)
  BY <1>2, <1>3, Local DEF MayWrite
<1>4. ASSUME p \in MayWrite(i)' PROVE p \in MayWrite(i)
  <2>0. /\ CtlProc(p)
        /\ (ino'[p] = i /\ pc'[p] = "run") \/ (ino'[p] # i /\ names[0] = i /\ names'[0] = i)
    BY <1>2, <1>4 DEF CtlInv, MayWrite
  <2>1. CASE OpenLog(p)
    <3>1. CanOpen /\ pc[p] = "open" /\ ino'[p] = OpenedInode
      BY <2>1 DEF OpenLog, RotateType
    <3>2. ino[p] = 0
      BY <2>0, <3>1 DEF CtlProc
    <3>3. names[0] = i
      BY <1>1, <2>0, <3>1 DEF OpenedInode
    <3> QED BY <1>1, <3>2, <3>3 DEF MayWrite
  <2>2. CASE ReopenMoved(p) \/ Finish(p) \/ (Contend(p) /\ Moved(p))
    <3>1. Reopen(p)
      BY <2>2 DEF ReopenMoved, Finish, Contend
    <3>2. /\ ino'[p] = names'[0]
          /\ names[0] # 0 => names'[0] = names[0]
          /\ names[0] = 0 => names'[0] = inodes + 1
      BY <3>1, ReopenSucceeds
    <3>3. names[0] = i
      BY <1>1, <2>0, <3>2
    <3>4. ino[p] # i
      BY <1>1, <2>0, <2>2, <3>3 DEF ReopenMoved, Finish, Contend, Moved, CtlProc
    <3> QED BY <3>3, <3>4 DEF MayWrite
  <2>3. CASE CheckSize(p)
    <3>1. pc[p] = "check" /\ UNCHANGED <<ino, names>>
      BY <2>3 DEF CheckSize
    <3>2. param[p] = P
      BY <2>0, <3>1 DEF CtlProc, Common
    <3>3. ino[p] = i => pc'[p] # "run"
      <4>1. P.files \in Nat /\ P.files > 1
        BY DEF Common, Param
      <4>2. ~ (P.files <= 1 \/ P.size = 0)
        BY <1>0, <4>1
      <4> QED BY <2>3, <3>2, <4>2, <1>1 DEF CheckSize, Goto, RotateType
    <3> QED BY <2>0, <3>1, <3>3 DEF MayWrite
  <2>4. CASE Stop(p)
    <3>1. pc[p] = "run" /\ ino'[p] = 0
      BY <2>4 DEF Stop, RotateType
    <3>2. names[0] = i
      BY <1>1, <2>0, <3>1
    <3> QED BY <3>1, <3>2 DEF MayWrite
  <2>5. CASE \/ Start(p) \/ Stat(p) \/ ForceRotate(p) \/ Unlink(p) \/ Rename(p)
             \/ (Contend(p) /\ ~ Moved(p))
    <3>1. UNCHANGED ino
      BY <2>5 DEF Start, Stat, ForceRotate, Unlink, Rename, Contend
    <3>2. pc'[p] # "run"
      BY <2>5 DEF Start, Stat, ForceRotate, Unlink, Rename, Contend, Goto, RotateType
    <3> QED BY <2>0, <3>1, <3>2 DEF MayWrite
  <2>6. ~ Halt(p)
    BY DEF Halt
  <2> QED BY <2>1, <2>2, <2>3, <2>4, <2>5, <2>6 DEF ProcStep
<1>5. MayWrite(i)' \subseteq Procs
  BY DEF MayWrite
<1> QED BY <1>3, <1>4, <1>5

LEMMA MayWriteFinite ==
    \A i : /\ IsFiniteSet(MayWrite(i)) /\ Cardinality(MayWrite(i)) \in Nat
           /\ Cardinality(MayWrite(i)) <= Cardinality(Procs)
<1> TAKE i
<1>1. MayWrite(i) \in SUBSET Procs /\ IsFiniteSet(Procs)
  BY RotateAssumption DEF MayWrite
<1>2. IsFiniteSet(MayWrite(i)) /\ Cardinality(MayWrite(i)) <= Cardinality(Procs)
  BY <1>1, FS_Subset
<1> QED BY <1>2, FS_CardinalityType

\* A write takes the process out of those that may still write.
LEMMA WriteGrows ==
    ASSUME RotateType, NEW p \in Procs, Write(p), NEW i \in 1..MaxInodes
    PROVE  \/ size'[i] = size[i] /\ MayWrite(i)' \subseteq MayWrite(i)
           \/ size'[i] = size[i] + 1 /\ p \in MayWrite(i) /\ MayWrite(i)' = MayWrite(i) \ {p}
<1>0. pc[p] = "run" /\ pc' = [pc EXCEPT ![p] = "check"] /\ UNCHANGED <<ino, names>>
  BY DEF Write, Goto
<1>1. pc'[p] = "check" /\ \A q \in Procs \ {p} : pc'[q] = pc[q]
  BY <1>0 DEF RotateType
<1>2. MayWrite(i)' = IF ino[p] = i THEN MayWrite(i) \ {p} ELSE MayWrite(i)
  BY <1>0, <1>1 DEF MayWrite
<1>3. CASE ino[p] = i
  <2>1. size'[i] = size[i] + 1
    BY <1>3 DEF Write, RotateType
  <2> QED BY <1>0, <1>2, <1>3, <2>1 DEF MayWrite
<1>4. CASE ino[p] # i
  <2>1. size'[i] = size[i]
    BY <1>4 DEF Write, RotateType
  <2> QED BY <1>2, <1>4, <2>1
<1> QED BY <1>3, <1>4

LEMMA GrowStep ==
    RotateType /\ NewestInv /\ CtlInv /\ GrowInv /\ [RotateNext]_rotVars => GrowInv'
<1> SUFFICES ASSUME RotateType, NewestInv, CtlInv, GrowInv, [RotateNext]_rotVars
             PROVE  GrowInv'
  OBVIOUS
<1>1. CASE UNCHANGED rotVars
  BY <1>1 DEF rotVars, GrowInv, MayWrite
<1>2. ASSUME NEW p \in Procs, ProcStep(p) PROVE GrowInv'
  <2>1. odd \subseteq odd'
    BY <1>2 DEF ProcStep, Start, OpenLog, Write, CheckSize, Stat, ReopenMoved, Contend,
       ForceRotate, Unlink, Rename, Halt, Finish, Stop, Reopen
  <2> SUFFICES ASSUME "failed" \notin odd', NEW P \in Param, Common(P),
                      NEW i \in 1..MaxInodes, size'[i] >= P.size
               PROVE  size'[i] + Cardinality(MayWrite(i)') <= P.size + Cardinality(Procs)
    BY DEF GrowInv
  <2> DEFINE n == Cardinality(Procs)  m == Cardinality(MayWrite(i))
             m1 == Cardinality(MayWrite(i)')
  <2>2. /\ size[i] \in Nat /\ size'[i] \in Nat /\ P.size \in Nat
        /\ n \in Nat /\ m \in Nat /\ m1 \in Nat /\ m1 <= n
    <3>1. size[i] \in Nat /\ size'[i] \in Nat
      BY <1>2, SizesGrow
    <3>2. P.size \in Nat
      BY DEF Param
    <3>3. n \in Nat
      BY RotateAssumption, FS_CardinalityType
    <3>a. MayWrite(i)' \in SUBSET Procs /\ IsFiniteSet(Procs)
      BY RotateAssumption DEF MayWrite
    <3>4. m1 \in Nat /\ m1 <= n
      BY <3>a, FS_Subset, FS_CardinalityType
    <3> QED BY <3>1, <3>2, <3>3, <3>4, MayWriteFinite
  <2>3. size[i] >= P.size => size[i] + m <= P.size + n
    BY <2>1 DEF GrowInv
  <2>4. MayWrite(i)' \subseteq MayWrite(i) => m1 <= m
    BY MayWriteFinite, FS_Subset
  <2>5. p \in MayWrite(i) /\ MayWrite(i)' = MayWrite(i) \ {p} => m1 = m - 1
    BY MayWriteFinite, FS_RemoveElement
  <2> HIDE DEF n, m, m1
  <2>6. CASE ~ Write(p)
    <3>1. size'[i] = size[i]
      BY <1>2, <2>6 DEF ProcStep, Start, OpenLog, CheckSize, Stat, ReopenMoved, Contend,
         ForceRotate, Unlink, Rename, Halt, Finish, Stop
    <3>2. m1 <= m
      BY <1>2, <2>4, <2>6, <3>1, MayWriteShrinks
    <3>3. size'[i] + m1 <= P.size + n
      BY <2>2, <2>3, <3>1, <3>2
    <3> QED BY <3>3 DEF n, m1
  <2>7. CASE Write(p)
    <3>1. \/ size'[i] = size[i] /\ m1 <= m
          \/ size'[i] = size[i] + 1 /\ m1 = m - 1
      BY <2>4, <2>5, <2>7, WriteGrows
    <3>2. size'[i] + m1 <= P.size + n
      BY <2>2, <2>3, <3>1
    <3> QED BY <3>2 DEF n, m1
  <2> QED BY <2>6, <2>7
<1> QED BY <1>1, <1>2 DEF RotateNext, ProcStep

-----------------------------------------------------------------------------
(* The theorems                                                            *)

RotateInv == RotateType /\ NewestInv /\ CtlInv /\ FullInv /\ GrowInv

LEMMA RotateInvInit == RotateInit => RotateInv
<1> SUFFICES ASSUME RotateInit PROVE RotateInv
  OBVIOUS
<1>0. 0 \in Archives /\ MaxInodes \in Nat
  BY RotateAssumption DEF Archives
<1>1. RotateType
  BY RotateTypeInit
<1>2. NewestInv
  BY <1>0 DEF RotateInit, NewestInv, ArchivesInOrder
<1>3. CtlInv
  BY <1>0 DEF RotateInit, CtlInv, CtlProc, Busy
<1>4. FullInv
  BY <1>0 DEF RotateInit, FullInv, FullProc, OnlyFullArchived, Busy
<1>5. GrowInv
  <2>1. \A P \in Param : Common(P) => P.size \in Nat \ {0}
    BY DEF Common, Param
  <2>2. \A i \in 1..MaxInodes : size[i] = 0
    BY DEF RotateInit
  <2>3. \A P \in Param : Common(P) => \A i \in 1..MaxInodes : ~ (size[i] >= P.size)
    BY <2>1, <2>2
  <2> QED BY <2>3 DEF GrowInv
<1> QED BY <1>1, <1>2, <1>3, <1>4, <1>5 DEF RotateInv

LEMMA RotateInvStep == RotateInv /\ [RotateNext]_rotVars => RotateInv'
BY RotateTypeStep, NewestStep, CtlStep, FullStep, GrowStep DEF RotateInv

LEMMA RotateInvAlways == RotateSpec => []RotateInv
BY RotateInvInit, RotateInvStep, PTL DEF RotateSpec

\* The archives are in the order of their creation and no file has two names
\* (_thr_rotate_logs, _thr_purge_logs), whatever is forced, fails or is opened
\* without the lock of the control file meanwhile.
THEOREM ArchivesAlwaysInOrder == RotateSpec => []ArchivesInOrder
BY RotateInvAlways, PTL DEF RotateInv, NewestInv

\* A size-triggered rotation (_thr_rotate_logs) archives only files that are
\* full, for any number of processes and parameters: the stat() under the lock
\* of the control file is enough to keep two of them from rotating twice.
THEOREM OnlyFullAlwaysArchived == RotateSpec => []OnlyFullArchived
<1>1. FullInv => OnlyFullArchived
  BY DEF FullInv, OnlyFullArchived
<1> QED BY <1>1, RotateInvAlways, PTL DEF RotateInv

\* N processes write at most N units of 1024 bytes beyond the maximum size to
\* a log file (the comment at _thr_rotate_logs), rotated or not, forced
\* rotations included.
THEOREM SizeAlwaysBounded == RotateSpec => []SizeBounded
<1>1. RotateType /\ GrowInv => SizeBounded
  <2> SUFFICES ASSUME RotateType, GrowInv, "failed" \notin odd, NEW i \in 1..MaxInodes,
                      NEW p \in Procs, \A q \in Procs : Params[q] = Params[p],
                      Params[p].files > 1, Params[p].size # 0
               PROVE  size[i] <= Params[p].size + Cardinality(Procs)
    BY DEF SizeBounded
  <2> DEFINE s == Params[p].size  n == Cardinality(Procs)  m == Cardinality(MayWrite(i))
  <2>1. Params[p] \in Param /\ Common(Params[p])
    BY RotateAssumption DEF Param, Common
  <2>2. s \in Nat /\ n \in Nat /\ m \in Nat /\ size[i] \in Nat
    <3>1. s \in Nat /\ size[i] \in Nat
      BY RotateAssumption DEF RotateType
    <3>2. n \in Nat
      BY RotateAssumption, FS_CardinalityType
    <3> QED BY <3>1, <3>2, MayWriteFinite
  <2>3. size[i] >= s => size[i] + m <= s + n
    BY <2>1 DEF GrowInv
  <2> HIDE DEF s, n, m
  <2>4. size[i] <= s + n
    BY <2>2, <2>3
  <2> QED BY <2>4 DEF s, n
<1> QED BY <1>1, RotateInvAlways, PTL DEF RotateInv

-----------------------------------------------------------------------------
(* The ring buffer                                                         *)

\* An index of the buffer, and what becomes of one that is past the end.
Slots == 0..(Size - 1)
Wrap(i) == IF i >= Size THEN i - Size ELSE i

\* The first k messages of s have S[k] units; together they leave one free.
Sums(S, s) ==
    /\ S \in [0..Len(s) -> Slots] /\ S[0] = 0
    /\ \A k \in 1..Len(s) : S[k] = S[k - 1] + s[k].msglen
    /\ \A j, k \in 0..Len(s) : j < k => S[j] < S[k]

\* The messages of s follow one another in the buffer b from the index r on.
Holds(S, s, b, r) ==
    \A k \in 1..Len(s) : \A u \in 0..(s[k].msglen - 1) :
        b[Wrap(r + S[k - 1] + u)] = <<s[k], u>>

Whole(g) == \A u \in DOMAIN g : g[u] = <<g[0][1], u>> /\ g[u][1].id # 0

RingInv ==
    /\ wridx \in Slots /\ rdidx \in Slots /\ puts \in 0..MaxPuts /\ fifo \in Seq(Message)
    /\ Whole(got)
    /\ \E S : /\ Sums(S, fifo) /\ wridx = Wrap(rdidx + S[Len(fifo)])
              /\ Holds(S, fifo, buf, rdidx)

LEMMA Least ==
    ASSUME NEW T \in SUBSET Nat, T # {}
    PROVE  \E x \in T : \A y \in T : x <= y
<1> DEFINE R == {ss \in Nat \X Nat : ss[1] < ss[2]}
<1>1. IsWellFoundedOn(R, Nat)
  BY NatLessThanWellFounded, Zenon DEF OpToRel
<1>2. \A x, y \in Nat : y < x => <<y, x>> \in R
  OBVIOUS
<1> HIDE DEF R
<1>3. PICK x \in T : \A y \in T : ~ (<<y, x>> \in R)
  BY <1>1, WFMin
<1>4. ASSUME NEW y \in T PROVE x <= y
  <2>1. x \in Nat /\ y \in Nat
    OBVIOUS
  <2>2. ~ (y < x)
    BY <2>1, <1>2, <1>3
  <2> QED BY <2>1, <2>2
<1> QED BY <1>4

\* Two functions that begin alike and go on alike are the same.
Follows(f, g, n) == f[0] = g[0] /\ \A k \in 1..n : f[k - 1] = g[k - 1] => f[k] = g[k]
Alike(f, g, n) == \A k \in 0..n : f[k] = g[k]

LEMMA GoOnAlike ==
    ASSUME NEW n \in Nat, NEW f, NEW g, Follows(f, g, n)
    PROVE  Alike(f, g, n)
<1> DEFINE T == {k \in 0..n : f[k] # g[k]}
<1> SUFFICES ASSUME T # {} PROVE FALSE
  BY DEF Alike
<1>1. PICK k \in T : \A j \in T : k <= j
  <2>1. T \in SUBSET Nat
    OBVIOUS
  <2> HIDE DEF T
  <2> QED BY <2>1, Least
<1>2. k \in 0..n /\ f[k] # g[k] /\ k # 0
  BY <1>1 DEF Follows
<1>3. k \in 1..n /\ k - 1 \in 0..n /\ ~ (k <= k - 1)
  BY <1>2
<1>4. k - 1 \notin T
  BY <1>1, <1>3
<1> QED BY <1>2, <1>3, <1>4 DEF Follows

LEMMA Sizes == Size \in Nat /\ Size > 0 /\ \A i \in Int : i \in Slots <=> 0 <= i /\ i < Size
BY RingAssumption DEF Slots

LEMMA SumInt ==
    ASSUME NEW s \in Seq(Message), NEW S, Sums(S, s), NEW i \in 0..Len(s)
    PROVE  S[i] \in Int /\ S[i] \in Slots /\ 0 <= S[i] /\ S[i] < Size /\ S[i] <= S[Len(s)]
<1>1. \A k \in 0..Len(s) : S[k] \in Slots
  BY DEF Sums
<1>2. \A k \in 0..Len(s) : S[k] \in Int
  BY <1>1 DEF Slots
<1>3. Len(s) \in 0..Len(s) /\ (i = Len(s) \/ i < Len(s))
  OBVIOUS
<1>4. S[i] <= S[Len(s)]
  BY <1>2, <1>3 DEF Sums
<1> QED BY <1>1, <1>2, <1>4, Sizes

LEMMA Indices ==
    /\ \A i \in 0..(2 * Size - 1) : i % Size = Wrap(i) /\ Wrap(i) \in Slots
    /\ \A i \in Slots, n \in 1..(Size - 1) : Advance(i, n) = Wrap(i + n) /\ Advance(i, n) \in Slots
    /\ \A i, a, n \in Slots : a + n < Size => Wrap(Wrap(i + a) + n) = Wrap(i + a + n)
<1>1. Size \in Nat /\ Size > 0
  BY RingAssumption
<1>2. ASSUME NEW i \in 0..(2 * Size - 1) PROVE i % Size = Wrap(i) /\ Wrap(i) \in Slots
  <2>1. CASE i >= Size
    BY <1>1, <2>1 DEF Wrap, Slots
  <2>2. CASE ~ (i >= Size)
    BY <1>1, <2>2 DEF Wrap, Slots
  <2> QED BY <2>1, <2>2
<1>3. ASSUME NEW i \in Slots, NEW n \in 1..(Size - 1)
      PROVE  Advance(i, n) = Wrap(i + n) /\ Advance(i, n) \in Slots
  BY <1>1, <1>3 DEF Advance, Wrap, Slots
<1>4. ASSUME NEW i \in Slots, NEW a \in Slots, NEW n \in Slots, a + n < Size
      PROVE  Wrap(Wrap(i + a) + n) = Wrap(i + a + n)
  BY <1>1, <1>4 DEF Wrap, Slots
<1> QED BY <1>2, <1>3, <1>4

LEMMA Apart ==
    ASSUME NEW i \in Slots, NEW a \in Slots, NEW b \in Slots, a < b
    PROVE  Wrap(i + a) # Wrap(i + b)
BY Sizes DEF Slots, Wrap

\* The message lengths of a queue.
LEMMA MessageLength ==
    ASSUME NEW s \in Seq(Message), NEW k \in 1..Len(s)
    PROVE  s[k] \in Message /\ s[k].msglen \in 1..(Size - 1) /\ s[k].id # 0 /\ s[k].id \in Nat
<1>1. s[k] \in Message
  OBVIOUS
<1>2. s[k].id \in 1..MaxPuts /\ s[k].msglen \in Lengths
  BY <1>1 DEF Message
<1>3. s[k].msglen \in 1..(Size - 1)
  BY <1>2, RingAssumption
<1> QED BY <1>1, <1>2, <1>3

\* The recursive sum.
LEMMA TotalIs ==
    ASSUME NEW s \in Seq(Message), NEW S, Sums(S, s)
    PROVE  Total(s) = S[Len(s)]
<1> DEFINE n == Len(s)
           Body(f, i) == IF i = 0 THEN 0 ELSE f[i - 1] + s[i].msglen
           f == CHOOSE f : f = [i \in 0..n |-> Body(f, i)]
<1>0. n \in Nat
  OBVIOUS
<1>1. S = [i \in 0..n |-> Body(S, i)]
  <2>1. S = [i \in 0..n |-> S[i]]
    BY DEF Sums
  <2>2. ASSUME NEW i \in 0..n PROVE S[i] = Body(S, i)
    BY <1>0 DEF Sums
  <2> HIDE DEF Body
  <2> QED BY <2>1, <2>2
<1>2. f = [i \in 0..n |-> Body(f, i)]
  <2> HIDE DEF Body
  <2> QED BY <1>1, Zenon
<1>3. Total(s) = f[n]
  BY DEF Total
<1> HIDE DEF f
<1>4. \A i \in 0..n : f[i] = Body(f, i) /\ S[i] = Body(S, i)
  <2> HIDE DEF Body
  <2> QED BY <1>1, <1>2, Zenon
<1>5. f[0] = S[0]
  BY <1>0, <1>4
<1>6. ASSUME NEW k \in 1..n, f[k - 1] = S[k - 1] PROVE f[k] = S[k]
  <2>1. k \in 0..n /\ k # 0
    BY <1>0
  <2> QED BY <1>4, <1>6, <2>1
<1>7. \A k \in 0..n : f[k] = S[k]
  <2>1. Follows(f, S, n)
    <3> HIDE DEF Body
    <3> QED BY <1>5, <1>6 DEF Follows
  <2>2. Alike(f, S, n)
    BY <1>0, <2>1, GoOnAlike
  <2> QED BY <2>2 DEF Alike
<1> QED BY <1>0, <1>3, <1>7

\* What is left of a queue when its first n messages are dropped.
LEMMA RestSums ==
    ASSUME NEW s \in Seq(Message), NEW S, Sums(S, s), NEW n \in 0..Len(s)
    PROVE  LET t == SubSeq(s, n + 1, Len(s))
               R == [i \in 0..(Len(s) - n) |-> S[n + i] - S[n]]
           IN  /\ t \in Seq(Message) /\ Len(t) = Len(s) - n
               /\ \A k \in 1..Len(t) : t[k] = s[n + k]
               /\ Sums(R, t)
<1> DEFINE t == SubSeq(s, n + 1, Len(s))
           R == [i \in 0..(Len(s) - n) |-> S[n + i] - S[n]]
<1>0. Len(s) \in Nat /\ n \in Nat /\ Size \in Nat
  BY RingAssumption
<1>1. t \in Seq(Message) /\ Len(t) = Len(s) - n /\ \A k \in 1..Len(t) : t[k] = s[n + k]
  BY <1>0
<1> HIDE DEF t
<1>2. ASSUME NEW i \in 0..(Len(s) - n)
      PROVE  n + i \in 0..Len(s) /\ S[n + i] \in Slots /\ S[n] \in Slots /\ S[n + i] - S[n] \in Slots
  <2>1. n + i \in 0..Len(s) /\ n \in 0..Len(s) /\ (i = 0 \/ n < n + i)
    BY <1>0
  <2>2. /\ S[n + i] \in Slots /\ S[n] \in Slots /\ S[n + i] \in Int /\ S[n] \in Int
        /\ S[n + i] < Size /\ 0 <= S[n]
    BY <2>1, SumInt
  <2>3. S[n] <= S[n + i]
    BY <2>1, <2>2 DEF Sums
  <2> QED BY <2>1, <2>2, <2>3, Sizes
<1>3. R \in [0..Len(t) -> Slots] /\ R[0] = 0
  <2>1. R \in [0..Len(t) -> Slots]
    BY <1>1, <1>2
  <2>2. 0 \in 0..(Len(s) - n) /\ n + 0 = n /\ S[n] \in Int
    BY <1>0, SumInt
  <2> QED BY <2>1, <2>2
<1>4. \A i \in 0..(Len(s) - n) : R[i] = S[n + i] - S[n]
  OBVIOUS
<1> HIDE DEF R
<1>5. ASSUME NEW k \in 1..Len(t) PROVE R[k] = R[k - 1] + t[k].msglen
  <2>1. k \in 0..(Len(s) - n) /\ k - 1 \in 0..(Len(s) - n) /\ n + k \in 1..Len(s)
        /\ (n + k) - 1 = n + (k - 1)
    BY <1>0, <1>1
  <2>2. S[n + k] = S[n + (k - 1)] + s[n + k].msglen
    BY <2>1 DEF Sums
  <2>3. s[n + k].msglen \in Int
    BY <2>1, MessageLength
  <2>4. S[n] \in Int /\ S[n + (k - 1)] \in Int /\ n + (k - 1) \in 0..Len(s)
    BY <1>2, <2>1, SumInt
  <2>5. R[k] = S[n + k] - S[n] /\ R[k - 1] = S[n + (k - 1)] - S[n] /\ t[k] = s[n + k]
    BY <1>1, <1>4, <2>1, Zenon
  <2> QED BY <2>2, <2>3, <2>4, <2>5
<1>6. ASSUME NEW j \in 0..Len(t), NEW k \in 0..Len(t), j < k PROVE R[j] < R[k]
  <2>1. j \in 0..(Len(s) - n) /\ k \in 0..(Len(s) - n) /\ n + j < n + k
    BY <1>0, <1>1, <1>6
  <2>2. S[n + j] < S[n + k]
    BY <1>2, <2>1 DEF Sums
  <2>3. S[n] \in Int /\ S[n + j] \in Int /\ S[n + k] \in Int
    BY <1>2, <2>1, SumInt
  <2> QED BY <1>4, <2>1, <2>2, <2>3
<1> QED BY <1>1, <1>3, <1>5, <1>6 DEF Sums, t, R

\* A message at the end of a queue.
LEMMA AppendSums ==
    ASSUME NEW s \in Seq(Message), NEW S, Sums(S, s), NEW m \in Message,
           S[Len(s)] + m.msglen < Size
    PROVE  LET t == Append(s, m)
               R == [i \in 0..Len(t) |-> IF i = Len(t) THEN S[Len(s)] + m.msglen ELSE S[i]]
           IN  /\ t \in Seq(Message) /\ Len(t) = Len(s) + 1 /\ t[Len(t)] = m
               /\ \A k \in 1..Len(s) : t[k] = s[k]
               /\ Sums(R, t)
<1> DEFINE n == Len(s)
           t == Append(s, m)
           R == [i \in 0..Len(t) |-> IF i = Len(t) THEN S[n] + m.msglen ELSE S[i]]
<1>0. n \in Nat /\ Size \in Nat
  BY RingAssumption
<1>1. /\ t \in Seq(Message) /\ Len(t) = n + 1 /\ t[n + 1] = m
      /\ \A k \in 1..n : t[k] = s[k]
  BY <1>0
<1> HIDE DEF t
<1>2. m.msglen \in 1..(Size - 1)
  <2>1. m.msglen \in Lengths
    BY DEF Message
  <2> QED BY <2>1, RingAssumption
<1>3. \A i \in 0..n : S[i] \in Int /\ 0 <= S[i] /\ S[i] \in Slots /\ S[i] <= S[n]
  BY SumInt
<1>4. \A i \in 0..n : R[i] = S[i]
  BY <1>0, <1>1
<1>5. R[n + 1] = S[n] + m.msglen /\ DOMAIN R = 0..(n + 1) /\ R = [i \in 0..(n + 1) |-> R[i]]
  BY <1>0, <1>1
<1> HIDE DEF R
<1>6. ASSUME NEW i \in 0..(n + 1) PROVE R[i] \in Slots
  <2>1. CASE i \in 0..n
    BY <1>3, <1>4, <2>1
  <2>2. CASE i = n + 1
    <3>1. n \in 0..n
      BY <1>0
    <3>2. S[n] \in Int /\ 0 <= S[n]
      BY <1>3, <3>1
    <3> QED BY <1>2, <1>5, <2>2, <3>2, Sizes
  <2> QED BY <1>0, <2>1, <2>2
<1>7. R \in [0..(n + 1) -> Slots] /\ R[0] = 0
  BY <1>0, <1>4, <1>5, <1>6 DEF Sums
<1>8. ASSUME NEW k \in 1..(n + 1) PROVE R[k] = R[k - 1] + t[k].msglen
  <2>1. CASE k \in 1..n
    <3>1. k \in 0..n /\ k - 1 \in 0..n
      BY <1>0, <2>1
    <3> QED BY <1>1, <1>4, <2>1, <3>1 DEF Sums
  <2>2. CASE k = n + 1
    <3>1. n \in 0..n /\ k - 1 = n
      BY <1>0, <2>2
    <3> QED BY <1>1, <1>4, <1>5, <2>2, <3>1
  <2> QED BY <1>0, <2>1, <2>2
<1>9. ASSUME NEW j \in 0..(n + 1), NEW k \in 0..(n + 1), j < k PROVE R[j] < R[k]
  <2>1. j \in 0..n
    BY <1>0, <1>9
  <2>2. CASE k \in 0..n
    BY <1>4, <1>9, <2>1, <2>2 DEF Sums
  <2>3. CASE k = n + 1
    <3>1. S[j] \in Int /\ S[j] <= S[n] /\ n \in 0..n
      BY <1>0, <1>3, <2>1
    <3>2. S[n] \in Int
      BY <1>3, <3>1
    <3>3. R[j] = S[j] /\ R[k] = S[n] + m.msglen
      BY <1>4, <1>5, <2>1, <2>3, Zenon
    <3>4. m.msglen \in Int /\ m.msglen > 0
      BY <1>2, Sizes
    <3> QED BY <3>1, <3>2, <3>3, <3>4
  <2> QED BY <1>0, <2>2, <2>3
<1> QED BY <1>1, <1>7, <1>8, <1>9 DEF Sums, t, R

\* The read index after dropping k messages; who has none left stays.
LEMMA DiscardedIs ==
    ASSUME RingInv, NEW S, Sums(S, fifo), wridx = Wrap(rdidx + S[Len(fifo)]),
           Holds(S, fifo, buf, rdidx), NEW k \in 0..Size
    PROVE  Discarded[k] = IF k <= Len(fifo) THEN Wrap(rdidx + S[k]) ELSE wridx
<1> DEFINE n == Len(fifo)
           at(i) == IF i <= n THEN Wrap(rdidx + S[i]) ELSE wridx
           g == [i \in 0..Size |-> at(i)]
           Body(f, i) == IF i = 0 THEN rdidx
                         ELSE IF f[i - 1] = wridx THEN wridx
                         ELSE Advance(f[i - 1], buf[f[i - 1]][1].msglen)
           f == CHOOSE f : f = [i \in 0..Size |-> Body(f, i)]
<1>0. n \in Nat /\ fifo \in Seq(Message) /\ rdidx \in Slots
  BY DEF RingInv
<1>1. ASSUME NEW i \in 0..Size PROVE g[i] = Body(g, i)
  <2>0. g[i] = at(i) /\ (i # 0 => i - 1 \in 0..Size /\ g[i - 1] = at(i - 1))
    BY Sizes
  <2> HIDE DEF g
  <2>1. CASE i = 0
    <3>1. S[0] = 0 /\ 0 <= n /\ rdidx + 0 = rdidx /\ Wrap(rdidx) = rdidx
      BY <1>0, Sizes DEF Sums, Slots, Wrap
    <3> QED BY <2>0, <2>1, <3>1
  <2>2. CASE i # 0 /\ i - 1 < n
    <3>1. i \in 1..n /\ i - 1 \in 0..n /\ i \in 0..n /\ n \in 0..n
      BY <1>0, <2>2, Sizes
    <3>2. /\ fifo[i].msglen \in 1..(Size - 1) /\ S[i] = S[i - 1] + fifo[i].msglen
          /\ S[i - 1] < S[n]
      BY <1>0, <2>2, <3>1, MessageLength DEF Sums
    <3>3. /\ S[i - 1] \in Slots /\ S[i] < Size /\ S[i - 1] \in Int /\ S[n] \in Int /\ 0 <= S[i - 1]
          /\ S[n] < Size
      BY <1>0, <3>1, SumInt
    <3>4. g[i - 1] = Wrap(rdidx + S[i - 1]) /\ g[i] = Wrap(rdidx + S[i])
      BY <1>0, <2>0, <2>2, <3>1
    <3>5. buf[Wrap(rdidx + S[i - 1])][1].msglen = fifo[i].msglen
      <4>1. 0 \in 0..(fifo[i].msglen - 1) /\ rdidx + S[i - 1] + 0 = rdidx + S[i - 1]
        BY <1>0, <3>2, <3>3, Sizes DEF Slots
      <4>2. buf[Wrap(rdidx + S[i - 1] + 0)] = <<fifo[i], 0>>
        BY <3>1, <4>1 DEF Holds
      <4> QED BY <4>1, <4>2
    <3>6. Wrap(rdidx + S[i - 1]) # wridx
      <4>1. S[n] \in Slots
        BY <3>1, <1>0, SumInt
      <4> QED BY <1>0, <3>2, <3>3, <4>1, Apart
    <3>7. Wrap(rdidx + S[i - 1]) \in Slots
      BY <1>0, <3>3, Sizes DEF Slots, Wrap
    <3>8. Wrap(Wrap(rdidx + S[i - 1]) + fifo[i].msglen) = Wrap(rdidx + S[i - 1] + fifo[i].msglen)
      <4>1. fifo[i].msglen \in Slots /\ S[i - 1] + fifo[i].msglen < Size
        BY <3>2, <3>3, Sizes DEF Slots
      <4> QED BY <1>0, <3>3, <4>1, Indices
    <3>9. rdidx + S[i - 1] + fifo[i].msglen = rdidx + S[i]
      BY <1>0, <3>2, <3>3 DEF Slots
    <3> QED BY <2>2, <3>2, <3>4, <3>5, <3>6, <3>7, <3>8, <3>9, Indices
  <2>3. CASE i # 0 /\ ~ (i - 1 < n)
    <3>1. g[i - 1] = wridx /\ g[i] = wridx
      <4>1. ~ (i <= n) /\ (i - 1 = n \/ ~ (i - 1 <= n))
        BY <1>0, <2>3, Sizes
      <4>2. i - 1 <= n => i - 1 = n
        BY <1>0, <2>3, <4>1, Sizes
      <4> QED BY <2>0, <2>3, <4>1, <4>2
    <3> QED BY <2>3, <3>1
  <2> QED BY <2>1, <2>2, <2>3
<1>2. g = [i \in 0..Size |-> Body(g, i)]
  <2>1. g = [i \in 0..Size |-> g[i]]
    OBVIOUS
  <2> HIDE DEF g, Body
  <2> QED BY <1>1, <2>1
<1>3. f = [i \in 0..Size |-> Body(f, i)]
  <2> HIDE DEF Body, g
  <2> QED BY <1>2, Zenon
<1>4. Discarded = f
  BY DEF Discarded
<1>5. g[k] = at(k)
  OBVIOUS
<1> HIDE DEF f, g
<1>6. \A i \in 0..Size : f[i] = Body(f, i) /\ g[i] = Body(g, i)
  <2> HIDE DEF Body
  <2> QED BY <1>2, <1>3, Zenon
<1>7. f[0] = g[0]
  BY <1>6, Sizes
<1>8. ASSUME NEW i \in 1..Size, f[i - 1] = g[i - 1] PROVE f[i] = g[i]
  <2>1. i \in 0..Size /\ i # 0
    BY Sizes
  <2> QED BY <1>6, <1>8, <2>1
<1>9. \A i \in 0..Size : f[i] = g[i]
  <2> HIDE DEF Body
  <2>1. Size \in Nat
    BY Sizes
  <2>2. Follows(f, g, Size)
    BY <1>7, <1>8, Zenon DEF Follows
  <2>3. Alike(f, g, Size)
    BY <2>1, <2>2, GoOnAlike
  <2> QED BY <2>3 DEF Alike
<1> QED BY <1>4, <1>5, <1>9

\* What RingSpace makes of the indices of n units in the ring.
LEMMA SpaceIs ==
    ASSUME NEW r \in Slots, NEW n \in Slots
    PROVE  RingSpace(Wrap(r + n), r) = Size - n /\ (Wrap(r + n) = r <=> n = 0)
BY Sizes DEF RingSpace, Wrap, Slots

\* The invariant says what the property says.
LEMMA RingInvFifo == RingInv => RingIsFifo
<1> SUFFICES ASSUME RingInv PROVE RingIsFifo
  OBVIOUS
<1> DEFINE n == Len(fifo)
           Body(f, k) == IF k = 0 THEN rdidx ELSE Advance(f[k - 1], fifo[k].msglen)
           pos == CHOOSE f : f = [k \in 0..n |-> Body(f, k)]
<1>0. n \in Nat /\ fifo \in Seq(Message) /\ rdidx \in Slots /\ Whole(got)
  BY DEF RingInv
<1>1. PICK S : /\ Sums(S, fifo) /\ wridx = Wrap(rdidx + S[n]) /\ Holds(S, fifo, buf, rdidx)
  BY DEF RingInv
<1> DEFINE g == [k \in 0..n |-> Wrap(rdidx + S[k])]
<1>2. ASSUME NEW k \in 0..n PROVE g[k] = Body(g, k)
  <2>0. g[k] = Wrap(rdidx + S[k]) /\ (k # 0 => k - 1 \in 0..n /\ g[k - 1] = Wrap(rdidx + S[k - 1]))
    BY <1>0
  <2> HIDE DEF g
  <2>1. CASE k = 0
    <3>1. S[0] = 0 /\ rdidx + 0 = rdidx /\ Wrap(rdidx) = rdidx
      BY <1>0, <1>1, Sizes DEF Sums, Slots, Wrap
    <3> QED BY <2>0, <2>1, <3>1
  <2>2. CASE k # 0
    <3>1. k \in 1..n /\ k - 1 \in 0..n
      BY <1>0, <2>2
    <3>2. fifo[k].msglen \in 1..(Size - 1) /\ S[k] = S[k - 1] + fifo[k].msglen
      BY <1>0, <1>1, <3>1, MessageLength DEF Sums
    <3>3. S[k - 1] \in Slots /\ S[k - 1] \in Int /\ S[k] < Size /\ 0 <= S[k - 1]
      BY <1>0, <1>1, <3>1, SumInt
    <3>4. Wrap(rdidx + S[k - 1]) \in Slots
      BY <1>0, <3>3, Sizes DEF Slots, Wrap
    <3>5. Wrap(Wrap(rdidx + S[k - 1]) + fifo[k].msglen) = Wrap(rdidx + S[k - 1] + fifo[k].msglen)
      <4>1. fifo[k].msglen \in Slots /\ S[k - 1] + fifo[k].msglen < Size
        BY <3>2, <3>3, Sizes DEF Slots
      <4> QED BY <1>0, <3>3, <4>1, Indices
    <3>6. rdidx + S[k - 1] + fifo[k].msglen = rdidx + S[k]
      BY <1>0, <3>2, <3>3 DEF Slots
    <3> QED BY <2>0, <2>2, <3>2, <3>4, <3>5, <3>6, Indices
  <2> QED BY <2>1, <2>2
<1>3. g = [k \in 0..n |-> Body(g, k)]
  <2>1. g = [k \in 0..n |-> g[k]]
    OBVIOUS
  <2> HIDE DEF g, Body
  <2> QED BY <1>2, <2>1
<1>4. pos = [k \in 0..n |-> Body(pos, k)]
  <2> HIDE DEF Body, g
  <2> QED BY <1>3, Zenon
<1>5. \A k \in 0..n : g[k] = Wrap(rdidx + S[k])
  OBVIOUS
<1> HIDE DEF g
<1>6. \A k \in 0..n : pos[k] = g[k]
  <2> HIDE DEF pos
  <2>1. \A k \in 0..n : pos[k] = Body(pos, k) /\ g[k] = Body(g, k)
    <3> HIDE DEF Body
    <3> QED BY <1>2, <1>4, Zenon
  <2>2. pos[0] = g[0]
    BY <1>0, <2>1
  <2>3. ASSUME NEW k \in 1..n, pos[k - 1] = g[k - 1] PROVE pos[k] = g[k]
    <3>1. k \in 0..n /\ k # 0
      BY <1>0
    <3> QED BY <2>1, <2>3, <3>1
  <2> HIDE DEF Body
  <2>4. Follows(pos, g, n)
    BY <2>2, <2>3, Zenon DEF Follows
  <2>5. Alike(pos, g, n)
    BY <1>0, <2>4, GoOnAlike
  <2> QED BY <2>5 DEF Alike
<1>7. pos[n] = wridx
  BY <1>0, <1>1, <1>5, <1>6
<1>8. (wridx = rdidx) <=> (fifo = <<>>)
  <2>1. S[n] \in Slots /\ S[n] \in Int /\ (n = 0 <=> S[n] = 0)
    <3>1. S[0] = 0 /\ (0 < n => S[0] < S[n]) /\ n \in 0..n
      BY <1>0, <1>1 DEF Sums
    <3>2. S[n] \in Slots /\ S[n] \in Int
      BY <1>0, <1>1, <3>1, SumInt
    <3> QED BY <1>0, <3>1, <3>2
  <2>2. n = 0 <=> fifo = <<>>
    BY <1>0
  <2> QED BY <1>0, <1>1, <2>1, <2>2, SpaceIs
<1>9. ASSUME NEW k \in 1..n, NEW u \in 0..(fifo[k].msglen - 1)
      PROVE  buf[(pos[k - 1] + u) % Size] = <<fifo[k], u>>
  <2>1. k - 1 \in 0..n /\ k \in 0..n
    BY <1>0
  <2>2. fifo[k].msglen \in 1..(Size - 1) /\ S[k] = S[k - 1] + fifo[k].msglen
    BY <1>0, <1>1, MessageLength DEF Sums
  <2>3. S[k - 1] \in Slots /\ S[k - 1] \in Int /\ S[k] < Size /\ 0 <= S[k - 1]
    BY <1>0, <1>1, <2>1, SumInt
  <2>4. u \in Slots /\ S[k - 1] + u < Size
    BY <2>2, <2>3, Sizes DEF Slots
  <2>5. pos[k - 1] = Wrap(rdidx + S[k - 1])
    BY <1>5, <1>6, <2>1
  <2> HIDE DEF pos
  <2>6. pos[k - 1] \in Slots
    BY <1>0, <2>3, <2>5, Sizes DEF Slots, Wrap
  <2>7. pos[k - 1] + u \in 0..(2 * Size - 1)
    BY <2>4, <2>6, Sizes DEF Slots
  <2>8. (pos[k - 1] + u) % Size = Wrap(rdidx + S[k - 1] + u)
    BY <1>0, <2>3, <2>4, <2>5, <2>7, Indices
  <2>9. buf[Wrap(rdidx + S[k - 1] + u)] = <<fifo[k], u>>
    BY <1>1 DEF Holds
  <2> QED BY <2>8, <2>9
<1> HIDE DEF pos
<1>10. /\ pos[n] = wridx
       /\ (wridx = rdidx) <=> (fifo = <<>>)
       /\ \A u \in DOMAIN got : got[u] = <<got[0][1], u>> /\ got[u][1].id # 0
       /\ \A k \in 1..n : \A u \in 0..(fifo[k].msglen - 1) :
             buf[(pos[k - 1] + u) % Size] = <<fifo[k], u>>
  BY <1>0, <1>7, <1>8, <1>9 DEF Whole
<1> QED BY <1>10 DEF RingIsFifo, pos

\* The ring after its first n messages are dropped.
LEMMA DropHolds ==
    ASSUME NEW s \in Seq(Message), NEW S, Sums(S, s), NEW b, NEW r \in Slots, Holds(S, s, b, r),
           NEW n \in 0..Len(s)
    PROVE  LET t == SubSeq(s, n + 1, Len(s))
               R == [i \in 0..(Len(s) - n) |-> S[n + i] - S[n]]
               q == Wrap(r + S[n])
           IN  /\ t \in Seq(Message) /\ Sums(R, t) /\ q \in Slots
               /\ R[Len(t)] = S[Len(s)] - S[n]
               /\ Wrap(q + R[Len(t)]) = Wrap(r + S[Len(s)])
               /\ Holds(R, t, b, q)
<1> DEFINE t == SubSeq(s, n + 1, Len(s))
           R == [i \in 0..(Len(s) - n) |-> S[n + i] - S[n]]
           q == Wrap(r + S[n])
<1>0. Len(s) \in Nat /\ n \in Nat
  OBVIOUS
<1>1. /\ t \in Seq(Message) /\ Len(t) = Len(s) - n /\ Sums(R, t)
      /\ \A k \in 1..Len(t) : t[k] = s[n + k]
  BY RestSums
<1>2. \A i \in 0..(Len(s) - n) : R[i] = S[n + i] - S[n]
  OBVIOUS
<1> HIDE DEF t, R
<1>3. S[n] \in Slots /\ S[n] \in Int /\ 0 <= S[n] /\ S[n] < Size
  BY SumInt
<1>4. q \in Slots
  BY <1>3, Sizes DEF Slots, Wrap
<1>5. ASSUME NEW i \in 0..(Len(s) - n), NEW u \in Slots, S[n + i] + u < Size
      PROVE  Wrap(q + R[i] + u) = Wrap(r + S[n + i] + u)
  <2>1. n + i \in 0..Len(s) /\ (i = 0 \/ n < n + i)
    BY <1>0
  <2>2. S[n + i] \in Slots /\ S[n + i] \in Int /\ S[n + i] >= S[n]
    <3>1. S[n + i] \in Slots /\ S[n + i] \in Int
      BY <2>1, SumInt
    <3>2. i = 0 => n + i = n
      BY <1>0
    <3> QED BY <1>3, <2>1, <3>1, <3>2 DEF Sums
  <2>3. R[i] = S[n + i] - S[n]
    BY <1>2
  <2>4. R[i] + u \in Slots /\ S[n] + (R[i] + u) < Size
    BY <1>3, <1>5, <2>2, <2>3, Sizes DEF Slots
  <2>5. Wrap(q + (R[i] + u)) = Wrap(r + S[n] + (R[i] + u))
    BY <1>3, <2>4, Indices
  <2>6. q + R[i] + u = q + (R[i] + u) /\ r + S[n] + (R[i] + u) = r + S[n + i] + u
    BY <1>3, <1>4, <2>2, <2>3 DEF Slots
  <2> QED BY <2>5, <2>6
<1>6. R[Len(t)] = S[Len(s)] - S[n] /\ Wrap(q + R[Len(t)]) = Wrap(r + S[Len(s)])
  <2>1. Len(t) \in 0..(Len(s) - n) /\ n + Len(t) = Len(s)
    BY <1>0, <1>1
  <2>2. R[Len(t)] = S[Len(s)] - S[n]
    BY <1>2, <2>1
  <2>3. Len(s) \in 0..Len(s)
    BY <1>0
  <2>4. S[Len(s)] < Size /\ S[Len(s)] \in Int
    BY <2>3, SumInt
  <2>5. 0 \in Slots /\ S[n + Len(t)] + 0 < Size
    BY <2>1, <2>4, Sizes
  <2>6. Wrap(q + R[Len(t)] + 0) = Wrap(r + S[n + Len(t)] + 0)
    BY <1>5, <2>1, <2>5
  <2>7. q + R[Len(t)] + 0 = q + R[Len(t)] /\ r + S[n + Len(t)] + 0 = r + S[Len(s)]
    BY <1>3, <1>4, <2>1, <2>2, <2>4 DEF Slots
  <2> QED BY <2>2, <2>6, <2>7
<1>7. ASSUME NEW k \in 1..Len(t), NEW u \in 0..(t[k].msglen - 1)
      PROVE  b[Wrap(q + R[k - 1] + u)] = <<t[k], u>>
  <2>1. /\ n + k \in 1..Len(s) /\ k - 1 \in 0..(Len(s) - n) /\ (n + k) - 1 = n + (k - 1)
        /\ n + k \in 0..Len(s) /\ n + (k - 1) \in 0..Len(s) /\ t[k] = s[n + k]
    BY <1>0, <1>1
  <2>2. s[n + k].msglen \in 1..(Size - 1) /\ S[n + k] = S[n + (k - 1)] + s[n + k].msglen
    BY <2>1, MessageLength DEF Sums
  <2>3. S[n + (k - 1)] \in Int /\ S[n + k] < Size /\ 0 <= S[n + (k - 1)]
    BY <2>1, SumInt
  <2>4. u \in 0..(s[n + k].msglen - 1)
    BY <2>1
  <2>5. u \in Slots /\ S[n + (k - 1)] + u < Size
    <3>1. u \in Int /\ 0 <= u /\ u < s[n + k].msglen /\ s[n + k].msglen < Size
          /\ s[n + k].msglen \in Int
      BY <2>2, <2>4, Sizes
    <3> QED BY <2>2, <2>3, <3>1, Sizes
  <2>6. b[Wrap(r + S[n + (k - 1)] + u)] = <<s[n + k], u>>
    <3>1. b[Wrap(r + S[(n + k) - 1] + u)] = <<s[n + k], u>>
      BY <2>1, <2>4 DEF Holds
    <3> QED BY <2>1, <3>1
  <2> QED BY <1>5, <2>1, <2>5, <2>6
<1>8. Holds(R, t, b, q)
  BY <1>7 DEF Holds
<1> QED BY <1>1, <1>4, <1>6, <1>8 DEF t, R

\* The distance of two indices.
LEMMA Distance ==
    ASSUME NEW r \in Slots, NEW a \in Slots, NEW d \in Slots
    PROVE  Wrap(Wrap(r + d) - Wrap(r + a) + Size) = IF d < a THEN d - a + Size ELSE d - a
BY Sizes DEF Slots, Wrap

\* The ring after a message is copied behind the others.
LEMMA CopyHolds ==
    ASSUME NEW s \in Seq(Message), NEW S, Sums(S, s), NEW r \in Slots, Holds(S, s, buf, r),
           wridx = Wrap(r + S[Len(s)]), wridx \in Slots,
           NEW m \in Message, S[Len(s)] + m.msglen < Size
    PROVE  LET t == Append(s, m)
               R == [i \in 0..Len(t) |-> IF i = Len(t) THEN S[Len(s)] + m.msglen ELSE S[i]]
           IN  /\ t \in Seq(Message) /\ Sums(R, t)
               /\ Advance(wridx, m.msglen) = Wrap(r + R[Len(t)])
               /\ Advance(wridx, m.msglen) \in Slots
               /\ Holds(R, t, Copied(m), r)
<1> DEFINE n == Len(s)
           t == Append(s, m)
           R == [i \in 0..Len(t) |-> IF i = Len(t) THEN S[n] + m.msglen ELSE S[i]]
<1>0. n \in Nat /\ n \in 0..n
  OBVIOUS
<1>1. /\ t \in Seq(Message) /\ Len(t) = n + 1 /\ t[n + 1] = m /\ Sums(R, t)
      /\ \A k \in 1..n : t[k] = s[k]
  BY AppendSums
<1>2. R[n + 1] = S[n] + m.msglen /\ \A i \in 0..n : R[i] = S[i]
  BY <1>0, <1>1
<1> HIDE DEF t, R
<1>3. m.msglen \in 1..(Size - 1) /\ m.msglen \in Int /\ m.msglen \in Slots
  <2>1. m.msglen \in Lengths
    BY DEF Message
  <2>2. m.msglen \in 1..(Size - 1)
    BY <2>1, RingAssumption
  <2> QED BY <2>2, Sizes DEF Slots
<1>4. S[n] \in Slots /\ S[n] \in Int /\ 0 <= S[n]
  BY <1>0, SumInt
<1>5. /\ Advance(wridx, m.msglen) = Wrap(r + (S[n] + m.msglen))
      /\ Advance(wridx, m.msglen) \in Slots
  <2>1. Advance(wridx, m.msglen) = Wrap(wridx + m.msglen) /\ Advance(wridx, m.msglen) \in Slots
    BY <1>3, Indices
  <2>2. Wrap(wridx + m.msglen) = Wrap(r + S[n] + m.msglen)
    BY <1>3, <1>4, Indices
  <2>3. r + S[n] + m.msglen = r + (S[n] + m.msglen)
    BY <1>3, <1>4 DEF Slots
  <2> QED BY <2>1, <2>2, <2>3
\* The unit at distance d from the read index.
<1>6. ASSUME NEW d \in 0..(S[n] + m.msglen - 1)
      PROVE  Copied(m)[Wrap(r + d)]
                = IF d < S[n] THEN buf[Wrap(r + d)] ELSE <<m, d - S[n]>>
  <2> DEFINE i == Wrap(r + d)
  <2>1. d \in Slots /\ i \in 0..(Size - 1) /\ i \in Int /\ wridx \in Int
    BY <1>3, <1>4, Sizes DEF Slots, Wrap
  <2>2. i - wridx + Size \in 0..(2 * Size - 1)
    BY <2>1, Sizes DEF Slots
  <2>3. (i - wridx + Size) % Size = Wrap(i - wridx + Size)
    BY <2>2, Indices
  <2>4. Copied(m)[i] = IF Wrap(i - wridx + Size) < m.msglen
                       THEN <<m, Wrap(i - wridx + Size)>> ELSE buf[i]
    BY <2>1, <2>3 DEF Copied
  <2>5. CASE d < S[n]
    <3>1. Wrap(i - wridx + Size) = d - S[n] + Size
      BY <1>4, <2>1, <2>5, Distance
    <3>2. ~ (d - S[n] + Size < m.msglen)
      BY <1>3, <1>4, <2>1, Sizes DEF Slots
    <3> QED BY <2>4, <2>5, <3>1, <3>2
  <2>6. CASE ~ (d < S[n])
    <3>1. Wrap(i - wridx + Size) = d - S[n]
      BY <1>4, <2>1, <2>6, Distance
    <3>2. d - S[n] < m.msglen
      BY <1>3, <1>4, <2>1, Sizes DEF Slots
    <3> QED BY <2>4, <2>6, <3>1, <3>2
  <2> QED BY <2>5, <2>6
<1>7. ASSUME NEW k \in 1..Len(t), NEW u \in 0..(t[k].msglen - 1)
      PROVE  Copied(m)[Wrap(r + R[k - 1] + u)] = <<t[k], u>>
  <2>1. CASE k \in 1..n
    <3>1. k \in 0..n /\ k - 1 \in 0..n /\ t[k] = s[k] /\ R[k - 1] = S[k - 1]
      BY <1>0, <1>1, <1>2, <2>1
    <3>2. s[k].msglen \in 1..(Size - 1) /\ S[k] = S[k - 1] + s[k].msglen
      BY <2>1, MessageLength DEF Sums
    <3>3. S[k - 1] \in Int /\ S[k] \in Int /\ 0 <= S[k - 1] /\ S[k] <= S[n]
      BY <3>1, SumInt
    <3>4. u \in 0..(s[k].msglen - 1)
      BY <3>1
    <3>5. S[k - 1] + u \in 0..(S[n] + m.msglen - 1) /\ S[k - 1] + u < S[n]
      <4>1. u \in Int /\ 0 <= u /\ u < s[k].msglen /\ s[k].msglen \in Int
        BY <3>2, <3>4
      <4>2. S[k - 1] + u \in Int /\ 0 <= S[k - 1] + u /\ S[k - 1] + u < S[n]
        BY <1>4, <3>2, <3>3, <4>1
      <4>3. m.msglen \in Int /\ m.msglen >= 1
        BY <1>3, Sizes
      <4> QED BY <1>4, <4>2, <4>3
    <3>6. r + (S[k - 1] + u) = r + S[k - 1] + u
      BY <3>3, <3>4 DEF Slots
    <3>7. buf[Wrap(r + S[k - 1] + u)] = <<s[k], u>>
      BY <2>1, <3>4 DEF Holds
    <3> QED BY <1>6, <3>1, <3>5, <3>6, <3>7
  <2>2. CASE k = n + 1
    <3>1. t[k] = m /\ R[k - 1] = S[n]
      BY <1>0, <1>1, <1>2, <2>2
    <3>2. u \in 0..(m.msglen - 1)
      BY <3>1
    <3>3. /\ S[n] + u \in 0..(S[n] + m.msglen - 1) /\ ~ (S[n] + u < S[n])
          /\ (S[n] + u) - S[n] = u /\ r + (S[n] + u) = r + S[n] + u
      <4>1. u \in Int /\ 0 <= u /\ u < m.msglen /\ r \in Int
        BY <1>3, <3>2 DEF Slots
      <4> HIDE DEF n
      <4> QED BY <1>3, <1>4, <4>1
    <3> DEFINE d == S[n] + u
    <3>4. Copied(m)[Wrap(r + d)] = <<m, u>>
      <4>1. d \in 0..(S[n] + m.msglen - 1) /\ ~ (d < S[n]) /\ d - S[n] = u
        BY <3>3
      <4> HIDE DEF d
      <4> QED BY <1>6, <4>1
    <3> QED BY <3>1, <3>3, <3>4
  <2> QED BY <1>0, <1>1, <2>1, <2>2
<1>8. Holds(R, t, Copied(m), r)
  BY <1>7 DEF Holds
<1>9. R[Len(t)] = S[n] + m.msglen
  BY <1>1, <1>2
<1> QED BY <1>1, <1>5, <1>8, <1>9 DEF t, R

LEMMA RingInvInit == RingInit => RingInv
<1> SUFFICES ASSUME RingInit PROVE RingInv
  OBVIOUS
<1> DEFINE S == [k \in 0..0 |-> 0]
<1>1. fifo = <<>> /\ fifo \in Seq(Message) /\ Len(fifo) = 0 /\ wridx = 0 /\ rdidx = 0 /\ puts = 0
  BY DEF RingInit
<1>2. S \in [0..0 -> Slots] /\ S[0] = 0 /\ 0 \in Slots /\ 0 + 0 = 0 /\ Wrap(0) = 0
  BY Sizes DEF Wrap
<1>3. Sums(S, fifo) /\ Holds(S, fifo, buf, rdidx)
  BY <1>1, <1>2 DEF Sums, Holds
<1>4. Whole(got)
  BY DEF RingInit, Whole
<1> HIDE DEF S
<1> QED BY <1>1, <1>2, <1>3, <1>4, RingAssumption DEF RingInv

\* How many messages make place for one of len units: as many as in a queue.
LEMMA RoomIs ==
    ASSUME RingInv, NEW S, Sums(S, fifo), wridx = Wrap(rdidx + S[Len(fifo)]),
           Holds(S, fifo, buf, rdidx), NEW len \in Lengths
    PROVE  \E d \in 0..Len(fifo) :
             /\ S[Len(fifo)] - S[d] + len < Size
             /\ Kept(fifo, len) = SubSeq(fifo, d + 1, Len(fifo))
             /\ d \in 0..Size
             /\ d = CHOOSE n \in 0..Size :
                      /\ RingSpace(wridx, Discarded[n]) > len
                      /\ \A j \in 0..(n - 1) : RingSpace(wridx, Discarded[j]) <= len
<1> DEFINE n == Len(fifo)
           T == {k \in 0..n : S[n] - S[k] + len < Size}
<1>0. n \in Nat /\ fifo \in Seq(Message) /\ rdidx \in Slots /\ wridx \in Slots /\ len \in 1..(Size - 1)
  BY RingAssumption DEF RingInv
<1>1. \A k \in 0..n : S[k] \in Int /\ 0 <= S[k] /\ S[k] <= S[n] /\ S[k] < Size /\ S[k] \in Slots
  BY <1>0, SumInt
<1>2. n \in 0..n /\ S[n] \in Int /\ S[n] - S[n] + len < Size
  BY <1>0, <1>1, Sizes
<1>3. PICK d \in T : \A k \in T : d <= k
  <2>1. n \in T /\ T \in SUBSET Nat
    BY <1>2
  <2> HIDE DEF T
  <2> QED BY <2>1, Least
<1>4. /\ d \in 0..n /\ S[n] - S[d] + len < Size /\ d \in Nat
      /\ \A k \in 0..(d - 1) : k \in 0..n /\ ~ (S[n] - S[k] + len < Size)
  <2>1. d \in 0..n /\ S[n] - S[d] + len < Size
    BY <1>3
  <2>2. ASSUME NEW k \in 0..(d - 1) PROVE k \in 0..n /\ ~ (S[n] - S[k] + len < Size)
    BY <1>0, <1>3, <2>1
  <2> QED BY <1>0, <2>1, <2>2
<1> HIDE DEF T
\* There are no more messages than units.
<1>5. n <= Size
  <2> DEFINE U == {k \in 0..n : ~ (k <= S[k])}
  <2>1. U = {}
    <3> SUFFICES ASSUME U # {} PROVE FALSE
      OBVIOUS
    <3>1. PICK k \in U : \A j \in U : k <= j
      <4>1. U \in SUBSET Nat
        OBVIOUS
      <4> HIDE DEF U
      <4> QED BY <4>1, Least
    <3>2. k \in 0..n /\ ~ (k <= S[k])
      BY <3>1
    <3>3. k # 0
      BY <3>2 DEF Sums
    <3>4. k \in 1..n /\ k - 1 \in 0..n /\ ~ (k <= k - 1) /\ k - 1 < k
      BY <1>0, <3>2, <3>3
    <3>5. k - 1 <= S[k - 1]
      BY <3>1, <3>4
    <3>6. S[k - 1] < S[k]
      BY <3>2, <3>4 DEF Sums
    <3> QED BY <1>1, <3>2, <3>4, <3>5, <3>6
  <2>2. n <= S[n]
    BY <1>2, <2>1
  <2> QED BY <1>0, <1>1, <1>2, <2>2, Sizes
<1>6. ASSUME NEW k \in 0..n
      PROVE  Total(SubSeq(fifo, k + 1, Len(fifo))) = S[n] - S[k]
  <2> DEFINE t == SubSeq(fifo, k + 1, Len(fifo))
             R == [i \in 0..(n - k) |-> S[k + i] - S[k]]
  <2>1. t \in Seq(Message) /\ Sums(R, t) /\ R[Len(t)] = S[n] - S[k]
    BY <1>0, DropHolds
  <2> HIDE DEF t, R
  <2>2. Total(t) = S[n] - S[k]
    BY <2>1, TotalIs
  <2> QED BY <2>2 DEF t
<1>7. Kept(fifo, len) = SubSeq(fifo, d + 1, Len(fifo))
  <2> DEFINE Rest(k) == SubSeq(fifo, k + 1, Len(fifo))
             Fits(k) == Total(Rest(k)) + len < Size
             c == CHOOSE k \in 0..Len(fifo) : Fits(k) /\ \A j \in 0..(k - 1) : ~ Fits(j)
  <2>1. \A k \in 0..n : Fits(k) <=> S[n] - S[k] + len < Size
    BY <1>6
  <2>2. Kept(fifo, len) = Rest(c)
    BY DEF Kept
  <2> HIDE DEF Fits
  <2>3. Fits(d) /\ \A j \in 0..(d - 1) : ~ Fits(j)
    BY <1>4, <2>1
  <2>4. c \in 0..n /\ Fits(c) /\ \A j \in 0..(c - 1) : ~ Fits(j)
    BY <1>4, <2>3
  <2> HIDE DEF c
  <2>5. c = d
    <3>1. c < d => c \in 0..(d - 1)
      BY <1>0, <1>4, <2>4
    <3>2. d < c => d \in 0..(c - 1)
      BY <1>0, <1>4, <2>4
    <3> QED BY <1>4, <2>3, <2>4, <3>1, <3>2
  <2> QED BY <2>2, <2>5
<1>8. ASSUME NEW k \in 0..Size
      PROVE  RingSpace(wridx, Discarded[k]) = IF k <= n THEN Size - (S[n] - S[k]) ELSE Size
  <2>1. CASE k <= n
    <3>1. k \in 0..n /\ Discarded[k] = Wrap(rdidx + S[k])
      BY <1>0, <2>1, DiscardedIs
    <3>2. Wrap(rdidx + S[k]) \in Slots /\ S[n] - S[k] \in Slots
      <4>1. S[k] \in Int /\ 0 <= S[k] /\ S[k] < Size /\ S[k] <= S[n] /\ S[n] \in Int /\ S[n] < Size
        BY <1>1, <1>2, <3>1
      <4>2. S[n] - S[k] \in Slots
        BY <4>1, Sizes
      <4>3. rdidx + S[k] \in 0..(2 * Size - 1)
        BY <1>0, <4>1, Sizes DEF Slots
      <4> QED BY <4>2, <4>3, Indices
    <3>3. Wrap(Wrap(rdidx + S[k]) + (S[n] - S[k])) = wridx
      <4>1. S[k] + (S[n] - S[k]) < Size /\ rdidx + S[k] + (S[n] - S[k]) = rdidx + S[n]
        BY <1>0, <1>1, <1>2, <3>1 DEF Slots
      <4>2. S[k] \in Slots
        BY <1>1, <3>1
      <4> QED BY <1>0, <3>2, <4>1, <4>2, Indices
    <3> QED BY <2>1, <3>1, <3>2, <3>3, SpaceIs
  <2>2. CASE ~ (k <= n)
    <3>1. Discarded[k] = wridx
      BY <2>2, DiscardedIs
    <3> QED BY <1>0, <2>2, <3>1, Sizes DEF RingSpace, Slots
  <2> QED BY <2>1, <2>2
<1>9. d = CHOOSE k \in 0..Size : /\ RingSpace(wridx, Discarded[k]) > len
                                 /\ \A j \in 0..(k - 1) : RingSpace(wridx, Discarded[j]) <= len
  <2> DEFINE Room(k) == RingSpace(wridx, Discarded[k]) > len
             c == CHOOSE k \in 0..Size : Room(k) /\ \A j \in 0..(k - 1) : ~ Room(j)
             e == CHOOSE k \in 0..Size : /\ RingSpace(wridx, Discarded[k]) > len
                                         /\ \A j \in 0..(k - 1) : RingSpace(wridx, Discarded[j]) <= len
  <2>1. \A k \in 0..Size : RingSpace(wridx, Discarded[k]) \in Int
    BY <1>0, <1>1, <1>2, <1>8, Sizes
  <2>2. \A k \in 0..n : k \in 0..Size /\ (Room(k) <=> S[n] - S[k] + len < Size)
    <3>1. ASSUME NEW k \in 0..n PROVE k \in 0..Size /\ (Room(k) <=> S[n] - S[k] + len < Size)
      <4>1. k \in 0..Size /\ k <= n
        BY <1>0, <1>5, Sizes
      <4>2. RingSpace(wridx, Discarded[k]) = Size - (S[n] - S[k])
        BY <1>8, <4>1
      <4>3. S[k] \in Int
        BY <1>1
      <4> QED BY <1>0, <1>2, <4>1, <4>2, <4>3, Sizes
    <3> QED BY <3>1
  <2>3. Room(d) /\ d \in 0..Size /\ \A j \in 0..(d - 1) : ~ Room(j)
    BY <1>4, <2>2
  <2>4. \A k \in 0..Size : Room(k) \/ RingSpace(wridx, Discarded[k]) <= len
    BY <1>0, <2>1
  <2>5. \A k \in 0..Size : ~ (Room(k) /\ RingSpace(wridx, Discarded[k]) <= len)
    BY <1>0, <2>1
  <2>6. \A j \in 0..(d - 1) : RingSpace(wridx, Discarded[j]) <= len
    BY <1>0, <1>4, <2>2, <2>3, <2>4
  <2>7. /\ e \in 0..Size /\ Room(e)
        /\ \A j \in 0..(e - 1) : RingSpace(wridx, Discarded[j]) <= len
    BY <2>3, <2>6
  <2> HIDE DEF Room, e
  <2>8. e = d
    <3>1. e < d => e \in 0..(d - 1)
      BY <1>0, <1>4, <2>7
    <3>2. d < e => d \in 0..(e - 1)
      BY <1>0, <1>4, <2>7
    <3> QED BY <1>4, <2>3, <2>5, <2>7, <3>1, <3>2
  <2> QED BY <2>8 DEF e
<1>10. d \in 0..Size
  BY <1>0, <1>4, <1>5, Sizes
<1> QED BY <1>4, <1>7, <1>9, <1>10

LEMMA RingInvPut == RingInv /\ PutMessage => RingInv'
<1> SUFFICES ASSUME RingInv, PutMessage PROVE RingInv'
  OBVIOUS
<1>0. fifo \in Seq(Message) /\ rdidx \in Slots /\ wridx \in Slots /\ puts \in 0..MaxPuts /\ Whole(got)
  BY DEF RingInv
<1>1. PICK S : /\ Sums(S, fifo) /\ wridx = Wrap(rdidx + S[Len(fifo)])
               /\ Holds(S, fifo, buf, rdidx)
  BY DEF RingInv
<1> DEFINE Room(len) == CHOOSE n \in 0..Size :
                          /\ RingSpace(wridx, Discarded[n]) > len
                          /\ \A j \in 0..(n - 1) : RingSpace(wridx, Discarded[j]) <= len
           Msg(len) == [id |-> puts + 1, msglen |-> len]
<1>2. PICK len \in Lengths :
         /\ puts < MaxPuts /\ puts' = puts + 1
         /\ rdidx' = Discarded[Room(len)] /\ buf' = Copied(Msg(len))
         /\ wridx' = Advance(wridx, len) /\ fifo' = Append(Kept(fifo, len), Msg(len))
         /\ got' = got
  BY DEF PutMessage
<1> DEFINE m == Msg(len)
<1>3. m \in Message /\ m.msglen = len
  BY <1>0, <1>2, RingAssumption DEF Message
<1>4. PICK d \in 0..Len(fifo) :
         /\ S[Len(fifo)] - S[d] + len < Size
         /\ Kept(fifo, len) = SubSeq(fifo, d + 1, Len(fifo))
         /\ d = Room(len) /\ d \in 0..Size
  BY <1>1, RoomIs
<1> HIDE DEF Room
<1> DEFINE t == SubSeq(fifo, d + 1, Len(fifo))
           R == [i \in 0..(Len(fifo) - d) |-> S[d + i] - S[d]]
<1>5. d \in 0..Size /\ d <= Len(fifo) /\ Len(fifo) \in Nat
  BY <1>0, <1>4
<1>6. rdidx' = Wrap(rdidx + S[d])
  BY <1>1, <1>2, <1>4, <1>5, DiscardedIs
<1>7. /\ t \in Seq(Message) /\ Sums(R, t) /\ rdidx' \in Slots
      /\ R[Len(t)] = S[Len(fifo)] - S[d]
      /\ Wrap(rdidx' + R[Len(t)]) = wridx
      /\ Holds(R, t, buf, rdidx')
  BY <1>0, <1>1, <1>6, DropHolds
<1>8. fifo' = Append(t, m)
  BY <1>2, <1>4
<1>9. buf' = Copied(m) /\ wridx' = Advance(wridx, m.msglen)
  BY <1>2, <1>3
<1>10. puts' \in 0..MaxPuts
  BY <1>0, <1>2, RingAssumption
<1> HIDE DEF m, t, R
<1> DEFINE Q == [i \in 0..Len(Append(t, m)) |->
                   IF i = Len(Append(t, m)) THEN R[Len(t)] + m.msglen ELSE R[i]]
<1>11. /\ fifo' \in Seq(Message) /\ Sums(Q, fifo')
       /\ wridx' = Wrap(rdidx' + Q[Len(fifo')]) /\ wridx' \in Slots
       /\ Holds(Q, fifo', buf', rdidx')
  <2>1. R[Len(t)] + m.msglen < Size
    BY <1>3, <1>4, <1>7
  <2> DEFINE r == rdidx'
             a == Append(t, m)
  <2>2. r \in Slots /\ Holds(R, t, buf, r) /\ wridx = Wrap(r + R[Len(t)])
    BY <1>7
  <2> HIDE DEF r
  <2>3. /\ a \in Seq(Message) /\ Sums(Q, a)
        /\ Advance(wridx, m.msglen) = Wrap(r + Q[Len(a)])
        /\ Advance(wridx, m.msglen) \in Slots
        /\ Holds(Q, a, Copied(m), r)
    BY <1>0, <1>3, <1>7, <2>1, <2>2, CopyHolds
  <2> HIDE DEF Q, a
  <2>4. fifo' = a
    BY <1>8 DEF a
  <2> QED BY <1>9, <2>3, <2>4 DEF r
<1> HIDE DEF Q
<1>12. Whole(got')
  BY <1>0, <1>2
<1> QED BY <1>7, <1>10, <1>11, <1>12 DEF RingInv

\* What is in the ring where the next message is read.
LEMMA FirstRead ==
    ASSUME RingInv, wridx # rdidx
    PROVE  /\ fifo # <<>> /\ 1 \in 1..Len(fifo) /\ Len(fifo) \in Nat
           /\ fifo[1].msglen \in 1..(Size - 1) /\ fifo[1].id # 0
           /\ \A u \in 0..(fifo[1].msglen - 1) : buf[(rdidx + u) % Size] = <<fifo[1], u>>
           /\ buf[rdidx] = <<fifo[1], 0>>
<1>0. fifo \in Seq(Message) /\ rdidx \in Slots /\ wridx \in Slots
  BY DEF RingInv
<1>1. PICK S : /\ Sums(S, fifo) /\ wridx = Wrap(rdidx + S[Len(fifo)])
               /\ Holds(S, fifo, buf, rdidx)
  BY DEF RingInv
<1>2. Len(fifo) # 0
  <2> SUFFICES ASSUME Len(fifo) = 0 PROVE FALSE
    OBVIOUS
  <2>1. S[Len(fifo)] = 0 /\ 0 \in Slots
    BY <1>1, Sizes DEF Sums
  <2> QED BY <1>0, <1>1, <2>1, SpaceIs
<1>3. fifo # <<>> /\ 1 \in 1..Len(fifo) /\ Len(fifo) \in Nat
  BY <1>0, <1>2
<1>4. fifo[1].msglen \in 1..(Size - 1) /\ fifo[1].id # 0
  BY <1>0, <1>3, MessageLength
<1>5. ASSUME NEW u \in 0..(fifo[1].msglen - 1)
      PROVE  rdidx + u \in 0..(2 * Size - 1) /\ buf[Wrap(rdidx + u)] = <<fifo[1], u>>
  <2>1. u \in Nat /\ u < Size /\ rdidx + u \in 0..(2 * Size - 1)
    BY <1>0, <1>4, Sizes DEF Slots
  <2>2. buf[Wrap(rdidx + S[1 - 1] + u)] = <<fifo[1], u>>
    BY <1>1, <1>3 DEF Holds
  <2>3. S[1 - 1] = 0 /\ rdidx + 0 + u = rdidx + u
    BY <1>0, <1>1, <2>1 DEF Sums, Slots
  <2> QED BY <2>1, <2>2, <2>3
<1>6. \A u \in 0..(fifo[1].msglen - 1) : buf[(rdidx + u) % Size] = <<fifo[1], u>>
  BY <1>5, Indices
<1>7. buf[rdidx] = <<fifo[1], 0>>
  <2>1. 0 \in 0..(fifo[1].msglen - 1) /\ rdidx + 0 = rdidx /\ Wrap(rdidx) = rdidx
    BY <1>0, <1>4, Sizes DEF Slots, Wrap
  <2> QED BY <1>5, <2>1
<1> QED BY <1>3, <1>4, <1>6, <1>7

LEMMA RingInvGet == RingInv /\ GetMessage => RingInv'
<1> SUFFICES ASSUME RingInv, GetMessage PROVE RingInv'
  OBVIOUS
<1>0. /\ fifo \in Seq(Message) /\ rdidx \in Slots /\ wridx \in Slots /\ puts \in 0..MaxPuts
      /\ wridx # rdidx
  BY DEF RingInv, GetMessage
<1>1. PICK S : /\ Sums(S, fifo) /\ wridx = Wrap(rdidx + S[Len(fifo)])
               /\ Holds(S, fifo, buf, rdidx)
  BY DEF RingInv
<1> DEFINE len == fifo[1].msglen
<1>2. /\ 1 \in 1..Len(fifo) /\ 1 \in 0..Len(fifo) /\ Len(fifo) \in Nat /\ fifo # <<>>
      /\ len \in 1..(Size - 1) /\ fifo[1].id # 0
      /\ \A u \in 0..(len - 1) : buf[(rdidx + u) % Size] = <<fifo[1], u>>
      /\ buf[rdidx][1].msglen = len
  BY <1>0, FirstRead
<1>3. /\ got' = [u \in 0..(len - 1) |-> buf[(rdidx + u) % Size]]
      /\ rdidx' = Advance(rdidx, len) /\ fifo' = Tail(fifo)
      /\ buf' = buf /\ wridx' = wridx /\ puts' = puts
  BY <1>2 DEF GetMessage
<1>4. Whole(got')
  <2>1. DOMAIN got' = 0..(len - 1) /\ \A u \in 0..(len - 1) : got'[u] = <<fifo[1], u>>
    BY <1>2, <1>3
  <2>2. 0 \in 0..(len - 1)
    BY <1>2, Sizes
  <2>3. got'[0][1] = fifo[1]
    BY <2>1, <2>2
  <2> QED BY <1>2, <2>1, <2>3 DEF Whole
<1>5. rdidx' = Wrap(rdidx + S[1])
  <2>1. S[1] = len
    <3>1. S[1] = S[1 - 1] + len /\ S[0] = 0 /\ 1 - 1 = 0
      BY <1>1, <1>2 DEF Sums
    <3> QED BY <1>2, <3>1
  <2> QED BY <1>0, <1>2, <1>3, <2>1, Indices
<1> DEFINE t == SubSeq(fifo, 1 + 1, Len(fifo))
           R == [i \in 0..(Len(fifo) - 1) |-> S[1 + i] - S[1]]
<1>6. /\ t \in Seq(Message) /\ Sums(R, t) /\ rdidx' \in Slots
      /\ Wrap(rdidx' + R[Len(t)]) = wridx /\ Holds(R, t, buf, rdidx')
  BY <1>0, <1>1, <1>2, <1>5, DropHolds
<1>7. fifo' = t
  BY <1>0, <1>2, <1>3
<1> HIDE DEF t, R
<1> QED BY <1>0, <1>3, <1>4, <1>6, <1>7 DEF RingInv

LEMMA RingInvClear == RingInv /\ ClearRing => RingInv'
<1> SUFFICES ASSUME RingInv, ClearRing PROVE RingInv'
  OBVIOUS
<1> DEFINE S == [k \in 0..0 |-> 0]
<1>1. /\ fifo' = <<>> /\ fifo' \in Seq(Message) /\ Len(fifo') = 0 /\ wridx' = 0 /\ rdidx' = 0
      /\ puts' \in 0..MaxPuts /\ got' = got /\ Whole(got)
  BY DEF ClearRing, RingInv
<1>2. S \in [0..0 -> Slots] /\ S[0] = 0 /\ 0 \in Slots /\ 0 + 0 = 0 /\ Wrap(0) = 0
  BY Sizes DEF Wrap
<1>3. Sums(S, fifo') /\ Holds(S, fifo', buf', rdidx')
  BY <1>1, <1>2 DEF Sums, Holds
<1> HIDE DEF S
<1> QED BY <1>1, <1>2, <1>3 DEF RingInv

LEMMA RingInvStep == RingInv /\ [RingNext]_ringVars => RingInv'
<1>1. RingInv /\ UNCHANGED ringVars => RingInv'
  BY DEF RingInv, ringVars
<1> QED BY <1>1, RingInvPut, RingInvGet, RingInvClear DEF RingNext

\* The ring of bytes in lib/log.c is a queue that drops its oldest messages,
\* and no more of them than necessary, to make room for a new one, and every
\* message is copied out whole (_mtx_putmessage, _mtx_getmessage): for a ring
\* of any size and messages of any lengths, wherever the indices wrap.
THEOREM RingAlwaysFifo == RingSpec => []RingIsFifo
<1> QED BY RingInvInit, RingInvStep, RingInvFifo, PTL DEF RingSpec
=============================================================================
