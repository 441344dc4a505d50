------------------------------ MODULE LogRotate ------------------------------
(***************************************************************************)
(* Several processes that log to the same file, lib/log.c: the write       *)
(* threads open, share and rotate the log file.  The control file is the   *)
(* mutex between the processes and holds the rotation parameters; the      *)
(* POSIX lock on the log file tells the first process from the others.     *)
(* A file is an inode number, given in the order of creation; names[k] is  *)
(* the inode of archive k, names[0] the log file.  Sizes are in units of   *)
(* the 1024 bytes after which a write thread looks at the size.            *)
(***************************************************************************)
EXTENDS Integers, FiniteSets

CONSTANTS
    Procs,       \* the processes
    Params,      \* Params[p]: [size, files], what process p asks for
    Forced,      \* a process may force a rotation (pmlog_rotate)
    Failures,    \* unlink, rename and open may fail
    MaxInodes,   \* bound: files created
    MaxUnits,    \* bound: units written to one file
    NoProc       \* nobody holds the control file

ASSUME RotateAssumption ==
    /\ NoProc \notin Procs /\ IsFiniteSet(Procs)
    /\ Params \in [Procs -> [size : Nat, files : Nat \ {0}]]
    /\ MaxInodes \in Nat /\ MaxUnits \in Nat
    /\ \A p \in Procs : Params[p].files <= MaxInodes + 1   \* room for all archives

VARIABLES
    pc,       \* pc[p]: where the write thread of p is
    param,    \* param[p]: td->max_size and td->max_files
    ino,      \* ino[p]: the inode of td->logfd, 0 if it is NULL
    step,     \* step[p]: the next archive to move in a rotation
    names,    \* names[k]: the inode of archive k, or 0
    size,     \* size[i]: units in inode i
    locks,    \* locks[i]: the processes with a lock on inode i
    ctl,      \* the process that holds the lock of the control file
    shared,   \* the parameters in the control file
    inodes,   \* number of inodes created
    odd       \* history: "forced" and "failed", if that has happened

rotVars == <<pc, param, ino, step, names, size, locks, ctl, shared, inodes,
             odd>>

Archives == 0..MaxInodes
NoParam == [size |-> 0, files |-> 1]

Drop(p) == [i \in 1..MaxInodes |-> locks[i] \ {p}]
Goto(p, l) == pc' = [pc EXCEPT ![p] = l]

\* open(td->file_path, O_CREAT ...): the inode at names[0], a new one if none.
OpenedInode == IF names[0] # 0 THEN names[0] ELSE inodes + 1
CanOpen == names[0] # 0 \/ inodes < MaxInodes
Opens(p) == /\ CanOpen
            /\ ino' = [ino EXCEPT ![p] = OpenedInode]
            /\ names' = [names EXCEPT ![0] = OpenedInode]
            /\ inodes' = IF names[0] # 0 THEN inodes ELSE inodes + 1

\* _thr_open_ctl_file: an exclusive lock, waiting for it.
TakeCtl(p) == ctl = NoProc /\ ctl' = p

\* The write thread starts: open the control file.
Start(p) == /\ pc[p] = "off" /\ TakeCtl(p) /\ Goto(p, "open")
            /\ param' = [param EXCEPT ![p] = Params[p]]
            /\ UNCHANGED <<ino, step, names, size, locks, shared, inodes, odd>>

\* _thr_purge_logs: unlink from archive max_files on, until one is missing.
Purged(nm, files) ==
    LET gone == {k \in Archives : /\ files > 1 /\ k >= files
                                  /\ \A j \in files..k : nm[j] # 0}
    IN  [k \in Archives |-> IF k \in gone THEN 0 ELSE nm[k]]

\* _thr_open_log_file(td, false): who gets the exclusive lock is the first and
\* writes its parameters and purges; everyone then takes a shared lock and
\* reads the parameters.  Then the control file is closed.
OpenLog(p) ==
    LET i     == OpenedInode
        first == locks[i] \ {p} = {}
        par   == IF first THEN Params[p] ELSE shared
        nm    == [names EXCEPT ![0] = i]
    IN  /\ pc[p] = "open" /\ CanOpen
        /\ ino' = [ino EXCEPT ![p] = i]
        /\ inodes' = IF names[0] # 0 THEN inodes ELSE inodes + 1
        /\ names' = IF first THEN Purged(nm, par.files) ELSE nm
        /\ shared' = par
        /\ param' = [param EXCEPT ![p] = par]
        /\ locks' = [locks EXCEPT ![i] = @ \cup {p}]
        /\ ctl' = NoProc /\ Goto(p, "run")
        /\ UNCHANGED <<step, size, odd>>

\* _thr_write_message, a unit of messages.
Write(p) ==
    LET i == ino[p] IN
    /\ pc[p] = "run"
    /\ i # 0 => size[i] < MaxUnits
    /\ size' = IF i # 0 THEN [size EXCEPT ![i] = @ + 1] ELSE size
    /\ Goto(p, "check")
    /\ UNCHANGED <<param, ino, step, names, locks, ctl, shared, inodes, odd>>

\* _thr_rotate_logs, not forced: rotation allowed and the file full?  With a
\* null logfd the size cannot be asked for: the process dies.
CheckSize(p) ==
    LET full == size[ino[p]] >= param[p].size IN
    /\ pc[p] = "check"
    /\ \/ /\ param[p].files <= 1 \/ param[p].size = 0
          /\ Goto(p, "run") /\ UNCHANGED <<ino, locks>>
       \/ /\ param[p].files > 1 /\ param[p].size # 0 /\ ino[p] # 0
          /\ Goto(p, IF full THEN "stat" ELSE "run") /\ UNCHANGED <<ino, locks>>
       \/ /\ param[p].files > 1 /\ param[p].size # 0 /\ ino[p] = 0
          /\ Goto(p, "dead") /\ locks' = Drop(p) /\ UNCHANGED ino
    /\ UNCHANGED <<param, step, names, size, ctl, shared, inodes, odd>>

\* _thr_open_log_file(td, true): no lock is taken on the file; closing the old
\* one gives up the lock on it.
Reopen(p) ==
    /\ locks' = Drop(p)
    /\ \/ Opens(p) /\ UNCHANGED odd
       \/ /\ Failures /\ ino' = [ino EXCEPT ![p] = 0]
          /\ odd' = odd \cup {"failed"} /\ UNCHANGED <<names, inodes>>

Moved(p) == names[0] # 0 /\ names[0] # ino[p]

\* Mutant: a file that has been moved is not opened again.
StatNoReopen(p) ==
    /\ pc[p] = "stat"
    /\ Goto(p, IF Moved(p) THEN "run" ELSE "contend")
    /\ UNCHANGED <<param, ino, step, names, size, locks, ctl, shared, inodes,
                   odd>>

\* Stage two: someone else has rotated, or contend for the control file.
Stat(p) ==
    /\ pc[p] = "stat"
    /\ Goto(p, IF Moved(p) THEN "reopen" ELSE "contend")
    /\ UNCHANGED <<param, ino, step, names, size, locks, ctl, shared, inodes,
                   odd>>

\* The reopen of stage two, without the lock of the control file: another
\* rotation may have begun since the stat().
ReopenMoved(p) ==
    /\ pc[p] = "reopen" /\ Reopen(p) /\ Goto(p, "run")
    /\ UNCHANGED <<param, step, size, ctl, shared>>

\* Mutant: the file is not looked at again under the lock.
ContendBlind(p) ==
    /\ pc[p] = "contend" /\ ctl = NoProc
    /\ ctl' = p /\ Goto(p, "unlink")
    /\ step' = [step EXCEPT ![p] = param[p].files - 1]
    /\ UNCHANGED <<ino, names, inodes, locks, odd, param, size, shared>>

\* Stage three: with the lock of the control file look again.
Contend(p) ==
    /\ pc[p] = "contend" /\ ctl = NoProc
    /\ IF Moved(p)
       THEN Reopen(p) /\ Goto(p, "run") /\ UNCHANGED <<ctl, step>>
       ELSE /\ ctl' = p /\ Goto(p, "unlink")
            /\ step' = [step EXCEPT ![p] = param[p].files - 1]
            /\ UNCHANGED <<ino, names, inodes, locks, odd>>
    /\ UNCHANGED <<param, size, shared>>

\* _thr_rotate_logs, forced: straight to the rotation.
ForceRotate(p) ==
    /\ Forced /\ pc[p] = "run" /\ param[p].files > 1 /\ TakeCtl(p)
    /\ Goto(p, "unlink") /\ step' = [step EXCEPT ![p] = param[p].files - 1]
    /\ odd' = odd \cup {"forced"}
    /\ UNCHANGED <<param, ino, names, size, locks, shared, inodes>>

\* Discard the last archive.
Unlink(p) ==
    /\ pc[p] = "unlink"
    /\ names' = [names EXCEPT ![step[p]] = 0]
    /\ step' = [step EXCEPT ![p] = @ - 1]
    /\ Goto(p, "rename")
    /\ UNCHANGED <<param, ino, size, locks, ctl, shared, inodes, odd>>

\* Mutant: a copy of the archive instead of a move.
RenameCopies(p) ==
    LET k == step[p] IN
    /\ pc[p] = "rename" /\ k >= 0
    /\ names' = IF names[k] = 0 THEN names ELSE [names EXCEPT ![k + 1] = names[k]]
    /\ step' = [step EXCEPT ![p] = k - 1]
    /\ UNCHANGED <<pc, param, ino, size, locks, ctl, shared, inodes, odd>>

\* Move archive step to step + 1 (there may be none), down to the log file.
Rename(p) ==
    LET k == step[p] IN
    /\ pc[p] = "rename" /\ k >= 0
    /\ names' = IF names[k] = 0 THEN names
                ELSE [names EXCEPT ![k + 1] = names[k], ![k] = 0]
    /\ step' = [step EXCEPT ![p] = k - 1]
    /\ UNCHANGED <<pc, param, ino, size, locks, ctl, shared, inodes, odd>>

\* unlink or rename fails: "rotate halted".
Halt(p) == /\ Failures /\ pc[p] \in {"unlink", "rename"} /\ step[p] >= 0
           /\ ctl' = NoProc /\ Goto(p, "run") /\ step' = [step EXCEPT ![p] = 0]
           /\ odd' = odd \cup {"failed"}
           /\ UNCHANGED <<param, ino, names, size, locks, shared, inodes>>

\* Open the new log file and close the control file.
Finish(p) == /\ pc[p] = "rename" /\ step[p] < 0
             /\ Reopen(p) /\ ctl' = NoProc /\ Goto(p, "run")
             /\ step' = [step EXCEPT ![p] = 0]
             /\ UNCHANGED <<param, size, shared>>

\* pmlog_term: close the log file.
Stop(p) == /\ pc[p] = "run" /\ Goto(p, "off")
           /\ locks' = Drop(p) /\ ino' = [ino EXCEPT ![p] = 0]
           /\ param' = [param EXCEPT ![p] = NoParam]
           /\ UNCHANGED <<step, names, size, ctl, shared, inodes, odd>>

RotateInit ==
    /\ pc = [p \in Procs |-> "off"] /\ param = [p \in Procs |-> NoParam]
    /\ ino = [p \in Procs |-> 0] /\ step = [p \in Procs |-> 0]
    /\ names = [k \in Archives |-> 0] /\ size = [i \in 1..MaxInodes |-> 0]
    /\ locks = [i \in 1..MaxInodes |-> {}] /\ ctl = NoProc
    /\ shared = NoParam /\ inodes = 0 /\ odd = {}

RotateNext == \E p \in Procs :
    \/ Start(p) \/ OpenLog(p) \/ Write(p) \/ CheckSize(p) \/ Stat(p)
    \/ ReopenMoved(p) \/ Contend(p) \/ ForceRotate(p) \/ Unlink(p) \/ Rename(p) \/ Halt(p)
    \/ Finish(p) \/ Stop(p)

RotateSpec == RotateInit /\ [][RotateNext]_rotVars

-----------------------------------------------------------------------------
\* A size-triggered rotation archives only full files: two processes that both
\* find the file full do not rotate twice (the inode is looked at again under
\* the lock of the control file).  A rotation whose last open failed leaves no
\* log file, and then a third process may have its new one archived.
OnlyFullArchived ==
    odd = {} =>
        \A k \in Archives \ {0} : names[k] # 0 =>
                  \E p \in Procs : size[names[k]] >= Params[p].size

\* Archives are in the order of their creation, whatever fails or is forced,
\* and no file has two names.
ArchivesInOrder ==
    \A j, k \in Archives : j < k /\ names[j] # 0 /\ names[k] # 0
                              => names[j] > names[k]

\* "If there are N applications running, the file may grow to up to N*1024
\* bytes bigger than the maximum file size before rotating": also a process
\* that still writes to a rotated file notices in time.  (With one file or
\* without a maximum size nothing is rotated.)
SizeBounded ==
    "failed" \notin odd => \A i \in 1..MaxInodes : \A p \in Procs :
        /\ \A q \in Procs : Params[q] = Params[p]
        /\ Params[p].files > 1 /\ Params[p].size # 0
        => size[i] <= Params[p].size + Cardinality(Procs)

=============================================================================
