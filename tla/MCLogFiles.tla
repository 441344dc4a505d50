----------------------------- MODULE MCLogFiles ------------------------------
(***************************************************************************)
(* Two parts of the logging that share no state, checked in one run: each  *)
(* behaviour is one of the ring buffer or one of the shared log files.     *)
(***************************************************************************)
EXTENDS LogRing, LogRotate, TLC

VARIABLE part      \* which of the two this behaviour is about

\* The processes ask for the same parameters.
EqualParams == [p \in Procs |-> [size |-> 2, files |-> 3]]

ProcSymmetry == Permutations(Procs)

Init == part \in {"ring", "files"} /\ RingInit /\ RotateInit
Next == /\ \/ part = "ring"  /\ RingNext   /\ UNCHANGED rotVars
           \/ part = "files" /\ RotateNext /\ UNCHANGED ringVars
        /\ UNCHANGED part
Spec == Init /\ [][Next]_<<part, ringVars, rotVars>>
=============================================================================
