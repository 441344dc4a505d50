------------------------------- MODULE Arbiter -------------------------------
(***************************************************************************)
(* What powerapid promises: it arbitrates between the clients that want a  *)
(* setting to have different values.  There are no threads here, no lists  *)
(* and no queue, only the value each client has asked for, the default,    *)
(* and the setting.  A request is decided alone: the setting takes the     *)
(* value if nothing in force is stronger.  When a request is withdrawn     *)
(* that was stronger than all others, the setting goes back to the         *)
(* strongest of those that remain.                                         *)
(*                                                                         *)
(* The settings are those ordered by value; governors, whose order depends *)
(* on time stamps, are not part of the promise.                            *)
(***************************************************************************)
EXTENDS Integers

CONSTANTS Clients, Paths, Values,
          Lower,        \* the paths where the lower value is the stronger one
          Managers,     \* the clients that change the default
          InitSetting,
          Faults,       \* a write may fail
          None

VARIABLES
    base,      \* base[p]: the default, once it is known
    force,     \* force[c][p]: the value c has in force
    setting,   \* setting[p]: the value of the setting
    failed,    \* the paths whose last write failed
    deciding,  \* the request being decided, if any
    spoilt     \* the arbiter has been interfered with: no promise any more

vars == <<base, force, setting, failed, deciding, spoilt>>

-----------------------------------------------------------------------------
Stronger(p, v, w) == IF p \in Lower THEN v < w ELSE v > w

\* The values of p that the default and the clients of a table f have in force.
InForce(p, b, f) ==
    {v \in Values : b[p] = v \/ \E c \in Clients : f[c][p] = v}

Strongest(p, S) == CHOOSE v \in S : \A w \in S : ~ Stronger(p, w, v)

\* The setting takes v, or the write fails and leaves it as it is.
Write(p, v) ==
    \/ setting' = [setting EXCEPT ![p] = v] /\ failed' = failed \ {p}
    \/ Faults /\ failed' = failed \cup {p} /\ UNCHANGED setting

-----------------------------------------------------------------------------
Init ==
    /\ base = [p \in Paths |-> None]
    /\ force = [c \in Clients |-> [p \in Paths |-> None]]
    /\ setting = InitSetting /\ failed = {}
    /\ deciding = None /\ spoilt = FALSE

\* A request is taken up, ...
Take(c, p, v) ==
    /\ deciding = None
    /\ deciding' = [own |-> c, path |-> p, val |-> v]
    /\ UNCHANGED <<base, force, setting, failed, spoilt>>

\* ... the default is noted if it is not known: the value the setting has, or
\* the one a manager asks for, who may also change it, ...
Note(d) ==
    /\ \/ base[d.path] = None /\ d.own \notin Managers
          /\ base' = [base EXCEPT ![d.path] = setting[d.path]]
       \/ d.own \in Managers /\ base' = [base EXCEPT ![d.path] = d.val]
    /\ UNCHANGED <<force, setting, failed, deciding, spoilt>>

\* ... the request takes the place of an earlier one of the same client, ...
Enter(d) ==
    /\ base[d.path] # None
    /\ force' = [force EXCEPT ![d.own][d.path] = d.val]
    /\ UNCHANGED <<base, setting, failed, deciding, spoilt>>

\* ... and is decided, ...
Decide(d) ==
    /\ force[d.own][d.path] = d.val
    /\ deciding' = None
    /\ IF d.val = Strongest(d.path, InForce(d.path, base, force))
       THEN Write(d.path, d.val)
       ELSE UNCHANGED <<setting, failed>>
    /\ UNCHANGED <<base, force, spoilt>>

\* ... or it is turned down because the setting cannot be read.
TurnDown(d) ==
    /\ Faults /\ base[d.path] = None
    /\ deciding' = None
    /\ UNCHANGED <<base, force, setting, failed, spoilt>>

\* A client gives up its value.
Withdraw(c, p) ==
    LET f    == [force EXCEPT ![c][p] = None]
        rest == Strongest(p, InForce(p, base, f))
    IN  /\ force[c][p] # None
        /\ force' = f
        /\ IF Stronger(p, force[c][p], rest)
           THEN Write(p, rest)
           ELSE UNCHANGED <<setting, failed>>
        /\ UNCHANGED <<base, deciding, spoilt>>

\* The arbiter ends, in an orderly way or not: the settings stay.
End ==
    /\ base' = [p \in Paths |-> None]
    /\ force' = [c \in Clients |-> [p \in Paths |-> None]]
    /\ deciding' = None
    /\ UNCHANGED <<setting, failed, spoilt>>

\* The operator takes the settings as they are for the persistent ones.
Adopt == failed' = {} /\ UNCHANGED <<base, force, setting, deciding, spoilt>>

\* After interference there is no promise, and the arbiter does not recover.
Spoil == spoilt' = TRUE

Next ==
    \/ \E c \in Clients, p \in Paths :
          Withdraw(c, p) \/ \E v \in Values : Take(c, p, v)
    \/ /\ deciding # None
       /\ Note(deciding) \/ Enter(deciding) \/ Decide(deciding) \/ TurnDown(deciding)
    \/ End \/ Adopt \/ Spoil

Spec == Init /\ [][Next]_vars
=============================================================================
