--------------------------- MODULE PowerapidArbiter ---------------------------
(***************************************************************************)
(* powerapid implements the arbiter, for the attributes ordered by value   *)
(* and until its threads race: the two threads, the queue, the hash tables *)
(* and the sorted lists together decide as if each request were compared   *)
(* with the set of values in force.                                        *)
(***************************************************************************)
EXTENDS Powerapid

ASSUME NullIsNoValue ==
    /\ NULL \notin Values
    /\ NULL \notin [own : Conns, path : Paths, val : Values]

\* The paths that are ordered by value.
Limits == {p \in Paths : Attr[p] # "GOV"}

\* A value of a table: what the entry asks for.
ValueIn(e) == IF e = NULL THEN NULL ELSE e.val

\* The state of the arbiter: what the tables say, ...
baseBar    == [p \in Limits |-> ValueIn(def_values[p])]
forceBar   == [c \in Conns |-> [p \in Limits |-> ValueIn(my_changes[c][p])]]
settingBar == [p \in Limits |-> file[p]]
failedBar  == unwritten \cap Limits

\* ... and the request in the hands of the worker.
decidingBar == IF WorkerInLists /\ item.path \in Limits
               THEN [own |-> item.own, path |-> item.path, val |-> item.val]
               ELSE NULL

Arb == INSTANCE Arbiter WITH
    Clients     <- Conns,
    Paths       <- Limits,
    Lower       <- {p \in Limits : Attr[p] \in LowerWins},
    Managers    <- Root \cap ResourceManager,
    InitSetting <- [p \in Limits |-> InitFile[p]],
    None        <- NULL,
    base        <- baseBar,
    force       <- forceBar,
    setting     <- settingBar,
    failed      <- failedBar,
    deciding    <- decidingBar,
    spoilt      <- ~ Unraced

\* Every behaviour of the daemon, with its clients, signals, crashes and
\* restarts, is one of the arbiter: worker_process_item and set_rollback,
\* which look only at the head of a list and at the tables, write a setting
\* exactly when the arbiter does, with the value it chooses from all that are
\* in force, and nothing else in the daemon touches it.
Arbitrates == Arb!Spec
=============================================================================
