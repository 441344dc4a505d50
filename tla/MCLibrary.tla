------------------------------ MODULE MCLibrary ------------------------------
(* A hierarchy of three objects and five kinds of application for Library.    *)
EXTENDS Library, TLC

CONSTANTS c1, c2, g1, g2, g3, s1, s2, t1, h1, h2

MCCtxs == {c1, c2}
MCGrps == {g1, g2, g3}
MCStats == {s1, s2}
MCStatuses == {t1}
MCHints == {h1, h2}

\* a node above a socket and a memory; the memory is built last but lies
\* below the others in the address space
MCTraversal == <<2, 3, 1>>
MCParent == <<2, 0, 2>>
MCType == <<"mem", "node", "socket">>
MCNames == {<<"user", 0, 0>>, <<"hint", 2, 1>>}

Base == [calls |-> {}, ctxs |-> {c1}, objs |-> {1, 2}, grps |-> {g1}, stats |-> {},
         readings |-> {1}, fails |-> {FALSE}]
\* groups and their algebra; hints and statuses in two contexts; groups in two
\* contexts; one statistic of an object or of a group; two of one group
Algebra == [Base EXCEPT !.grps = MCGrps, !.objs = {1, 2, 3},
               !.calls = {"init", "group", "children", "named", "duplicate", "combine",
                          "add", "remove", "ungroup", "destroy"}]
Regions == [Base EXCEPT !.ctxs = MCCtxs, !.fails = BOOLEAN,
               !.calls = {"init", "destroy", "hint", "status"}]
Twins == [Base EXCEPT !.ctxs = MCCtxs, !.grps = {g1, g2},
               !.calls = {"init", "destroy", "group", "add", "combine", "ungroup"}]
Sampling == [Base EXCEPT !.stats = {s1}, !.objs = {1, 2, 3}, !.readings = {1, 2},
               !.calls = {"init", "destroy", "children", "add", "remove", "ungroup",
                          "objstat", "grpstat", "unstat", "start", "stop"}]
Pair == [Base EXCEPT !.stats = MCStats,
               !.calls = {"init", "destroy", "named", "add", "ungroup", "grpstat",
                          "unstat", "start", "stop"}]
AllPrograms == {Algebra, Regions, Twins, Sampling, Pair}
===============================================================================
