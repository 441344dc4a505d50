----------------------------- MODULE MCPowerapid -----------------------------
(***************************************************************************)
(* Small instances of the powerapid model for TLC.  The configurations     *)
(* choose the attribute, the kinds of client and what may go wrong.        *)
(***************************************************************************)
EXTENDS PowerapidArbiter, TLC

\* One of the rules "lower value wins", "higher value wins", "governor".
AttrMax == [p \in Paths |-> "FREQ_LIMIT_MAX"]
AttrMin == [p \in Paths |-> "POWER_LIMIT_MIN"]
AttrGov == [p \in Paths |-> "GOV"]

\* Connections without special rights are interchangeable.
ConnSymmetry == Permutations(Conns)

\* All files start with value 2, so that requests lie on both sides of it.
File2 == [p \in Paths |-> 2]

\* One value only: for runs about the protocol rather than the values.
File1 == [p \in Paths |-> 1]
=============================================================================
