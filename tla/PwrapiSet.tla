------------------------------ MODULE PwrapiSet ------------------------------
(***************************************************************************)
(* The change lists of powerapid (daemon/pwrapi_set.c): for every sysfs    *)
(* path the daemon keeps the list of the set requests that are in force,   *)
(* ordered by the priority rule of the attribute, highest priority first.  *)
(*                                                                         *)
(* A request (set_info_t) is a record                                      *)
(*     [own |-> the socket that asked, val |-> its value, ts |-> stamp]    *)
(* where ts is g_get_real_time() and matters to governors only.            *)
(***************************************************************************)
EXTENDS Integers, Sequences

CONSTANT USERSPACE     \* PWR_GOV_LINUX_USERSPACE, one of the values

LowerWins  == {"CSTATE_LIMIT", "FREQ_REQ", "FREQ_LIMIT_MAX", "POWER_LIMIT_MAX"}
HigherWins == {"FREQ_LIMIT_MIN", "POWER_LIMIT_MIN"}
AttrNames  == LowerWins \cup HigherWins \cup {"GOV"}

-----------------------------------------------------------------------------
(* Comparison: negative means that the first argument has priority.        *)

value_compare(v1, v2) == IF v1 = v2 THEN 0 ELSE IF v1 < v2 THEN -1 ELSE 1

\* Mutant: the older governor request has priority.
GovOldestFirst(s1, s2) ==
    IF s1.val = s2.val THEN 0
    ELSE IF s1.val = USERSPACE THEN -1
    ELSE IF s2.val = USERSPACE THEN 1
    ELSE IF s1.ts < s2.ts THEN -1 ELSE 1

gov_compare(s1, s2) ==
    IF s1.val = s2.val THEN 0
    ELSE IF s1.val = USERSPACE THEN -1
    ELSE IF s2.val = USERSPACE THEN 1
    ELSE IF s1.ts > s2.ts THEN -1 ELSE 1

attr_value_comp(a, s1, s2) ==
    IF a \in LowerWins THEN value_compare(s1.val, s2.val)
    ELSE IF a \in HigherWins THEN value_compare(s2.val, s1.val)
    ELSE IF a = "GOV" THEN gov_compare(s1, s2)
    ELSE 0

-----------------------------------------------------------------------------
(* The two list operations of glib that the daemon uses.                   *)

\* g_slist_insert_sorted puts e before the first element that does not
\* compare strictly higher than e, and at the end when there is none.
InsertPos(a, l, e) ==
    CHOOSE i \in 1 .. Len(l) + 1 :
        /\ i <= Len(l) => attr_value_comp(a, e, l[i]) <= 0
        /\ \A j \in 1 .. i - 1 : attr_value_comp(a, e, l[j]) > 0

InsertSorted(a, l, e) ==
    LET pos == InsertPos(a, l, e)
    IN  [i \in 1 .. Len(l) + 1 |-> IF i < pos THEN l[i]
                                   ELSE IF i = pos THEN e ELSE l[i - 1]]

\* g_slist_remove takes out the request of socket o; a list that does not hold
\* it is left alone.
Holds(l, o) == \E i \in DOMAIN l : l[i].own = o

RemoveOwner(l, o) ==
    IF ~ Holds(l, o) THEN l
    ELSE LET pos == CHOOSE i \in DOMAIN l : l[i].own = o
         IN  [i \in 1 .. Len(l) - 1 |-> IF i < pos THEN l[i] ELSE l[i + 1]]

\* The request of socket o in the list.
EntryOf(l, o) == l[CHOOSE i \in DOMAIN l : l[i].own = o]

\* No request stands in front of one that has priority over it.
SortedList(a, l) ==
    \A i, j \in DOMAIN l : i < j => attr_value_comp(a, l[i], l[j]) <= 0
=============================================================================
