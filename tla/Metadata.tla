------------------------------ MODULE Metadata ------------------------------
(***************************************************************************)
(* Which attributes the objects have and which metadata their attributes   *)
(* have: the bitmasks of src/lib/object.c and the x86_*_get_meta functions *)
(* of src/lib/plugins/x86.  A table entry is what a switch over the        *)
(* metadata names does: "fixed" ones are answered from memory, "read" ones *)
(* from a file or register that may be unreadable, all others give         *)
(* PWR_RET_NO_META.  The lists behind enumerable attributes are those of   *)
(* src/lib/pwr_list.c.                                                     *)
(***************************************************************************)
EXTENDS Integers, Sequences, FiniteSets, SequencesExt

\* The e-th smallest of a set of numbers; the elements of s at the places P, and
\* those that are in K, in the order they have in s.
Nth(P, e)    == CHOOSE k \in P : Cardinality({j \in P : j <= k}) = e
Picked(s, P) == [e \in 1..Cardinality(P) |-> s[Nth(P, e)]]
Only(s, K)   == Picked(s, {k \in DOMAIN s : s[k] \in K})

\* PWR_AttrName, in the order of the enumeration.
AttrNames ==
    <<"PSTATE", "CSTATE", "CSTATE_LIMIT", "SSTATE", "CURRENT", "VOLTAGE", "POWER",
      "POWER_LIMIT_MIN", "POWER_LIMIT_MAX", "FREQ", "FREQ_REQ", "FREQ_LIMIT_MIN",
      "FREQ_LIMIT_MAX", "ENERGY", "TEMP", "OS_ID", "THROTTLED_TIME",
      "THROTTLED_COUNT", "GOV">>

\* The attribute bitmasks.
node_attr   == {"POWER", "POWER_LIMIT_MAX", "ENERGY", "OS_ID"}
socket_attr == node_attr \cup {"TEMP", "THROTTLED_TIME"}
mem_attr    == node_attr \cup {"THROTTLED_TIME"}
pplane_attr == {"POWER", "ENERGY", "OS_ID"}
core_attr   == {"TEMP", "OS_ID"}
ht_attr     == {"CSTATE_LIMIT", "FREQ", "FREQ_REQ", "FREQ_LIMIT_MIN",
                "FREQ_LIMIT_MAX", "OS_ID", "GOV"}
supported_attr == socket_attr \cup ht_attr

Types == {"node", "socket", "mem", "pplane", "core", "ht"}
attr_bitmask == [node |-> node_attr, socket |-> socket_attr, mem |-> mem_attr,
                 pplane |-> pplane_attr, core |-> core_attr, ht |-> ht_attr]

validate_attr(type, a) ==
    IF a \notin ToSet(AttrNames) THEN "OUT_OF_RANGE"
    ELSE IF a \in attr_bitmask[type] THEN "SUCCESS" ELSE "NO_ATTRIB"

\* CRAYPWR_AttrGetCount, and CRAYPWR_AttrGetList for a list of len: the
\* result is a warning unless the scan came to the last attribute.
AttrGetCount(mask) == Cardinality(mask)
get_attr_list(mask, len) ==
    LET bits == SelectSeq(AttrNames, LAMBDA a : a \in mask)
        list == SubSeq(bits, 1, IF len < Len(bits) THEN len ELSE Len(bits))
        whole == Len(list) < len
                 \/ (len > 0 /\ list[len] = AttrNames[Len(AttrNames)])
    IN  [list |-> list, ret |-> IF whole THEN "SUCCESS" ELSE "WARN_TRUNC"]

-----------------------------------------------------------------------------
(* The metadata of each attribute.                                         *)

Meta(fixed, read) == [fixed |-> fixed, read |-> read]
Timed == {"TS_ACCURACY"}       \* the time that a read of the value takes
Common == {"NUM", "TS_LATENCY", "MEASURE_METHOD"}

x86_os_id_get_meta == Meta({"NUM", "MIN", "MAX"}, {})

x86_node_power_get_meta           == Meta(Common \cup {"UPDATE_RATE"}, Timed)
x86_node_power_limit_max_get_meta == Meta(Common \cup {"UPDATE_RATE"}, Timed)
x86_node_energy_get_meta          == Meta(Common \cup {"UPDATE_RATE"}, Timed)

x86_pplane_power_get_meta  == Meta(Common \cup {"UPDATE_RATE"}, Timed)
x86_pplane_energy_get_meta == Meta(Common \cup {"UPDATE_RATE"}, Timed)

x86_socket_power_get_meta ==
    Meta(Common \cup {"UPDATE_RATE", "TIME_WINDOW"}, Timed)
x86_socket_power_limit_max_get_meta ==
    Meta(Common \cup {"MIN"}, Timed \cup {"MAX", "TIME_WINDOW"})
x86_socket_energy_get_meta == Meta(Common \cup {"MIN"}, Timed \cup {"MAX"})
x86_socket_temp_get_meta   == Meta(Common \cup {"MIN"}, Timed \cup {"MAX"})
x86_socket_throttled_time_get_meta ==
    Meta(Common \cup {"MIN", "MAX"}, Timed \cup {"UPDATE_RATE"})

x86_mem_power_get_meta ==
    Meta(Common \cup {"UPDATE_RATE", "TIME_WINDOW"}, Timed)
x86_mem_power_limit_max_get_meta ==
    Meta(Common \cup {"MIN"}, Timed \cup {"MAX", "TIME_WINDOW"})
x86_mem_energy_get_meta == Meta(Common \cup {"MIN"}, Timed \cup {"MAX"})
\* The status starts as PWR_RET_NOT_IMPLEMENTED and only a read replaces it.
x86_mem_throttled_time_get_meta == Meta({}, Timed \cup {"UPDATE_RATE"})

x86_core_temp_get_meta == Meta(Common \cup {"MIN"}, Timed \cup {"MAX"})

Listed == Common \cup {"MIN", "MAX", "UPDATE_RATE", "VALUE_LEN"}
x86_ht_cstate_limit_get_meta   == Meta(Listed, Timed)
x86_ht_freq_get_meta           == Meta(Listed, Timed)
x86_ht_freq_req_get_meta       == Meta(Listed, Timed)
x86_ht_freq_limit_min_get_meta == Meta(Listed, Timed)
x86_ht_freq_limit_max_get_meta == Meta(Listed, Timed)
x86_ht_gov_get_meta            == Meta(Common \cup {"VALUE_LEN"}, Timed)

\* The dispatch of each kind of object on the attribute.
x86_node_get_meta == [OS_ID |-> x86_os_id_get_meta,
    POWER |-> x86_node_power_get_meta,
    POWER_LIMIT_MAX |-> x86_node_power_limit_max_get_meta,
    ENERGY |-> x86_node_energy_get_meta]
x86_pplane_get_meta == [OS_ID |-> x86_os_id_get_meta,
    POWER |-> x86_pplane_power_get_meta, ENERGY |-> x86_pplane_energy_get_meta]
x86_socket_get_meta == [OS_ID |-> x86_os_id_get_meta,
    POWER |-> x86_socket_power_get_meta,
    POWER_LIMIT_MAX |-> x86_socket_power_limit_max_get_meta,
    ENERGY |-> x86_socket_energy_get_meta, TEMP |-> x86_socket_temp_get_meta,
    THROTTLED_TIME |-> x86_socket_throttled_time_get_meta]
x86_mem_get_meta == [OS_ID |-> x86_os_id_get_meta,
    POWER |-> x86_mem_power_get_meta,
    POWER_LIMIT_MAX |-> x86_mem_power_limit_max_get_meta,
    ENERGY |-> x86_mem_energy_get_meta,
    THROTTLED_TIME |-> x86_mem_throttled_time_get_meta]
x86_core_get_meta == [OS_ID |-> x86_os_id_get_meta, TEMP |-> x86_core_temp_get_meta]
x86_ht_get_meta == [OS_ID |-> x86_os_id_get_meta,
    CSTATE_LIMIT |-> x86_ht_cstate_limit_get_meta,
    FREQ |-> x86_ht_freq_get_meta, FREQ_REQ |-> x86_ht_freq_req_get_meta,
    FREQ_LIMIT_MIN |-> x86_ht_freq_limit_min_get_meta,
    FREQ_LIMIT_MAX |-> x86_ht_freq_limit_max_get_meta,
    GOV |-> x86_ht_gov_get_meta]

obj_attr_get_meta_plugin(type) ==
    CASE type = "node" -> x86_node_get_meta [] type = "pplane" -> x86_pplane_get_meta
      [] type = "socket" -> x86_socket_get_meta [] type = "mem" -> x86_mem_get_meta
      [] type = "core" -> x86_core_get_meta [] type = "ht" -> x86_ht_get_meta

\* What is answered for every attribute: names, descriptions, the vendor, and
\* the length of the longest string.
obj_get_meta == {"NAME_LEN", "NAME", "DESC_LEN", "DESC", "VENDOR_INFO_LEN",
                 "VENDOR_INFO", "MAX_LEN"}

\* PWR_ObjAttrGetMeta, for an attribute or for the object ("NOT_SPECIFIED").
obj_attr_get_meta(type, a, m, readable) ==
    IF a # "NOT_SPECIFIED" /\ validate_attr(type, a) # "SUCCESS"
    THEN validate_attr(type, a)
    ELSE IF m \in obj_get_meta THEN "SUCCESS"
    ELSE IF a = "NOT_SPECIFIED" THEN "NO_META"
    ELSE LET t == obj_attr_get_meta_plugin(type)[a]
         IN  IF m \in t.fixed THEN "SUCCESS"
             ELSE IF m \in t.read THEN (IF readable THEN "SUCCESS" ELSE "FAILURE")
             ELSE IF t = x86_mem_throttled_time_get_meta
                     /\ m \in Common \cup {"MIN", "MAX"} THEN "NOT_IMPLEMENTED"
             ELSE "NO_META"

\* The attributes whose metadata the x86_*_set_meta functions do not refuse, and
\* obj_attr_set_meta_plugin over them.
x86_node_set_meta   == {}
x86_socket_set_meta == {"POWER", "POWER_LIMIT_MAX"}
x86_mem_set_meta    == {"POWER", "POWER_LIMIT_MAX"}
x86_core_set_meta   == {}
x86_pplane_set_meta == {}
x86_ht_set_meta     == {}
obj_attr_set_meta_plugin ==
    [node |-> x86_node_set_meta, socket |-> x86_socket_set_meta, mem |-> x86_mem_set_meta,
     core |-> x86_core_set_meta, pplane |-> x86_pplane_set_meta, ht |-> x86_ht_set_meta]

\* PWR_ObjAttrSetMeta: what is refused, with which code, before the value is
\* looked at; "SUCCESS" otherwise.
obj_attr_set_meta(type, a, m) ==
    IF validate_attr(type, a) # "SUCCESS" THEN validate_attr(type, a)
    ELSE IF m \notin {"UPDATE_RATE", "SAMPLE_RATE", "TIME_WINDOW"} THEN "READ_ONLY"
    ELSE IF a \notin obj_attr_set_meta_plugin[type] THEN "READ_ONLY"
    ELSE IF m # "TIME_WINDOW" THEN "NO_META" ELSE "SUCCESS"

-----------------------------------------------------------------------------
(* pwr_list_t: the values of an enumerable attribute.                      *)

EmptyList == [list |-> <<>>, min |-> 0, max |-> 0]

\* Mutant: the first value is not taken as minimum and maximum.
AddFirstLost(l, v) ==
    [list |-> Append(l.list, v),
     min |-> IF v < l.min THEN v ELSE l.min,
     max |-> IF v > l.max THEN v ELSE l.max]

pwr_list_add(l, v) ==
    [list |-> Append(l.list, v),
     min |-> IF l.list = <<>> \/ v < l.min THEN v ELSE l.min,
     max |-> IF l.list = <<>> \/ v > l.max THEN v ELSE l.max]

pwr_list_sort(l) == [l EXCEPT !.list = SortSeq(l.list, <)]

\* The metadata readers add what sysfs lists, one by one, and sort.
ReadList(raw) == pwr_list_sort(FoldLeft(pwr_list_add, EmptyList, raw))

pwr_list_value_at_index(l, i) ==
    IF i >= Len(l.list) THEN [ret |-> "BAD_INDEX"]
    ELSE [ret |-> "SUCCESS", value |-> l.list[i + 1]]

\* The enumerable attributes, by the x86_*_get_meta_at_index functions; their
\* PWR_MD_NUM is the length of the list, that of all others 0.
x86_obj_get_meta_at_index    == {}
x86_node_get_meta_at_index   == x86_obj_get_meta_at_index
x86_socket_get_meta_at_index == x86_obj_get_meta_at_index
x86_mem_get_meta_at_index    == x86_obj_get_meta_at_index
x86_core_get_meta_at_index   == x86_obj_get_meta_at_index
x86_pplane_get_meta_at_index == x86_obj_get_meta_at_index
x86_ht_get_meta_at_index ==
    x86_obj_get_meta_at_index \cup {"CSTATE_LIMIT", "FREQ", "FREQ_REQ", "FREQ_LIMIT_MIN",
                                    "FREQ_LIMIT_MAX", "GOV"}
get_meta_at_index ==
    [node |-> x86_node_get_meta_at_index, socket |-> x86_socket_get_meta_at_index,
     mem |-> x86_mem_get_meta_at_index, core |-> x86_core_get_meta_at_index,
     pplane |-> x86_pplane_get_meta_at_index, ht |-> x86_ht_get_meta_at_index]

PWR_MetaValueAtIndex(type, a, i, l) ==
    IF validate_attr(type, a) # "SUCCESS" THEN [ret |-> validate_attr(type, a)]
    ELSE IF a \in get_meta_at_index[type] THEN pwr_list_value_at_index(l, i)
    ELSE [ret |-> "NO_ATTRIB"]
=============================================================================
