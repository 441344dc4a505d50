----------------------------- MODULE AttrValues -----------------------------
(***************************************************************************)
(* How attributes are read and set: the *_attr_get_value and               *)
(* *_attr_set_value functions of src/lib/object.c and the getters and      *)
(* setters of src/lib/plugins/x86 they call.                               *)
(*                                                                         *)
(* A value of type double is an integer number of millionths, of which One *)
(* make a unit and Milli a thousandth; a file holds an integer whose unit  *)
(* depends on the file.                                                    *)
(***************************************************************************)
EXTENDS Metadata

CONSTANTS
    One,        \* millionths in a unit
    Milli,      \* millionths in a thousandth
    Knl,        \* the processor is a Knights Landing
    TimeUnit    \* the time unit field of MSR_PKG_POWER_SKU_UNIT

ASSUME ValuesAssumption ==
    /\ One \in Nat \ {0} /\ Milli \in 1..One
    /\ Knl \in BOOLEAN /\ TimeUnit \in Nat

\* x86_cpu_power_factor, as a fraction.
x86_cpu_power_factor == IF Knl THEN <<9, 10>> ELSE <<1, 1>>

-----------------------------------------------------------------------------
(* Getters: the value is the content of the file, times num, divided by den *)
(* and truncated.  A loose getter stores its value without looking at the   *)
(* result of the read, which leaves 0 if there is no file; the others leave *)
(* the output alone.  The file of an optional getter may be missing, which  *)
(* is not a failure but PWR_RET_NOT_IMPLEMENTED.                            *)

Getter(num, den) == [num |-> num, den |-> den, loose |-> FALSE, optional |-> FALSE]
Loose(num)       == [Getter(num, 1) EXCEPT !.loose = TRUE]
Optional(num)    == [Loose(num) EXCEPT !.optional = TRUE]

get_os_id == Getter(1, 1)

\* The energy counter, read twice: see x86_get_power in Objects.
Power == Getter(1, 1)
x86_get_time_unit      == 2 ^ TimeUnit
x86_get_throttled_time == Getter(1, x86_get_time_unit)

x86_node_get_power           == Loose(One)
x86_node_get_power_limit_max == Loose(One)
x86_node_get_energy          == Loose(One)

x86_pplane_get_power  == Optional(One)
x86_pplane_get_energy == Optional(One)

x86_socket_get_temp            == Getter(Milli, 1)
x86_socket_get_throttled_time  == x86_get_throttled_time
x86_socket_get_power           == Power
x86_socket_get_power_limit_max == Getter(x86_cpu_power_factor[2], x86_cpu_power_factor[1])
x86_socket_get_energy          == Loose(1)

x86_mem_get_throttled_time  == x86_get_throttled_time
x86_mem_get_power           == Power
x86_mem_get_power_limit_max == Getter(1, 1)
x86_mem_get_energy          == Loose(1)

x86_core_get_temp == Getter(Milli, 1)

x86_ht_get_freq           == Getter(One, 1)
x86_ht_get_freq_req       == Getter(One, 1)
x86_ht_get_freq_limit_min == Getter(One, 1)
x86_ht_get_freq_limit_max == Getter(One, 1)
x86_ht_get_governor       == Getter(1, 1)
x86_ht_get_cstate_limit   == Getter(1, 1)

\* read_val_from_file and the conversion of a getter.
ReadValue(get, content) == (content * get.num) \div get.den

-----------------------------------------------------------------------------
(* Setters: what the daemon is asked to write, unless the setter is exact   *)
(* and the value has no exact counterpart (convert_double_to_uint64).       *)

Setter(num, den, exact) == [num |-> num, den |-> den, exact |-> exact]
convert_double_to_uint64 == Setter(1, One, TRUE)

x86_socket_set_power_limit_max ==
    Setter(x86_cpu_power_factor[1], x86_cpu_power_factor[2], FALSE)
x86_mem_set_power_limit_max == Setter(1, 1, FALSE)
x86_ht_set_freq_req         == convert_double_to_uint64
x86_ht_set_freq_limit_min   == convert_double_to_uint64
x86_ht_set_freq_limit_max   == convert_double_to_uint64
x86_ht_set_governor         == Setter(1, 1, TRUE)
x86_ht_set_cstate_limit     == Setter(1, 1, TRUE)

Converts(set, v) == set.exact => (v * set.num) % set.den = 0
Content(set, v) == (v * set.num) \div set.den

-----------------------------------------------------------------------------
(* The switches over the attribute in src/lib/object.c.                     *)

node_attr_get_value == [OS_ID |-> get_os_id, POWER |-> x86_node_get_power,
    POWER_LIMIT_MAX |-> x86_node_get_power_limit_max, ENERGY |-> x86_node_get_energy]
socket_attr_get_value == [OS_ID |-> get_os_id, POWER |-> x86_socket_get_power,
    POWER_LIMIT_MAX |-> x86_socket_get_power_limit_max,
    ENERGY |-> x86_socket_get_energy, TEMP |-> x86_socket_get_temp,
    THROTTLED_TIME |-> x86_socket_get_throttled_time]
core_attr_get_value == [OS_ID |-> get_os_id, TEMP |-> x86_core_get_temp]
pplane_attr_get_value == [OS_ID |-> get_os_id, POWER |-> x86_pplane_get_power,
    ENERGY |-> x86_pplane_get_energy]
mem_attr_get_value == [OS_ID |-> get_os_id, POWER |-> x86_mem_get_power,
    POWER_LIMIT_MAX |-> x86_mem_get_power_limit_max, ENERGY |-> x86_mem_get_energy,
    THROTTLED_TIME |-> x86_mem_get_throttled_time]
ht_attr_get_value == [OS_ID |-> get_os_id,
    CSTATE_LIMIT |-> x86_ht_get_cstate_limit, FREQ |-> x86_ht_get_freq,
    FREQ_REQ |-> x86_ht_get_freq_req, FREQ_LIMIT_MIN |-> x86_ht_get_freq_limit_min,
    FREQ_LIMIT_MAX |-> x86_ht_get_freq_limit_max, GOV |-> x86_ht_get_governor]

\* The attributes that are refused and those with a setter; a set of any other
\* is forwarded to the children.
Set(readonly, own) == [readonly |-> readonly, own |-> own]
None == <<>>

node_attr_set_value == Set({"OS_ID", "POWER", "ENERGY"}, None)
socket_attr_set_value ==
    Set({"OS_ID", "POWER", "ENERGY", "THROTTLED_TIME", "TEMP"},
        [POWER_LIMIT_MAX |-> x86_socket_set_power_limit_max])
core_attr_set_value == Set({"OS_ID", "TEMP"}, None)
pplane_attr_set_value == Set({"OS_ID", "POWER", "ENERGY"}, None)
mem_attr_set_value == Set({"OS_ID", "POWER", "ENERGY", "THROTTLED_TIME"},
                          [POWER_LIMIT_MAX |-> x86_mem_set_power_limit_max])
ht_attr_set_value ==
    Set({"OS_ID", "FREQ"},
        [CSTATE_LIMIT |-> x86_ht_set_cstate_limit, FREQ_REQ |-> x86_ht_set_freq_req,
         FREQ_LIMIT_MIN |-> x86_ht_set_freq_limit_min,
         FREQ_LIMIT_MAX |-> x86_ht_set_freq_limit_max, GOV |-> x86_ht_set_governor])

\* The switches over the type of the object in src/lib/attributes.c.
GetterOf(type) ==
    CASE type = "node"   -> node_attr_get_value   [] type = "mem"  -> mem_attr_get_value
      [] type = "socket" -> socket_attr_get_value [] type = "core" -> core_attr_get_value
      [] type = "pplane" -> pplane_attr_get_value [] type = "ht"   -> ht_attr_get_value
SetterOf(type) ==
    CASE type = "node"   -> node_attr_set_value   [] type = "mem"  -> mem_attr_set_value
      [] type = "socket" -> socket_attr_set_value [] type = "core" -> core_attr_set_value
      [] type = "pplane" -> pplane_attr_set_value [] type = "ht"   -> ht_attr_set_value
=============================================================================
