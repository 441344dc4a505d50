------------------------------- MODULE Objects -------------------------------
(***************************************************************************)
(* Attribute access of the library: single values, arrays of values with a *)
(* status object, and groups (src/lib/attributes.c), the dispatch on the   *)
(* type of object and the forwarding of a set to the children              *)
(* (src/lib/object.c), and the metadata that programs read and set         *)
(* (src/lib/plugins/x86).  The tables are in Metadata and AttrValues.      *)
(*                                                                         *)
(* Objects are named <<type, number>>.  A write goes through the daemon,   *)
(* which may refuse it with one of Errors.                                 *)
(***************************************************************************)
EXTENDS AttrValues, FiniteSetsExt

CONSTANTS
    Children,     \* the hierarchy: the children of each object, in order
    Values,       \* values that programs set attributes to
    Sensor,       \* what a file that is only read contains
    Errors,       \* errors the daemon may answer with
    MaxFailed,    \* failing requests in one call
    Programs,     \* the applications: lists of attributes, objects, groups, calls
    Lists,        \* the lists sysfs may show for an enumerable attribute
    MinWindow,    \* pm_counters_time_window, in nanoseconds
    Requests,     \* time windows programs ask for
    USec,         \* nanoseconds in a microsecond
    TimeMod,      \* PWR_Time is modulo this
    EnergyMod     \* the energy counter wraps here

Objs == DOMAIN Children
TypeOf(o) == o[1]

ASSUME ObjectsAssumption ==
    /\ \A o \in Objs : TypeOf(o) \in Types /\ ToSet(Children[o]) \subseteq Objs
    /\ Errors \cap {"SUCCESS", "NOT_IMPLEMENTED"} = {} /\ "FAILURE" \in Errors
    /\ Values \subseteq Nat /\ Sensor \in Nat
    /\ MinWindow \in Nat \ {0} /\ TimeMod \in Nat /\ 10 * MinWindow < TimeMod
    /\ USec \in Nat \ {0} /\ EnergyMod \in Nat \ {0}
    /\ Requests \subseteq 0..(TimeMod - 1)
    /\ Programs \subseteq [calls : SUBSET {"get", "set", "meta"}, attrs : SUBSET Seq(supported_attr),
                           objs : SUBSET Objs, groups : SUBSET Seq(Objs)]

VARIABLES
    prog,     \* the application
    raw,      \* what sysfs lists, the same list for every enumerable attribute
    val,      \* val[o, a]: the content of the file behind a settable attribute
    window,   \* power_time_window_meta of sockets and memories
    file,     \* the RAPL time window file of each, in microseconds
    asked,    \* history: the request behind window and file
    status,   \* the errors of the status object, oldest first
    out,      \* the output array of the last call, <<>> where not written
    last      \* the last call: what it accessed and how that went

vars == <<prog, raw, val, window, file, asked, status, out, last>>

-----------------------------------------------------------------------------
(* Setting one attribute of one object.                                    *)

ReadOnly(type) == SetterOf(type).readonly
Own(type)      == DOMAIN SetterOf(type).own
Settable == {x \in Objs \X supported_attr : x[2] \in Own(TypeOf(x[1]))}

\* Mutant: the last child decides.
MergeLast(acc, s) ==
    IF s = "NOT_IMPLEMENTED" THEN acc ELSE [implemented |-> TRUE, retval |-> s]

\* One turn of the loop of forward_attr_set_value over the children.
Merge(acc, s) ==
    IF s = "NOT_IMPLEMENTED" THEN acc
    ELSE LET first == IF acc.retval = "SUCCESS" THEN s ELSE acc.retval
         IN  [implemented |-> TRUE,
              retval |-> IF s # first /\ s # "SUCCESS" THEN "FAILURE" ELSE first]

forward_attr_set_value(statuses) ==
    LET r == FoldLeft(Merge, [implemented |-> FALSE, retval |-> "SUCCESS"], statuses)
    IN  IF r.implemented THEN r.retval ELSE "NOT_IMPLEMENTED"

\* The objects that a set of attribute a on p leads to.
Reached[p \in Objs, a \in supported_attr] ==
    IF a \in ReadOnly(TypeOf(p)) THEN {}
    ELSE IF a \in Own(TypeOf(p)) THEN {p}
    ELSE UNION {Reached[c, a] : c \in ToSet(Children[p])}

\* Those of them that the daemon is asked for: a setter that cannot convert
\* the value has failed before.
Asks(o, a, v) == {p \in Reached[o, a] : Converts(SetterOf(TypeOf(p)).own[a], v)}

\* PWR_ObjAttrSetValue: what comes back when the daemon refuses the objects p
\* of DOMAIN refused, with refused[p], and what was written.
ObjAttrSetValue(o, a, v, refused) ==
    LET asks == Asks(o, a, v)
        set[p \in Objs] ==
          IF a \in ReadOnly(TypeOf(p)) THEN "READ_ONLY"
          ELSE IF a \in Own(TypeOf(p))
          THEN IF p \notin asks THEN "FAILURE"
               ELSE IF p \in DOMAIN refused THEN refused[p] ELSE "SUCCESS"
          ELSE forward_attr_set_value([k \in DOMAIN Children[p] |-> set[Children[p][k]]])
    IN  [ret |-> set[o], written |-> asks \ DOMAIN refused]

\* The value that the content of the files makes attribute a of o have.
ValueOf(contents, o, a) ==
    ReadValue(GetterOf(TypeOf(o))[a],
              IF <<o, a>> \in Settable THEN contents[<<o, a>>] ELSE Sensor)

\* PWR_ObjAttrGetValue when the file is readable, unreadable or missing: the
\* code and what the output then holds.
ObjAttrGetValue(o, a, file_is) ==
    IF a \notin DOMAIN GetterOf(TypeOf(o)) THEN [ret |-> "NOT_IMPLEMENTED", out |-> <<>>]
    ELSE IF file_is = "readable" THEN [ret |-> "SUCCESS", out |-> <<ValueOf(val, o, a)>>]
    ELSE LET get == GetterOf(TypeOf(o))[a] IN
         IF file_is = "missing" /\ get.optional
         THEN [ret |-> "NOT_IMPLEMENTED", out |-> <<>>]
         ELSE [ret |-> "FAILURE", out |-> IF get.loose THEN <<0>> ELSE <<>>]

-----------------------------------------------------------------------------
(* Arrays and groups.  An access is an object, an attribute, the index a    *)
(* failure is reported with and the position of the value that is set.      *)

Access(o, a, i, j) == [obj |-> o, attr |-> a, index |-> i, pos |-> j]

\* PWR_ObjAttrGetValues, PWR_ObjAttrSetValues, PWR_GrpAttrGetValue,
\* PWR_GrpAttrSetValue, PWR_GrpAttrGetValues, PWR_GrpAttrSetValues: the
\* accesses, in order.
ObjAttrGetValues(o, attrs) == [k \in DOMAIN attrs |-> Access(o, attrs[k], k - 1, k)]
ObjAttrSetValues(o, attrs) == [k \in DOMAIN attrs |-> Access(o, attrs[k], 0, k)]
GrpAttrGetValue(objs, a)   == [k \in DOMAIN objs |-> Access(objs[k], a, k - 1, 1)]
GrpAttrSetValue(objs, a)   == [k \in DOMAIN objs |-> Access(objs[k], a, 0, 1)]

\* The loops over the objects and, inside, over the attributes.
Pairs(objs, attrs, index(_, _)) ==
    [k \in 1..(Len(objs) * Len(attrs)) |->
        LET i == (k - 1) \div Len(attrs)
            j == (k - 1) % Len(attrs)
        IN  Access(objs[i + 1], attrs[j + 1], index(i, j), j + 1)]
GrpAttrGetValues(objs, attrs) == Pairs(objs, attrs, LAMBDA i, j : i * Len(attrs) + j)
GrpAttrSetValues(objs, attrs) == Pairs(objs, attrs, LAMBDA i, j : j)

\* push_status_error for the accesses that failed, in order.
push_status_errors(accesses, rets) ==
    LET all == [k \in DOMAIN accesses |->
                   [obj |-> accesses[k].obj, name |-> accesses[k].attr,
                    index |-> accesses[k].index, error |-> rets[k]]]
    IN  Picked(all, {k \in DOMAIN accesses : rets[k] # "SUCCESS"})

\* Mutant: errors of earlier calls are kept.
ClearNothing(s) == s

\* clear_status, at the start of each call on arrays and groups.
clear_status(s) == <<>>

Report(accesses, rets) == status' = clear_status(status) \o push_status_errors(accesses, rets)

NoCall == [op |-> "none", accesses |-> <<>>, rets |-> <<>>, values |-> <<>>,
           failed |-> <<>>, ret |-> "SUCCESS"]
Overall(rets) == IF ToSet(rets) \subseteq {"SUCCESS"} THEN "SUCCESS" ELSE "FAILURE"
Done(op, accesses, rets, values, failed) ==
    last' = [op |-> op, accesses |-> accesses, rets |-> rets, values |-> values,
             failed |-> failed, ret |-> Overall(rets)]

metaVars == <<window, file, asked>>

\* The ways in which some of the requests of a call fail.
Failures(requests, errors) ==
    UNION {[F -> errors] : F \in {{}} \cup {Range(f) : f \in [1..MaxFailed -> requests]}}

\* A get of several values: each access goes on whatever happened to the ones
\* before it.
Gets(accesses) == \E failed \in Failures(DOMAIN accesses, {"unreadable", "missing"}) :
    LET res  == [k \in DOMAIN accesses |->
                   ObjAttrGetValue(accesses[k].obj, accesses[k].attr,
                                   IF k \in DOMAIN failed THEN failed[k] ELSE "readable")]
        rets == [k \in DOMAIN accesses |-> res[k].ret]
    IN  /\ Report(accesses, rets)
        /\ out' = [k \in DOMAIN accesses |-> res[k].out]
        /\ Done("gets", accesses, rets, <<>>, <<>>)
        /\ UNCHANGED <<prog, raw, val, metaVars>>

\* A set of several values, likewise.  Every access asks the daemon for each
\* object that has the attribute, and any of these requests may be refused.
Sets(accesses, values) ==
    LET Value(k) == values[accesses[k].pos]
        asks == {x \in (DOMAIN accesses) \X Objs :
                    x[2] \in Asks(accesses[x[1]].obj, accesses[x[1]].attr, Value(x[1]))}
    IN  \E failed \in Failures(asks, Errors) :
      LET Refused(k) == [p \in {q \in Objs : <<k, q>> \in DOMAIN failed} |-> failed[<<k, p>>]]
          res  == [k \in DOMAIN accesses |->
                     ObjAttrSetValue(accesses[k].obj, accesses[k].attr, Value(k), Refused(k))]
          rets == [k \in DOMAIN accesses |-> res[k].ret]
          Written(x) == {k \in DOMAIN accesses :
                           x[2] = accesses[k].attr /\ x[1] \in res[k].written}
      IN  /\ val' = [x \in Settable |->
                       IF Written(x) = {} THEN val[x]
                       ELSE Content(SetterOf(TypeOf(x[1])).own[x[2]],
                                    Value(Max(Written(x))))]
          /\ Report(accesses, rets)
          /\ out' = <<>>
          /\ Done("sets", accesses, rets, values, failed)
          /\ UNCHANGED <<prog, raw, metaVars>>

\* A program calls when it is done with the results of the call before.
May(name) == last.op = "none" /\ name \in prog.calls
UseResults ==
    /\ last.op # "none" /\ last' = NoCall /\ out' = <<>>
    /\ UNCHANGED <<prog, raw, val, metaVars, status>>
AttrLists == prog.attrs

\* A single object.  PWR_ObjAttrGetValue and PWR_ObjAttrSetValue are the
\* arrays of one; they leave a status object alone, which makes no difference
\* to the next call.
CallObj == \E o \in prog.objs, attrs \in AttrLists :
    \/ May("get") /\ Gets(ObjAttrGetValues(o, attrs))
    \/ May("set") /\ \E vs \in [DOMAIN attrs -> Values] : Sets(ObjAttrSetValues(o, attrs), vs)

CallGrp == \E objs \in prog.groups, attrs \in AttrLists :
    \/ May("get") /\ Len(attrs) = 1 /\ Gets(GrpAttrGetValue(objs, attrs[1]))
    \/ May("get") /\ Gets(GrpAttrGetValues(objs, attrs))
    \/ \E v \in Values : /\ May("set") /\ Len(attrs) = 1
                         /\ Sets(GrpAttrSetValue(objs, attrs[1]), <<v>>)
    \/ May("set") /\ \E vs \in [DOMAIN attrs -> Values] :
                         Sets(GrpAttrSetValues(objs, attrs), vs)

\* PWR_StatusPopError
StatusPopError ==
    /\ last.op = "none" /\ status # <<>> /\ status' = Tail(status)
    /\ UNCHANGED <<prog, raw, val, metaVars, out, last>>

-----------------------------------------------------------------------------
(* Metadata of the RAPL domains: sockets and memories.                     *)

Domains == {o \in Objs : TypeOf(o) \in {"socket", "mem"}}

\* x86_socket_power_set_meta, x86_mem_power_set_meta: PWR_Time arithmetic.
RoundWindow(t) == (((t + MinWindow \div 2) % TimeMod) \div MinWindow) * MinWindow

SetWindow(o, t) ==
    LET r == RoundWindow(t) IN
    /\ May("meta") /\ o \in Domains
    /\ IF MinWindow <= r /\ r <= 10 * MinWindow
       THEN /\ window' = [window EXCEPT ![o] = r]
            /\ asked' = [asked EXCEPT ![o].window = t]
            /\ Done("window", <<>>, <<"SUCCESS">>, <<t>>, <<>>)
       ELSE /\ Done("window", <<>>, <<"OUT_OF_RANGE">>, <<t>>, <<>>)
            /\ UNCHANGED <<window, asked>>
    /\ UNCHANGED <<prog, raw, val, file, status, out>>

\* x86_socket_power_limit_max_set_meta, x86_mem_power_limit_max_set_meta: the
\* daemon writes the file, in microseconds.
pwr_nsec_to_usec(t) == t \div USec
pwr_usec_to_nsec(t) == t * USec
SetLimitWindow(o, t) == \E ret \in Errors \cup {"SUCCESS"} :
    /\ May("meta") /\ o \in Domains
    /\ IF ret = "SUCCESS"
       THEN /\ file' = [file EXCEPT ![o] = pwr_nsec_to_usec(t)]
            /\ asked' = [asked EXCEPT ![o].file = t]
       ELSE UNCHANGED <<file, asked>>
    /\ Done("limitwindow", <<>>, <<ret>>, <<>>, <<>>)
    /\ UNCHANGED <<prog, raw, val, window, status, out>>

\* PWR_ObjAttrSetMeta on metadata that cannot be set.
SetOtherMeta(o, a, m) ==
    LET ret == obj_attr_set_meta(TypeOf(o), a, m) IN
    /\ May("meta") /\ ret # "SUCCESS"
    /\ Done("setmeta", <<>>, <<ret>>, <<>>, <<>>)
    /\ UNCHANGED <<prog, raw, val, metaVars, status, out>>

\* Mutant: no rollover.
EnergyNoRollover(e1, e2) == (e2 - e1) % TimeMod

\* The energy between two readings of the counter in x86_get_power.
EnergyUsed(e1, e2) == (IF e2 < e1 THEN e2 + EnergyMod ELSE e2) - e1

\* x86_get_power of a socket or memory: two readings, window[o] apart, while
\* the domain consumes a unit per MinWindow.
x86_get_power(o) == \E e1 \in 0..(EnergyMod - 1) :
    LET used == window[o] \div MinWindow
        e2   == (e1 + used) % EnergyMod
    IN  /\ May("meta") /\ o \in Domains /\ used < EnergyMod
        /\ Done("power", <<Access(o, "POWER", 0, 1)>>, <<"SUCCESS">>,
                <<EnergyUsed(e1, e2)>>, <<>>)
        /\ UNCHANGED <<prog, raw, val, metaVars, status, out>>

-----------------------------------------------------------------------------
Init ==
    /\ prog \in Programs
    /\ raw \in IF "meta" \in prog.calls THEN Lists ELSE {<<>>}
    /\ val = [x \in Settable |-> Sensor]
    /\ window = [o \in Domains |-> MinWindow] /\ file = [o \in Domains |-> 0]
    /\ asked = [o \in Domains |-> [window |-> MinWindow, file |-> 0]]
    /\ status = <<>> /\ out = <<>> /\ last = NoCall

Next ==
    \/ CallObj \/ CallGrp \/ StatusPopError \/ UseResults
    \/ \E o \in Domains \cap prog.objs, t \in Requests : SetWindow(o, t) \/ SetLimitWindow(o, t)
    \/ \E o \in prog.objs, a \in supported_attr, m \in {"MAX", "UPDATE_RATE", "TIME_WINDOW"} :
          SetOtherMeta(o, a, m)
    \/ \E o \in Domains \cap prog.objs : x86_get_power(o)

Spec == Init /\ [][Next]_vars

-----------------------------------------------------------------------------
(* Properties                                                              *)

\* Types of the variables.
TypeOK ==
    /\ prog \in Programs /\ val \in [Settable -> Nat]
    /\ window \in [Domains -> Nat] /\ file \in [Domains -> Nat]
    /\ \A k \in DOMAIN status : status[k].obj \in Objs /\ status[k].error # "SUCCESS"

Below[p \in Objs] == {p} \cup UNION {Below[c] : c \in ToSet(Children[p])}
Answers(type, a) == a \in Own(type) \cup ReadOnly(type)

\* Those at and below o that answer for attribute a: nobody above them does.
Answering == [o \in Objs, a \in supported_attr |->
    {p \in Below[o] : /\ Answers(TypeOf(p), a)
                      /\ \A q \in Below[o] \ {p} : p \in Below[q] => ~Answers(TypeOf(q), a)}]

Fractional(a, v) == a \in {"FREQ_REQ", "FREQ_LIMIT_MIN", "FREQ_LIMIT_MAX"} /\ v % One # 0

\* What the codes S say together, in whatever order they come.
Together(S) ==
    LET bad == S \ {"SUCCESS"}
    IN  IF S = {} THEN "NOT_IMPLEMENTED" ELSE IF bad = {} THEN "SUCCESS"
        ELSE IF Cardinality(bad) = 1 THEN CHOOSE s \in bad : TRUE ELSE "FAILURE"

\* A set that is forwarded down the hierarchy (forward_attr_set_value, nested)
\* reports what all the objects below that answer for the attribute say
\* together: success only if each was written, the error if there is only one
\* kind, PWR_RET_FAILURE for several, PWR_RET_NOT_IMPLEMENTED if nobody answers;
\* a frequency that is no whole number fails without a request, everything else
\* is asked for; afterwards exactly those that did not refuse read the value of
\* the last access that reached them, short of it by at most a millionth and on
\* the sockets of a Knights Landing only, no matter which of the others failed;
\* in a call on several objects or attributes no failure stops the accesses
\* after it.
ForwardReport == [][last'.op = "sets" =>
    LET Code(k, p) ==
          IF last'.accesses[k].attr \in ReadOnly(TypeOf(p)) THEN "READ_ONLY"
          ELSE IF Fractional(last'.accesses[k].attr, last'.values[last'.accesses[k].pos])
          THEN "FAILURE"
          ELSE IF <<k, p>> \in DOMAIN last'.failed THEN last'.failed[<<k, p>>]
          ELSE "SUCCESS"
        Reaching(x) == {k \in DOMAIN last'.accesses :
                          /\ x[2] = last'.accesses[k].attr
                          /\ x[1] \in Answering[last'.accesses[k].obj, x[2]]
                          /\ Code(k, x[1]) = "SUCCESS"}
    IN  /\ \A k \in DOMAIN last'.accesses :
             LET x == last'.accesses[k] IN
             last'.rets[k] = Together({Code(k, p) : p \in Answering[x.obj, x.attr]})
        /\ \A x \in Settable :
             IF Reaching(x) = {} THEN val'[x] = val[x]
             ELSE last'.values[last'.accesses[Max(Reaching(x))].pos] - ValueOf(val', x[1], x[2])
                    \in IF TypeOf(x[1]) = "socket" THEN {0, 1} ELSE {0}]_vars

\* After a get of several values each slot of the output array holds the value
\* its attribute now has, or the status object has one error with that index,
\* naming that object and attribute: also where a failed read has put 0 in the
\* slot; nothing is left from an earlier call (PWR_ObjAttrGetValues,
\* PWR_GrpAttrGetValue, PWR_GrpAttrGetValues, clear_status).
OutputOrError ==
    last.op = "gets" =>
      /\ (last.ret = "SUCCESS") <=> (status = <<>>)
      /\ \A k \in DOMAIN out :
           LET at == {e \in DOMAIN status : status[e].index = k - 1} IN
           IF at # {}
           THEN /\ Cardinality(at) = 1 /\ out[k] \in {<<>>, <<0>>}
                /\ \A e \in at : /\ status[e].obj = last.accesses[k].obj
                                 /\ status[e].name = last.accesses[k].attr
           ELSE out[k] = <<ValueOf(val, last.accesses[k].obj, last.accesses[k].attr)>>

\* The time window of a power reading is the multiple of the smallest window
\* nearest to the last request that was accepted, and the energy that was
\* consumed in it is what is reported, also when the counter rolls over in
\* between; the window of a limit reads back to the microsecond.
PowerWindow ==
    /\ \A o \in Domains :
         LET t == asked[o].window IN
         /\ window[o] % MinWindow = 0 /\ MinWindow <= window[o]
         /\ window[o] <= 10 * MinWindow
         /\ 2 * (window[o] - t) <= MinWindow /\ 2 * (t - window[o]) <= MinWindow
         /\ pwr_usec_to_nsec(file[o]) \in (asked[o].file - USec + 1)..asked[o].file
    /\ last.op = "power" =>
         last.values[1] = window[last.accesses[1].obj] \div MinWindow

\* "index from 0 to PWR_MD_NUM - 1": the values of an enumerable attribute are
\* there for exactly those indices, whatever the attribute and the object, and
\* ascending, with PWR_MD_MIN and PWR_MD_MAX at the ends, for numbers; every
\* attribute an object has says how many there are
\* (x86_mem_throttled_time_get_meta excepted, see the README); and the list that
\* CRAYPWR_AttrGetList fills for the count CRAYPWR_AttrGetCount gives is whole.
Enumerable ==
    /\ LET l == ReadList(raw)
           Num(t, a) == IF Listed \subseteq obj_attr_get_meta_plugin(t)[a].fixed
                           \/ a = "GOV" THEN Len(raw) ELSE 0
           At(i) == pwr_list_value_at_index(l, i)
       IN  /\ \A t \in Types : \A a \in attr_bitmask[t], i \in 0..(Len(raw) + 1) :
                (PWR_MetaValueAtIndex(t, a, i, l).ret = "SUCCESS") <=> i < Num(t, a)
           /\ \A i, j \in 0..(Len(raw) - 1) : i < j => At(i).value <= At(j).value
           /\ raw # <<>> => /\ l.min = At(0).value
                            /\ l.max = At(Len(raw) - 1).value
           /\ \A v \in ToSet(raw) : \E i \in 0..(Len(raw) - 1) : At(i).value = v
    /\ \A t \in Types, a \in supported_attr :
         /\ <<t, a>> # <<"mem", "THROTTLED_TIME">> =>
              obj_attr_get_meta(t, a, "NUM", FALSE) = validate_attr(t, a)
         /\ a \in DOMAIN GetterOf(t) <=> a \in attr_bitmask[t]
    /\ \A t \in Types :
         ToSet(get_attr_list(attr_bitmask[t], AttrGetCount(attr_bitmask[t])).list)
             = attr_bitmask[t]
    /\ get_attr_list(supported_attr, AttrGetCount(supported_attr)).ret = "SUCCESS"
=============================================================================
