------------------------------- MODULE CpuDev -------------------------------
(***************************************************************************)
(* Sleep and performance states (src/lib/rolesys/app_os.c) on top of the   *)
(* cached tables of cpudev (cstate.c, freq.c), the attributes of the       *)
(* hardware threads (x86_obj_ht.c) and the files the daemon writes for     *)
(* them (write_cstate_limit).  One client uses the machine; what the       *)
(* daemon does for several is in Powerapid.                                *)
(*                                                                         *)
(* The tables are static variables of the library: they are read from the  *)
(* metadata of whichever context asks first and then kept, whatever        *)
(* becomes of that context.                                                *)
(***************************************************************************)
EXTENDS X86, CpuTables

CONSTANTS
    MaxCalls,    \* calls of a behaviour
    Turbo        \* a frequency that is not in the list

ASSUME DevAssumption == Turbo \notin Machine.freqs

VARIABLES
    freqs,       \* freq.c: freqs, fastest first; <<>> is NULL
    ps_to_freq,  \* freq.c
    lats,        \* cstate.c: latencies by C-state; <<>> is NULL
    ss_to_cs,    \* cstate.c
    hw,          \* the files of each CPU: disable, governor, frequency
    last,        \* the call that returned last
    calls

devVars == <<freqs, ps_to_freq, lats, ss_to_cs, hw, last, calls>>

NoCall == [op |-> "none", ret |-> "SUCCESS", cpu |-> 0, from |-> 0, want |-> 0,
           state |-> 0, clean |-> TRUE]

CstateFiles == 1..(Machine.cstates - 1)

DevInit ==
    /\ freqs = <<>> /\ ps_to_freq = Blank
    /\ lats = <<>>  /\ ss_to_cs = Blank
    /\ hw = [h \in Cpus |-> [disable |-> [k \in CstateFiles |-> FALSE],
                             gov |-> "ondemand", freq |-> Turbo]]
    /\ last = NoCall /\ calls = 0

\* The limit is below the first C-state that is disabled.
x86_ht_get_cstate_limit(h) ==
    LET off == {k \in CstateFiles : hw[h].disable[k]}
    IN  IF off = {} THEN (IF Machine.cstates = 0 THEN 0 ELSE Machine.cstates - 1)
        ELSE (CHOOSE k \in off : \A j \in off : k <= j) - 1

\* Mutant: the C-state of the limit itself is disabled.
WriteLimitBelow(file, limit, n) ==
    [file EXCEPT !.disable = [k \in CstateFiles |-> IF k <= n THEN k >= limit ELSE @[k]]]

\* The daemon writes the files in order and stops at one that fails: n of
\* them are written.
write_cstate_limit(file, limit, n) ==
    [file EXCEPT !.disable = [k \in CstateFiles |-> IF k <= n THEN k > limit ELSE @[k]]]

IsHt(o) == o[1] = "ht"

\* Mutant: the frequencies stay as sysfs lists them.
Ascending(s) == s

\* What the two init functions leave behind.  They only read the metadata
\* when nothing is cached; a processor without states returns success and
\* leaves the caller without a table.
Descending(s) == [k \in DOMAIN s |-> s[Len(s) - k + 1]]

init_freqs(o) ==
    IF freqs # <<>> THEN [ret |-> "SUCCESS", vals |-> freqs, map |-> ps_to_freq]
    ELSE IF ~IsHt(o) THEN [ret |-> "NO_ATTRIB", vals |-> <<>>, map |-> ps_to_freq]
    ELSE IF md.freq = <<>> THEN [ret |-> "SUCCESS", vals |-> <<>>, map |-> ps_to_freq]
    ELSE [ret |-> "SUCCESS", vals |-> Descending(md.freq),
          map |-> init_ps_to_freq(Len(md.freq))]

\* The latencies come from one file per C-state, which may not be readable;
\* C-state k wakes up in k.
init_cstate_limits(o, readable) ==
    IF lats # <<>> THEN [ret |-> "SUCCESS", vals |-> lats, map |-> ss_to_cs]
    ELSE IF ~IsHt(o) THEN [ret |-> "NO_ATTRIB", vals |-> <<>>, map |-> ss_to_cs]
    ELSE IF md.cstate = <<>> THEN [ret |-> "SUCCESS", vals |-> <<>>, map |-> ss_to_cs]
    ELSE [ret  |-> IF readable THEN "SUCCESS" ELSE "FAILURE",
          vals |-> IF readable THEN [k \in 1..Len(md.cstate) |-> k - 1] ELSE <<>>,
          map  |-> init_ss_to_cs(Len(md.cstate))]

\* A call on object o of a live context: a hardware thread, or a core with
\* its hardware threads, which has none of the attributes of its own.
Objects(c) == {n \in DOMAIN tree[c] : n[1] \in {"ht", "core"}}
Below(c, o) == IF IsHt(o) THEN {o[2]}
               ELSE {h \in Hts(tree[c]) : tree[c][<<"ht", h>>].parent = o}

Calling(c, o) == /\ job = Idle /\ ~died /\ Live(c) /\ o \in Objects(c)
                 /\ calls < MaxCalls /\ calls' = calls + 1
                 /\ UNCHANGED <<online, unplugged, md, tree, job, died>>

\* The C-states beyond the limit are all disabled, as a complete write leaves
\* them.
Threshold(h) == \A j, k \in CstateFiles : j < k /\ hw[h].disable[j] => hw[h].disable[k]

\* The call returns what rec says; tab is the table it worked with.
Returns(rec, tab) ==
    last' = [f \in DOMAIN NoCall |->
                IF f \in DOMAIN rec THEN rec[f]
                ELSE IF f = "ret" THEN tab.ret
                ELSE NoCall[f]]

SleepTable(tab)  == lats' = tab.vals /\ ss_to_cs' = tab.map /\ UNCHANGED <<freqs, ps_to_freq>>
PerfTable(tab)   == freqs' = tab.vals /\ ps_to_freq' = tab.map /\ UNCHANGED <<lats, ss_to_cs>>
OnCpus(c, o, new(_)) ==
    hw' = [h \in Cpus |-> IF h \in Below(c, o) THEN new(h) ELSE hw[h]]

PWR_SetSleepStateLimit(c, o, ss) ==
    /\ Calling(c, o)
    /\ \E readable \in BOOLEAN :
       LET tab  == init_cstate_limits(o, readable)
           want == tab.map[ss]
           all  == Machine.cstates - 1
       IN  /\ SleepTable(tab)
           /\ IF tab.ret # "SUCCESS" \/ want >= Machine.cstates  \* the daemon refuses it
              THEN /\ IF readable THEN NoFault ELSE Fault
                   /\ UNCHANGED hw /\ Returns([op |-> "fail"], tab)
              ELSE \E h \in Below(c, o), n \in 0..all :
                   /\ IF n = all THEN NoFault ELSE Fault
                   /\ OnCpus(c, o, LAMBDA k :
                          write_cstate_limit(hw[k], want, IF k = h THEN n ELSE all))
                   /\ Returns([op |-> "sleep", cpu |-> h, want |-> want, state |-> ss,
                               ret |-> IF n = all THEN "SUCCESS" ELSE "FAILURE",
                               from |-> x86_ht_get_cstate_limit(h),
                               clean |-> Threshold(h)], tab)

PWR_GetSleepState(c, o) ==
    /\ Calling(c, o)
    /\ LET tab == init_cstate_limits(o, TRUE)
       IN  /\ SleepTable(tab)
           /\ IF tab.ret = "SUCCESS" /\ IsHt(o)
              THEN Returns([op |-> "getsleep", cpu |-> o[2],
                            state |-> map_cs_to_ss(tab.map, x86_ht_get_cstate_limit(o[2]))], tab)
              ELSE Returns([op |-> "fail"], tab)
    /\ UNCHANGED <<hw, faults>>

\* PWR_RecommendSleepState, and PWR_WakeUpLatency, which reads one latency.
PWR_RecommendSleepState(c, o, latency) ==
    /\ Calling(c, o)
    /\ LET tab == init_cstate_limits(o, TRUE)
       IN  /\ SleepTable(tab)
           /\ IF tab.vals # <<>>
              THEN Returns([op |-> "recommend", want |-> latency,
                     state |-> Recommended(tab.map,
                                  [k \in 0..(Len(tab.vals) - 1) |-> tab.vals[k + 1]],
                                  latency)], tab)
              ELSE Returns([op |-> "fail"], tab)
    /\ UNCHANGED <<hw, faults>>

\* The governor first, then the frequency: when the second fails the first
\* stays changed.  Without a table the second reads a null pointer.
PWR_SetPerfState(c, o, ps) ==
    /\ Calling(c, o)
    /\ LET tab == init_freqs(o)
           Userspace(f) == OnCpus(c, o, LAMBDA k : [hw[k] EXCEPT !.gov = "userspace",
                                                   !.freq = IF f = Turbo THEN @ ELSE f])
       IN  /\ PerfTable(tab)
           /\ IF tab.ret # "SUCCESS"
              THEN UNCHANGED <<hw, faults>> /\ Returns([op |-> "fail"], tab)
              ELSE IF tab.vals = <<>>
              THEN Userspace(Turbo) /\ NoFault /\ Returns([op |-> "fail"], tab)
              ELSE LET f == tab.vals[tab.map[ps] + 1]
                       what == [op |-> "perf", want |-> f, state |-> ps,
                                cpu |-> CHOOSE h \in Below(c, o) : TRUE]
                       failed == [f2 \in DOMAIN what \cup {"ret"} |->
                                     IF f2 = "ret" THEN "FAILURE" ELSE what[f2]]
                   IN  \/ NoFault /\ Userspace(f)     /\ Returns(what, tab)
                       \/ Fault   /\ Userspace(Turbo) /\ Returns(failed, tab)
                       \/ Fault   /\ UNCHANGED hw     /\ Returns(failed, tab)

\* A governor other than userspace has any frequency.  One that is not in the
\* table has index -1 and counts as the fastest.
PWR_GetPerfState(c, o) ==
    /\ Calling(c, o)
    /\ LET tab == init_freqs(o)
       IN  /\ PerfTable(tab)
           /\ IF tab.ret = "SUCCESS" /\ IsHt(o)
              THEN \E f \in IF hw[o[2]].gov = "userspace" THEN {hw[o[2]].freq}
                            ELSE Machine.freqs \cup {Turbo} :
                     LET at == {k \in DOMAIN tab.vals : tab.vals[k] = f}
                     IN  Returns([op |-> "getperf", cpu |-> o[2], want |-> f,
                                  state |-> map_freq_to_ps(tab.map,
                                     IF at = {} THEN -1 ELSE (CHOOSE k \in at : TRUE) - 1)],
                                 tab)
              ELSE Returns([op |-> "fail"], tab)
    /\ UNCHANGED <<hw, faults>>

Init == X86Init /\ DevInit

Next ==
    \/ X86Next /\ UNCHANGED devVars
    \/ \E c \in Ctxs : \E o \in Objects(c) :
         \/ PWR_GetSleepState(c, o)
         \/ \E s \in States : PWR_SetSleepStateLimit(c, o, s) \/ PWR_SetPerfState(c, o, s)
         \/ \E l \in {-1, 1} : PWR_RecommendSleepState(c, o, l)
         \/ PWR_GetPerfState(c, o)

Spec == Init /\ [][Next]_<<x86Vars, devVars>>

(***************************************************************************)
(* Properties.                                                             *)
(***************************************************************************)
Between(x, a, b) == (a <= x /\ x <= b) \/ (b <= x /\ x <= a)

\* PWR_SetSleepStateLimit that succeeds leaves the limit of its sleep state,
\* and PWR_GetSleepState then answers with a state of the same C-state.  When
\* the daemon fails at one of the files (write_cstate_limit) the limit that
\* the next reader finds is between the old and the wanted one, if the write
\* before was complete: after two failures in a row it need not be.
LimitSetOrBetween ==
    last.op = "sleep" =>
       LET now == x86_ht_get_cstate_limit(last.cpu) IN
       /\ last.clean => Between(now, last.from, last.want)
       /\ last.ret = "SUCCESS" =>
             /\ now = last.want
             /\ ss_to_cs[map_cs_to_ss(ss_to_cs, now)] = now
             /\ map_cs_to_ss(ss_to_cs, now) <= last.state

\* After a PWR_SetPerfState that succeeded the CPU keeps the frequency of the
\* state, under the userspace governor, and PWR_GetPerfState answers a state
\* of that frequency: the tables, read fastest first, agree with the files, and
\* PWR_PERF_FASTEST and PWR_PERF_SLOWEST are the ends of what sysfs lists.
PerfStateKept ==
    last.op = "perf" /\ last.ret = "SUCCESS" =>
       /\ hw[last.cpu].gov = "userspace" /\ hw[last.cpu].freq = last.want
       /\ \A f \in Machine.freqs : /\ last.state = 0 => f <= last.want
                                   /\ last.state = 4 => f >= last.want
       /\ \E k \in DOMAIN freqs :
             /\ freqs[k] = hw[last.cpu].freq
             /\ map_freq_to_ps(ps_to_freq, k - 1) # -1
             /\ freqs[ps_to_freq[map_freq_to_ps(ps_to_freq, k - 1)] + 1] = last.want

=============================================================================
