----------------------------- MODULE CpuTables ------------------------------
(***************************************************************************)
(* The tables that map the five sleep states onto the C-states and the     *)
(* five performance states onto the frequencies of the processor           *)
(* (src/lib/plugins/cpudev/cstate.c, freq.c).  The two are the same        *)
(* arithmetic: 0 is PWR_SLEEP_NO or PWR_PERF_FASTEST, 4 is                 *)
(* PWR_SLEEP_DEEPEST or PWR_PERF_SLOWEST.                                  *)
(***************************************************************************)
EXTENDS Integers

States == 0..4

\* The table of a processor with n C-states, or n frequencies.
init_ss_to_cs(n) ==
    LET jump == (n - 2) \div 3 IN
    [i \in States |->
        IF n <= 1 \/ i = 0 THEN 0
        ELSE IF i = 4 THEN n - 1
        ELSE IF jump >= 1 THEN jump * i
        ELSE IF n = 4 /\ i = 3 THEN 2
        ELSE 1]

init_ps_to_freq(n) == init_ss_to_cs(n)

\* The tables before the first call of an init function: all zero.
Blank == [i \in States |-> 0]

\* The first state whose entry is at least x, or -1.
map_cs_to_ss(table, x) ==
    IF \E i \in States : table[i] >= x
    THEN CHOOSE i \in States : table[i] >= x /\ \A j \in 0..(i - 1) : table[j] < x
    ELSE -1

map_freq_to_ps(table, x) == map_cs_to_ss(table, x)

\* The deepest sleep state that wakes up within the latency, or -1: the loop
\* of PWR_RecommendSleepState runs past PWR_SLEEP_NO when none does.
Recommended(table, lats, latency) ==
    IF \E i \in States : lats[table[i]] <= latency
    THEN CHOOSE i \in States : /\ lats[table[i]] <= latency
                               /\ \A j \in (i + 1)..4 : lats[table[j]] > latency
    ELSE -1
=============================================================================
