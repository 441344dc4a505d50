-------------------------------- MODULE X86 ---------------------------------
(***************************************************************************)
(* The x86 plugin building the hierarchy of a context from sysfs           *)
(* (src/lib/plugins/x86/x86_plugin.c, x86_hierarchy.c), and the metadata   *)
(* it keeps in the global x86_metadata, which all contexts share.          *)
(*                                                                         *)
(* The construction reads sysfs in several steps, so CPUs may be taken     *)
(* offline or brought online between them.  An object is named by its kind *)
(* and numbers, <<"core", 0, 1>> for "core.0.1", and a hierarchy is a      *)
(* function from the names of its objects to their parents and the data    *)
(* the plugin keeps with them.  Allocations do not fail.                   *)
(***************************************************************************)
EXTENDS Integers, Sequences, FiniteSets

CONSTANTS
    Ctxs,          \* contexts of the process
    Machine,       \* what sysfs says of the machine: see MachineOK
    NoCtx,
    Overlap,       \* does the program open a context while another is live?
    MaxFaults      \* reads or writes that fail, and CPUs that are taken
                   \* offline or online, in a behaviour

Cpus == DOMAIN Machine.topo

\* A machine: the largest CPU number the kernel supports, the possible CPUs,
\* the package and core of each, the packages with RAPL domains, the sensors
\* that have a label, the values the scan rate may have, the frequencies, the
\* number of C-states.
MachineOK ==
    /\ Machine.max \in Nat /\ Machine.hz \subseteq Nat /\ Machine.cstates \in Nat
    /\ IsFiniteSet(Cpus) /\ Cpus \subseteq Nat
    /\ \A i \in Cpus : Machine.topo[i] \in Nat \X Nat
    /\ IsFiniteSet(Machine.freqs) /\ Machine.freqs \subseteq Nat \ {0}
ASSUME MachineAssumption == MachineOK

VARIABLES
    online,      \* the CPUs that are online now
    unplugged,   \* the CPUs whose state changed since a construction began
    md,          \* x86_metadata
    tree,        \* hierarchy of each context
    job,         \* the construction that runs, if any
    died,        \* the process was killed by a division by zero
    faults       \* how much has failed, up to MaxFaults

x86Vars == <<online, unplugged, md, tree, job, died, faults>>

NSEC_PER_SEC == 1000

Zeroed == [rate |-> 0, window |-> 0, cstate |-> <<>>, freq |-> <<>>,
           gov |-> <<>>, node |-> FALSE, socket |-> FALSE]

Idle == [ctx |-> NoCtx, pc |-> "idle", i |-> 0, ht |-> 0,
         possible |-> {}, seen |-> {}, status |-> "SUCCESS"]

NoTree == <<>>
Live(c) == tree[c] # NoTree /\ job.ctx # c

X86Init ==
    /\ online \in {Cpus} \cup {Cpus \ {i} : i \in Cpus}
    /\ online # {}
    /\ unplugged = {}
    /\ md = Zeroed
    /\ tree = [c \in Ctxs |-> NoTree]
    /\ job = Idle
    /\ died = FALSE
    /\ faults = 0

Fault   == faults < MaxFaults /\ faults' = faults + 1
NoFault == UNCHANGED faults

(***************************************************************************)
(* CPU lists.  A list is a sequence of ranges [beg, end, inc].             *)
(***************************************************************************)
\* A finite set of numbers as an increasing sequence.
InOrder(S) ==
    CHOOSE s \in [1..Cardinality(S) -> S] : \A i, j \in DOMAIN s : i < j => s[i] < s[j]

\* The list the kernel prints for a set of CPUs: its maximal runs, in order.
CpuList(S) ==
    LET first   == InOrder({b \in S : b - 1 \notin S})
        last(b) == CHOOSE e \in S : b <= e /\ b..e \subseteq S /\ e + 1 \notin S
    IN  [k \in DOMAIN first |-> [beg |-> first[k], end |-> last(first[k]), inc |-> 1]]

Sane(r) == r.inc > 0 /\ r.beg <= r.end
RangeBits(r) == {r.beg + k * r.inc : k \in 0..((r.end - r.beg) \div r.inc)}

\* Mutant: the end of a range does not belong to it.
ParseShort(list, used) ==
    UNION {{b \in RangeBits(list[k]) : b < used /\ b < list[k].end} :
              k \in DOMAIN list}

\* The bits that are set: the parser stops at the first range that is not
\* sane or leaves the mask, keeping the bits it has set by then.
x86_list_parse_bitmask(list, used) ==
    LET whole(k) == Sane(list[k]) /\ \A b \in RangeBits(list[k]) : b < used
        reached  == {k \in DOMAIN list : \A j \in 1..(k - 1) : whole(j)}
    IN  UNION {{b \in RangeBits(list[k]) : b < used} :
                    k \in {k \in reached : Sane(list[k])}}

(***************************************************************************)
(* The objects of a hierarchy.                                             *)
(***************************************************************************)
Node == <<"node", 0>>
NewObj(parent, via) == [parent |-> parent, via |-> via, temp |-> FALSE]

hierarchy_insert(t, parent, name, via) ==
    [n \in DOMAIN t \cup {name} |-> IF n = name THEN NewObj(parent, via) ELSE t[n]]

\* The socket and its memory; a package without RAPL domains is not added.
x86_find_socket(t, s, h) ==
    IF <<"socket", s>> \in DOMAIN t THEN [found |-> TRUE, tree |-> t]
    ELSE IF s \notin Machine.rapl THEN [found |-> FALSE, tree |-> t]
    ELSE [found |-> TRUE,
          tree  |-> hierarchy_insert(hierarchy_insert(t, Node, <<"socket", s>>, h),
                                     <<"socket", s>>, <<"mem", s>>, h)]

\* Mutant: the core is looked up by its number in the socket alone.
FindCoreAlone(t, s, k, h) ==
    IF \E n \in DOMAIN t : n[1] = "core" /\ n[3] = k THEN [found |-> TRUE, tree |-> t]
    ELSE LET r == x86_find_socket(t, s, h)
         IN  IF ~r.found THEN r
             ELSE [found |-> TRUE,
                   tree |-> hierarchy_insert(r.tree, <<"socket", s>>, <<"core", s, k>>, h)]

x86_find_core(t, s, k, h) ==
    IF <<"core", s, k>> \in DOMAIN t THEN [found |-> TRUE, tree |-> t]
    ELSE LET r == x86_find_socket(t, s, h)
         IN  IF ~r.found THEN r
             ELSE [found |-> TRUE,
                   tree |-> hierarchy_insert(r.tree, <<"socket", s>>, <<"core", s, k>>, h)]

\* The topology files of a CPU that is not online cannot be read; the error
\* is ignored and the numbers stay 0.
Package(h) == IF h \in online THEN Machine.topo[h][1] ELSE 0
CoreOf(h)  == IF h \in online THEN Machine.topo[h][2] ELSE 0

x86_find_ht(t, h) ==
    LET r == x86_find_core(t, Package(h), CoreOf(h), h)
    IN  IF ~r.found THEN r
        ELSE [found |-> TRUE,
              tree |-> hierarchy_insert(r.tree, <<"core", Package(h), CoreOf(h)>>,
                                        <<"ht", h>>, h)]

(***************************************************************************)
(* The construction, one step per file or directory that is read.          *)
(***************************************************************************)
\* new_hierarchy of a construction that failed: del_hierarchy, whose
\* destruct_hierarchy zeroes the metadata.
GiveUp == /\ md' = Zeroed
          /\ tree' = [tree EXCEPT ![job.ctx] = NoTree]
          /\ job' = Idle

Goto(pc) == job' = [job EXCEPT !.pc = pc]

PmCounters(hz, vendor) ==
    [Zeroed EXCEPT !.rate = hz, !.node = vendor, !.window = NSEC_PER_SEC \div hz]

\* The metadata of the pm_counters, then the root and its two power planes.
x86_read_pm_counters_metadata(c) ==
    /\ job = Idle /\ tree[c] = NoTree /\ ~died
    /\ Overlap \/ \A d \in Ctxs : tree[d] = NoTree
    /\ unplugged' = {}
    /\ UNCHANGED online
    /\ \/ /\ \E hz \in Machine.hz \ {0} :
                \/ NoFault /\ md' = PmCounters(hz, TRUE)
                \/ Fault   /\ md' = PmCounters(hz, FALSE)   \* no vendor information
          /\ tree' = [tree EXCEPT ![c] =
                 hierarchy_insert(hierarchy_insert(hierarchy_insert(NoTree,
                     NoCtx, Node, 0), Node, <<"pplane", 0>>, 0), Node, <<"pplane", 1>>, 0)]
          /\ job' = [Idle EXCEPT !.ctx = c, !.pc = "info"]
          /\ UNCHANGED died
       \/ /\ 0 \in Machine.hz /\ died' = TRUE      \* NSEC_PER_SEC / ival
          /\ UNCHANGED <<md, tree, job, faults>>
       \/ /\ Fault /\ md' = Zeroed
          /\ UNCHANGED <<tree, job, died>>

\* The masks have one bit for each CPU number below the largest.
x86_read_info ==
    /\ job.pc = "info"
    /\ \/ /\ job' = [job EXCEPT !.pc = "meta",
                 !.possible = x86_list_parse_bitmask(CpuList(Cpus), Machine.max),
                 !.seen     = x86_list_parse_bitmask(CpuList(online), Machine.max)]
          /\ UNCHANGED <<md, tree, faults>>
       \/ Fault /\ GiveUp
    /\ UNCHANGED <<online, unplugged, died>>

\* The C-states, frequencies and governors of the CPU the thread runs on.  A
\* failure is remembered and the topology is read all the same.
x86_read_ht_metadata ==
    /\ job.pc = "meta"
    /\ \E got \in 0..3 :
         /\ IF got = 3 THEN NoFault ELSE Fault
         /\ md' = [md EXCEPT
               !.cstate = IF got >= 1 THEN [k \in 1..Machine.cstates |-> k - 1] ELSE @,
               !.freq   = IF got >= 2 THEN InOrder(Machine.freqs) ELSE @,
               !.gov    = IF got >= 3 THEN Machine.govs ELSE @]
         /\ job' = [job EXCEPT !.pc = "cpu",
                               !.status = IF got = 3 THEN "SUCCESS" ELSE "FAILURE"]
    /\ UNCHANGED <<online, unplugged, tree, died>>

\* One turn of the loop over the possible CPUs.  The hardware thread gets the
\* number of possible CPUs before it, not the number of the CPU.
x86_read_topology ==
    /\ job.pc = "cpu"
    /\ IF job.i >= Machine.max
       THEN /\ IF job.status = "SUCCESS" THEN Goto("temp") /\ UNCHANGED <<md, tree>>
                                         ELSE GiveUp
       ELSE IF job.i \in job.possible /\ job.i \in job.seen
       THEN LET r == x86_find_ht(tree[job.ctx], job.ht)
            IN  IF r.found
                THEN /\ tree' = [tree EXCEPT ![job.ctx] = r.tree]
                     /\ md' = [md EXCEPT !.socket = <<"socket", 0>> \in DOMAIN r.tree]
                     /\ job' = [job EXCEPT !.i = @ + 1, !.ht = @ + 1]
                ELSE GiveUp
       ELSE /\ job' = [job EXCEPT !.i = @ + 1,
                          !.ht = @ + (IF job.i \in job.possible THEN 1 ELSE 0)]
            /\ UNCHANGED <<md, tree>>
    /\ UNCHANGED <<online, unplugged, died, faults>>

\* The sensors: hwmonN belongs to socket N, its labels name cores and the
\* package.  Every socket and core must end up with one.
SocketOf(n) == n[2]
Labelled(s) == {n \in Machine.labels : SocketOf(n) = s}

x86_scan_temp_dir(t) ==
    [n \in DOMAIN t |->
        [t[n] EXCEPT !.temp = /\ n[1] \in {"socket", "core"}
                              /\ SocketOf(n) \in Machine.hwmon
                              /\ n \in Machine.labels]]

x86_check_temp_id(t) == \A n \in DOMAIN t : n[1] \in {"socket", "core"} => t[n].temp

x86_read_temp_ids ==
    /\ job.pc = "temp"
    /\ LET t == x86_scan_temp_dir(tree[job.ctx])
           empty == \E s \in Machine.hwmon :
                        <<"socket", s>> \in DOMAIN t /\ Labelled(s) = {}
       IN  \/ /\ ~empty /\ x86_check_temp_id(t)
              /\ tree' = [tree EXCEPT ![job.ctx] = t]
              /\ job' = Idle
              /\ UNCHANGED <<md, faults>>
           \/ /\ empty \/ ~x86_check_temp_id(t)
              /\ GiveUp /\ NoFault
           \/ Fault /\ GiveUp
    /\ UNCHANGED <<online, unplugged, died>>

\* PWR_CntxtDestroy of a live context.
x86_destruct_hierarchy(c) ==
    /\ job = Idle /\ Live(c) /\ ~died
    /\ md' = Zeroed
    /\ tree' = [tree EXCEPT ![c] = NoTree]
    /\ UNCHANGED <<online, unplugged, job, died, faults>>

\* The administrator takes a CPU offline or brings it back.
Hotplug(i) ==
    /\ Fault /\ job # Idle
    /\ i \in online => online # {i}
    /\ online' = IF i \in online THEN online \ {i} ELSE online \cup {i}
    /\ unplugged' = unplugged \cup {i}
    /\ UNCHANGED <<md, tree, job, died>>

BuildStep == x86_read_info \/ x86_read_ht_metadata \/ x86_read_topology \/ x86_read_temp_ids

X86Next ==
    \/ \E c \in Ctxs : x86_read_pm_counters_metadata(c) \/ x86_destruct_hierarchy(c)
    \/ BuildStep
    \/ \E i \in Cpus : Hotplug(i)

(***************************************************************************)
(* Properties.                                                             *)
(***************************************************************************)
Hts(t) == {n[2] : n \in {m \in DOMAIN t : m[1] = "ht"}}

\* A hardware thread whose CPU kept its state since the construction began is
\* below the core and the socket the topology files name, and from every
\* object the parents lead to the node (x86_find_ht, x86_find_core,
\* x86_find_socket).  A socket and its memory come together, and the hardware
\* thread they use to reach the model specific registers is one of theirs.
Placed ==
    \A c \in Ctxs : \A n \in DOMAIN tree[c] :
       /\ n # Node => tree[c][n].parent \in DOMAIN tree[c]
       /\ n[1] = "ht" /\ n[2] \notin unplugged =>
             /\ tree[c][n].parent = <<"core", Machine.topo[n[2]][1], Machine.topo[n[2]][2]>>
             /\ tree[c][tree[c][n].parent].parent = <<"socket", Machine.topo[n[2]][1]>>
       /\ n[1] = "socket" =>
             /\ <<"mem", n[2]>> \in DOMAIN tree[c]
             /\ tree[c][n].via \notin unplugged => Machine.topo[tree[c][n].via][1] = n[2]

\* A finished hierarchy of a machine whose CPUs were left alone has one
\* hardware thread for each CPU that is online, and no other
\* (x86_read_topology's loop over the possible CPUs).
OnlineCpusOnly ==
    \A c \in Ctxs : Live(c) /\ unplugged = {} => Hts(tree[c]) = online

=============================================================================
