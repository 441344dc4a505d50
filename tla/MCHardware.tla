----------------------------- MODULE MCHardware -----------------------------
(***************************************************************************)
(* Small machines for the x86 plugin and the sleep and performance states. *)
(***************************************************************************)
EXTENDS CpuDev, TLC

\* Three CPUs on two packages; package 1 has one core.
Dense == [max |-> 4, hz |-> {0, 10}, cstates |-> 3, freqs |-> {12, 20},
          topo |-> (0 :> <<0, 0>> @@ 1 :> <<0, 1>> @@ 2 :> <<1, 0>>),
          rapl |-> {0, 1}, hwmon |-> {0, 1}, govs |-> <<"ondemand", "userspace">>,
          labels |-> {<<"socket", 0>>, <<"socket", 1>>, <<"core", 0, 0>>,
                      <<"core", 0, 1>>, <<"core", 1, 0>>}]
=============================================================================
