----------------------------- MODULE MCObjects -----------------------------
(* A node with a power plane and two sockets: one with a memory and a core  *)
(* of two hardware threads, one with a core of one thread.  Programs set,   *)
(* get and set, or use metadata.                                            *)
EXTENDS Objects

Node    == <<"node", 0>>
Pplane  == <<"pplane", 0>>
Mem     == <<"mem", 0>>
Sock(i) == <<"socket", i>>
Core(i) == <<"core", i>>
Ht(i)   == <<"ht", i>>

Tree == Node :> <<Pplane, Sock(0), Sock(1)>> @@ Pplane :> <<>>
     @@ Sock(0) :> <<Mem, Core(0)>> @@ Mem :> <<>> @@ Core(0) :> <<Ht(0), Ht(1)>>
     @@ Ht(0) :> <<>> @@ Ht(1) :> <<>>
     @@ Sock(1) :> <<Core(1)>> @@ Core(1) :> <<Ht(2)>> @@ Ht(2) :> <<>>

Program(calls, attrs, objs, groups) ==
    [calls |-> calls, attrs |-> attrs, objs |-> objs, groups |-> groups]

Apps == {
    Program({"set"}, {<<"FREQ_REQ">>, <<"TEMP", "FREQ_REQ">>}, {Node, Sock(1)}, {<<Sock(0), Ht(0)>>}),
    Program({"set"}, {<<"POWER_LIMIT_MAX">>, <<"FREQ", "POWER_LIMIT_MAX">>}, {Node, Mem}, {<<Core(0), Pplane>>}),
    Program({"get", "set"}, {<<"FREQ_REQ">>, <<"FREQ_REQ", "FREQ_REQ">>, <<"POWER_LIMIT_MAX", "FREQ_REQ">>},
            {Ht(1)}, {<<Mem, Ht(2)>>}),
    Program({"get", "set"}, {<<"ENERGY">>, <<"POWER", "TEMP">>, <<"POWER_LIMIT_MAX">>},
            {Pplane, Node}, {<<Sock(0), Pplane>>}),
    Program({"meta"}, {}, {Sock(0), Core(1)}, {}),
    Program({"meta"}, {}, {Mem, Ht(0)}, {})}

\* What the kernel lists: nothing, one, ascending, descending, repeated.
Listings == {<<>>, <<3>>, <<1, 3>>, <<3, 2, 1>>, <<2, 3, 2>>}
Windows     == {0, 1, 2, 3, 4, 17, 41, 42, 61, 63}
=============================================================================
