------------------------------ MODULE MCPwrcmd ------------------------------
(* A node with two sockets, one of them with two hardware threads (cores    *)
(* left out), and lines for every command and most ways to get it wrong.    *)
EXTENDS Pwrcmd

Tree  == [n |-> <<"s0", "s1">>, s0 |-> <<"h0", "h1">>, s1 |-> <<>>, h0 |-> <<>>, h1 |-> <<>>]
Kinds == [n |-> "node", s0 |-> "socket", s1 |-> "socket", h0 |-> "ht", h1 |-> "ht"]
Heaps == {<<"n", "s0", "s1", "h0", "h1">>, <<"h1", "s1", "h0", "s0", "n">>}

O(letter, arg) == Option(letter, arg)
Get(names, attrs) == <<O("c", <<"get">>), O("n", names), O("a", attrs)>>
Set(names, attrs, values) ==
    <<O("c", <<"set">>), O("n", names), O("a", attrs), O("v", values)>>
List(what) == <<O("c", <<"list">>), O("l", <<what>>)>>
Trav(names, where) == <<O("c", <<"trav">>), O("n", names), O("t", <<where>>)>>

Good == {
    Get(<<"h0">>, <<"FREQ">>), Get(<<"h0">>, <<"FREQ", "TEMP">>),
    Get(<<"h1", "h0">>, <<"FREQ">>), Get(<<"s1", "s0">>, <<"TEMP", "POWER">>),
    Set(<<"h0">>, <<"GOV">>, <<"v">>), Set(<<"h0">>, <<"GOV", "FREQ_REQ">>, <<"v", "w">>),
    Set(<<"h0", "s0">>, <<"GOV">>, <<"v">>), Set(<<"h0", "h1">>, <<"GOV", "FREQ_REQ">>, <<"v", "w">>),
    Get(<<"s0">>, <<"POWER">>) \o <<O("m", <<"MAX">>)>>,
    Get(<<"h0">>, <<"FREQ">>) \o <<O("x", <<0>>)>>,
    Set(<<"s0">>, <<"POWER">>, <<"v">>) \o <<O("m", <<"TIME_WINDOW">>)>>,
    List("all"), List("hier"), List("name"), List("attr"),
    Trav(<<"s0">>, "up"), Trav(<<"s0">>, "down")}
Wrong == {
    Get(<<"??">>, <<"FREQ">>), Get(<<"h0", "", "??">>, <<"FREQ">>),
    Get(<<"??", "">>, <<"FREQ">>), Get(<<"", "">>, <<"FREQ">>),
    Get(<<"h0">>, <<"??", "FREQ">>), Get(<<"h0">>, <<"", "">>), Get(<<"h0">>, <<"PSTATE", "FREQ">>),
    Get(<<"h0", "h0">>, <<"FREQ">>), Get(<<"h0">>, <<"TEMP">>),
    Set(<<"h0">>, <<"GOV">>, <<"??">>), Set(<<"??">>, <<"GOV">>, <<"v">>),
    Set(<<"h0">>, <<"GOV">>, <<"v", "w">>), Set(<<"h0">>, <<"GOV", "??", "">>, <<"??", "v", "w">>),
    Set(<<"h0", "s0">>, <<"FREQ_REQ", "GOV">>, <<"??", "v">>),
    Get(<<"h0", "h1">>, <<"FREQ">>) \o <<O("m", <<"MAX">>)>>,
    Get(<<"h0", "h1">>, <<"FREQ">>) \o <<O("x", <<0>>)>>,
    Set(<<"h0">>, <<"GOV">>, <<"??">>) \o <<O("m", <<"MIN">>)>>,
    Trav(<<"n">>, "up"), Trav(<<"h0">>, "down"), Trav(<<"??">>, "up"),
    Trav(<<"s0", "s1">>, "up"), Get(<<"h0">>, <<"??">>),
    <<O("c", <<"list">>)>>, <<O("h", <<>>)>>, <<O("i", <<>>)>>, <<O("n", <<"n">>)>>,
    <<O("c", <<"get">>), O("c", <<"get">>)>>, <<O("?", <<>>)>>}
Text == {Append(line, O("s", <<>>)) : line \in {List("all"), Get(<<"??">>, <<"FREQ">>)}}

Sessions == {<<O("i", <<>>)>>, <<O("i", <<>>), O("s", <<>>)>>, <<O("i", <<>>), O("r", <<"APP">>)>>}
AllStarts == Good \cup Wrong \cup Text \cup Sessions
SomeLines == Good \cup Wrong \cup Text
             \cup {<<O("j", <<>>)>> \o List("name"), <<O("r", <<"APP">>)>> \o List("name")}
=============================================================================
