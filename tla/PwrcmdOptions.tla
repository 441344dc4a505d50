---------------------------- MODULE PwrcmdOptions ----------------------------
(***************************************************************************)
(* The command line of pwrcmd (src/clients/pwrcmd/pwrcmd.c): the scan of   *)
(* the options, the checks on their combination, and the function that a   *)
(* command is dispatched to.  An option is a record of its letter and its  *)
(* argument, a sequence of the tokens between the commas.  "" is an empty  *)
(* token, and "??" one that names nothing.                                 *)
(***************************************************************************)
EXTENDS Metadata

Letters == {"a", "c", "h", "i", "j", "l", "m", "n", "r", "s", "t", "v", "x"}
Option(letter, arg) == [letter |-> letter, arg |-> arg]
NoFlags == [l \in Letters |-> 0]

\* INIT_CMD_OPT.  The count of each list is its length.
InitCmdOpt == [type |-> "invalid", list |-> "invalid", trav |-> "invalid",
               attr |-> "NOT_SPECIFIED", meta |-> "NOT_SPECIFIED", index |-> -1,
               names |-> <<>>, attrs |-> <<>>, values |-> <<>>]

\* A line that cannot be understood: help_try_exit.
Scan(flags, opt, bad) == [flags |-> flags, opt |-> opt, bad |-> bad]

\* Options that are refused when given twice.
Once == {"a", "c", "l", "m", "n", "r", "t", "v", "x"}

\* What an argument must be.  parse_cmdopt_arg looks at the name of an
\* attribute only when it is alone, and at names and values not at all.
get_meta_enum(m) == m \in {"NUM", "MIN", "MAX", "DESC", "TIME_WINDOW"}
get_role_enum(r) == r # "??"
GoodArg(o) ==
    CASE o.letter = "a" -> Len(o.arg) # 1 \/ o.arg[1] \in ToSet(AttrNames)
      [] o.letter = "c" -> o.arg[1] \in {"get", "set", "list", "trav"}
      [] o.letter = "l" -> o.arg[1] \in {"all", "attr", "hier", "name"}
      [] o.letter = "t" -> o.arg[1] \in {"up", "down"}
      [] o.letter = "m" -> get_meta_enum(o.arg[1])
      [] o.letter = "r" -> get_role_enum(o.arg[1])
      [] OTHER -> o.letter # "?"

Store(opt, o) ==
    CASE o.letter = "a" -> [opt EXCEPT !.attrs = o.arg,
                              !.attr = IF Len(o.arg) = 1 THEN o.arg[1] ELSE @]
      [] o.letter = "n" -> [opt EXCEPT !.names = o.arg]
      [] o.letter = "v" -> [opt EXCEPT !.values = o.arg]
      [] o.letter = "c" -> [opt EXCEPT !.type = o.arg[1]]
      [] o.letter = "l" -> [opt EXCEPT !.list = o.arg[1]]
      [] o.letter = "t" -> [opt EXCEPT !.trav = o.arg[1]]
      [] o.letter = "m" -> [opt EXCEPT !.meta = o.arg[1]]
      [] o.letter = "x" -> [opt EXCEPT !.index = o.arg[1]]
      [] OTHER -> opt

\* One turn of the getopt loop of parse_cmd_line.
ScanOption(acc, o) ==
    IF acc.bad THEN acc
    ELSE LET flags == [l \in Letters |->
                         IF l = "s" /\ o.letter = "j" THEN 0
                         ELSE IF l = o.letter THEN acc.flags[l] + 1 ELSE acc.flags[l]]
         IN  IF (o.letter \in Once /\ flags[o.letter] > 1) \/ ~GoodArg(o)
             THEN Scan(flags, acc.opt, TRUE)
             ELSE Scan(flags, Store(acc.opt, o), FALSE)

\* The combination of options of a command.
GoodCommand(flags, opt) ==
    LET Has(l) == flags[l] > 0 IN
    /\ Has("c")
    /\ CASE opt.type = "get"  -> /\ Has("n") /\ (Has("m") \/ Has("a"))
                                 /\ ~Has("v") /\ ~Has("l")
         [] opt.type = "set"  -> /\ Has("a") /\ Has("n") /\ Has("v") /\ ~Has("l")
         [] opt.type = "list" -> /\ Has("l") /\ ~Has("a") /\ ~Has("n") /\ ~Has("v")
         [] opt.type = "trav" -> /\ Has("t") /\ Has("n") /\ ~Has("a") /\ ~Has("v")
                                 /\ Len(opt.names) = 1

\* What parse_cmd_line makes of a line: an "error" (a message, or the help),
\* a change to "interactive" mode, or a "command" with or without JSON.
parse_cmd_line(line, dflt, interactive) ==
    LET acc == FoldLeft(ScanOption, Scan(dflt, InitCmdOpt, FALSE), line)
        Has(l) == acc.flags[l] > 0
        is == IF acc.bad \/ Has("h") THEN "error"
              ELSE IF Has("i")
              THEN IF interactive \/ \E l \in {"a", "c", "l", "m", "n", "t", "v"} : Has(l)
                   THEN "error" ELSE "interactive"
              ELSE IF GoodCommand(acc.flags, acc.opt) THEN "command" ELSE "error"
    IN  [is |-> is, opt |-> acc.opt, flags |-> acc.flags, json |-> ~Has("s")]

\* The function that process_command calls.
Dispatch(opt) ==
    LET One(s) == Len(s) = 1
        Access(one, attrs, grp, grpattrs) ==
          IF One(opt.names) /\ One(opt.attrs) THEN one
          ELSE IF One(opt.names) THEN attrs
          ELSE IF One(opt.attrs) THEN grp ELSE grpattrs
    IN  CASE opt.type = "list" -> "get_list"
          [] opt.type = "get" /\ opt.index # -1 -> "get_meta_at_index"
          [] opt.type = "get" /\ opt.index = -1 /\ opt.meta # "NOT_SPECIFIED" -> "get_meta"
          [] opt.type = "get" /\ opt.index = -1 /\ opt.meta = "NOT_SPECIFIED" ->
               Access("get_attr", "get_attrs", "get_grp_attr", "get_grp_attrs")
          [] opt.type = "set" /\ opt.meta # "NOT_SPECIFIED" -> "set_meta"
          [] opt.type = "set" /\ opt.meta = "NOT_SPECIFIED" ->
               Access("set_attr", "set_attrs", "set_grp_attr", "set_grp_attrs")
          [] opt.type = "trav" -> IF opt.trav = "up" THEN "get_parent" ELSE "get_children"
=============================================================================
