------------------------------- MODULE Pwrcmd -------------------------------
(***************************************************************************)
(* The pwrcmd client (src/clients/pwrcmd): command line or interactive     *)
(* prompt, the functions that exercise the library, and the JSON document  *)
(* that they write.  Nothing runs concurrently here, so a command is one   *)
(* step; what makes it hard is the state that stays between the commands   *)
(* of an interactive session.                                              *)
(*                                                                         *)
(* The library is used through what its calls answer (see Library and      *)
(* Objects for how): a value read is the pair of object and attribute that *)
(* it belongs to, and any access may fail.                                 *)
(***************************************************************************)
EXTENDS PwrcmdOptions, FiniteSetsExt

CONSTANTS
    Children,     \* the hierarchy, by name: the children of each object
    Root,         \* its entry point
    Type,         \* the type of each object
    Orders,       \* orders in which objects may lie in memory
    Starts,       \* command lines of the program
    Lines,        \* command lines after "do" at the prompt
    MaxCommands,  \* commands in a session
    MaxFailed     \* accesses that fail in one command

Objs == DOMAIN Children

ASSUME PwrcmdAssumption ==
    /\ Root \in Objs /\ DOMAIN Type = Objs
    /\ \A o \in Objs : ToSet(Children[o]) \subseteq Objs
    /\ Orders \subseteq Seq(Objs)
    /\ \A s \in Orders : ToSet(s) = Objs /\ Len(s) = Cardinality(Objs)
    /\ \A line \in Starts \cup Lines :
          line \in Seq(ToSet(line)) /\ \A o \in ToSet(line) : o.arg \in Seq(ToSet(o.arg))

VARIABLES
    phase,    \* "start", "init", "prompt", "command", "exit", "exited", "crashed"
    dflt,     \* flags of the command line, the defaults of the session
    cmd,      \* cmd_opt
    json,     \* the output module, see below
    docs,     \* documents printed since the command was read
    ctx,      \* the context exists
    order,    \* where the objects lie
    sent,     \* the <<object, attribute, value>> set by the command
    done      \* commands of the session

vars == <<phase, dflt, cmd, json, docs, ctx, order, sent, done>>

-----------------------------------------------------------------------------
(* io.c.  The document under construction: on is cout # NULL, ret is        *)
(* cson_ret_code, any is num_objects > 0.  cerrmsgs is the array of error   *)
(* messages: it belongs to the document, but the pointer to it is kept in   *)
(* a variable of its own.  ub says that it was used after it was freed, and *)
(* first is the first error since the document was begun.                   *)

NoBody == [vals |-> <<>>, status |-> <<>>, tree |-> {}, names |-> {},
           attrs |-> <<>>, value |-> "none"]
InitJson == [on |-> FALSE, ret |-> "SUCCESS", any |-> FALSE, body |-> NoBody,
             errs |-> <<>>, cerrmsgs |-> "none", ub |-> FALSE, first |-> "SUCCESS"]

json_disable_output(j) ==
    [j EXCEPT !.on = FALSE, !.body = NoBody, !.errs = <<>>,
              !.cerrmsgs = IF @ = "live" THEN "freed" ELSE @]

\* Mutant: the return code is that of the command before.
EnableKeepsCode(j) == [json_disable_output(j) EXCEPT !.on = TRUE, !.any = FALSE,
                                                    !.first = "SUCCESS"]

json_enable_output(j) ==
    [json_disable_output(j) EXCEPT !.on = TRUE, !.ret = "SUCCESS", !.any = FALSE,
                                      !.first = "SUCCESS"]

json_set_ret_code(j, code) == [j EXCEPT !.ret = IF @ = "SUCCESS" THEN code ELSE @]

\* PRINT_ERRCODE: into the document, or on stderr.
json_print(j, code) ==
    IF ~j.on THEN j
    ELSE [json_set_ret_code(j, code) EXCEPT !.any = TRUE,
            !.first = IF @ = "SUCCESS" THEN code ELSE @,
            !.errs = IF j.cerrmsgs = "freed" THEN @ ELSE Append(@, code),
            !.cerrmsgs = IF @ = "none" THEN "live" ELSE @,
            !.ub = @ \/ j.cerrmsgs = "freed"]
PrintAll(j, codes) == FoldLeft(json_print, j, codes)

\* The json_add functions: an entry of the document, or a line on stdout.
json_add(j, body) == IF j.on THEN [j EXCEPT !.body = body, !.any = TRUE] ELSE j

Document(j) == [ret |-> j.ret, errs |-> j.errs, body |-> j.body, first |-> j.first]

json_flush_output(j, force) ==
    IF j.on /\ (force \/ j.any)
    THEN [json |-> json_enable_output(j), docs |-> <<Document(j)>>]
    ELSE [json |-> j, docs |-> <<>>]

-----------------------------------------------------------------------------
(* The arguments of a command.  A name, an attribute or a value that is     *)
(* empty is skipped; one that is unknown is reported and skipped.           *)

Known(name) == name \in Objs

\* The places of the names that are reported, and the reports.
Unknown(names, known)  == {k \in DOMAIN names : names[k] \notin known \cup {""}}
Failures(names, known) == [k \in 1..Cardinality(Unknown(names, known)) |-> "FAILURE"]

\* Mutant: unknown names are skipped without a message.
GroupSilent(names) ==
    [objs |-> Only(order, ToSet(names)), count |-> Len(Only(names, Objs)), errs |-> <<>>]

\* The group holds an object once, in the order of memory.
create_group(names) ==
    [objs |-> Only(order, ToSet(names)), count |-> Len(Only(names, Objs)),
     errs |-> Failures(names, Objs)]

\* What a single name stands for: PWR_CntxtGetObjByName.
GetObjByName(name) ==
    IF Known(name) THEN [objs |-> <<name>>, count |-> 1, errs |-> <<>>]
    ELSE [objs |-> <<>>, count |-> 0, errs |-> <<"NO_OBJ_BY_NAME">>]

create_attrs(attrs) ==
    [attrs |-> Only(attrs, ToSet(AttrNames)),
     errs |-> Failures(attrs, ToSet(AttrNames))]

\* cmd_parse_attr_val
ParsedValue(v) == v \notin {"", "??"}

create_values(attrs, values) ==
    LET Step(acc, k) ==
          IF attrs[k] = "" \/ values[k] = "" THEN acc
          ELSE IF attrs[k] \notin ToSet(AttrNames)
          THEN [acc EXCEPT !.errs = Append(@, "FAILURE")]
          ELSE IF ~ParsedValue(values[k])
          THEN [acc EXCEPT !.errs = @ \o <<"BAD_VALUE", "FAILURE">>]
          ELSE [acc EXCEPT !.attrs = Append(@, attrs[k]), !.values = Append(@, values[k])]
    IN  FoldLeft(Step, [attrs |-> <<>>, values |-> <<>>, errs |-> <<>>],
                 [k \in DOMAIN attrs |-> k])

\* A result: the output module after the command, and what it set.
Result(j, set) == [json |-> j, sent |-> set]
Fail(j, codes) == Result(PrintAll(j, codes), {})

\* What the commands that get values do with them: PWR_ObjAttrGetValue and its
\* fellows, where the accesses of failed fail, and the rendering of the array
\* they fill.  The array has room for count objects.
Slot(objs, attrs, k) ==
    <<objs[((k - 1) \div Len(attrs)) + 1], attrs[((k - 1) % Len(attrs)) + 1]>>
GetCode(x, failed) ==
    IF x[2] \notin attr_bitmask[Type[x[1]]] THEN "NOT_IMPLEMENTED"
    ELSE IF x \in failed THEN "FAILURE" ELSE "SUCCESS"

\* Mutant: the index of the attribute in the list.
StatusPerObject(objs, attrs, failed) ==
    LET all == [k \in 1..(Len(objs) * Len(attrs)) |->
                  [access |-> Slot(objs, attrs, k), index |-> (k - 1) % Len(attrs),
                   error |-> GetCode(Slot(objs, attrs, k), failed)]]
    IN  Picked(all, {k \in DOMAIN all : all[k].error # "SUCCESS"})

\* json_render_status
json_render_status(objs, attrs, failed) ==
    LET all == [k \in 1..(Len(objs) * Len(attrs)) |->
                  [access |-> Slot(objs, attrs, k), index |-> k - 1,
                   error |-> GetCode(Slot(objs, attrs, k), failed)]]
    IN  Picked(all, {k \in DOMAIN all : all[k].error # "SUCCESS"})

\* json_render_attr_value for each slot: an attribute without a type to print
\* is reported, and leaves nothing in the list.
RenderValues(j, objs, attrs, count, failed) ==
    LET Value(k) == IF /\ k <= Len(objs) * Len(attrs)
                       /\ GetCode(Slot(objs, attrs, k), failed) = "SUCCESS"
                    THEN Slot(objs, attrs, k) ELSE <<>>
        Step(acc, k) == IF attrs[((k - 1) % Len(attrs)) + 1] \in supported_attr
                        THEN [acc EXCEPT !.vals = Append(@, Value(k))]
                        ELSE [acc EXCEPT !.errs = Append(@, "FAILURE")]
        r == FoldLeft(Step, [vals |-> <<>>, errs |-> <<>>],
                      [k \in 1..(count * Len(attrs)) |-> k])
        k == json_add(j, [j.body EXCEPT !.vals = r.vals,
                            !.status = json_render_status(objs, attrs, failed)])
    IN  PrintAll(k, r.errs)

\* One value: PWR_ObjAttrGetValue.
cmd_get_attr(j, opt, failed) ==
    LET t == GetObjByName(opt.names[1])
        code == GetCode(<<t.objs[1], opt.attr>>, failed)
    IN  IF t.count = 0 THEN Fail(j, t.errs)
        ELSE IF code # "SUCCESS" THEN Fail(j, <<code>>)
        ELSE Result(RenderValues(j, t.objs, <<opt.attr>>, 1, failed), {})

\* Arrays: what is left of the names and of the attributes, if anything, is
\* read at once, and rendered whether or not something failed.
GetArrays(j, t, a, failed) ==
    LET k   == PrintAll(j, t.errs \o a.errs)
        bad == json_render_status(t.objs, a.attrs, failed) # <<>>
    IN  IF t.count = 0 THEN Fail(j, t.errs)
        ELSE IF a.attrs = <<>> THEN Result(k, {})
        ELSE Result(RenderValues(PrintAll(k, IF bad THEN <<"FAILURE">> ELSE <<>>),
                                 t.objs, a.attrs, t.count, failed), {})
Alone(opt) == [attrs |-> <<opt.attr>>, values |-> opt.values, errs |-> <<>>]

cmd_get_attrs(j, opt, failed) ==
    GetArrays(j, GetObjByName(opt.names[1]), create_attrs(opt.attrs), failed)
cmd_get_grp_attr(j, opt, failed) ==
    GetArrays(j, create_group(opt.names), Alone(opt), failed)
cmd_get_grp_attrs(j, opt, failed) ==
    GetArrays(j, create_group(opt.names), create_attrs(opt.attrs), failed)

\* The same for sets; the accesses of failed are refused.
SetArrays(j, t, a, failed) ==
    LET asks == ToSet(t.objs) \X DOMAIN a.attrs
        bad  == {x \in asks : <<x[1], a.attrs[x[2]]>> \in failed}
        k    == PrintAll(j, t.errs \o a.errs \o (IF bad # {} THEN <<"FAILURE">> ELSE <<>>))
    IN  IF t.count = 0 THEN Fail(j, t.errs)
        ELSE IF a.attrs = <<>> THEN Fail(j, t.errs \o a.errs)
        ELSE Result(json_add(k, j.body),
                    {<<x[1], a.attrs[x[2]], a.values[x[2]]>> : x \in asks \ bad})
Matched(opt) == Len(opt.attrs) = Len(opt.values)

\* A value that stands alone is parsed before the names are looked up.
cmd_set_attr(j, opt, failed) ==
    IF ~Matched(opt) THEN Fail(j, <<"FAILURE">>)
    ELSE IF ~ParsedValue(opt.values[1]) THEN Fail(j, <<"BAD_VALUE">>)
    ELSE SetArrays(j, GetObjByName(opt.names[1]), Alone(opt), failed)
cmd_set_attrs(j, opt, failed) ==
    IF ~Matched(opt) THEN Fail(j, <<"FAILURE">>)
    ELSE SetArrays(j, GetObjByName(opt.names[1]), create_values(opt.attrs, opt.values), failed)
cmd_set_grp_attr(j, opt, failed) ==
    IF ~Matched(opt) THEN Fail(j, <<"FAILURE">>)
    ELSE IF ~ParsedValue(opt.values[1]) THEN Fail(j, <<"BAD_VALUE">>)
    ELSE SetArrays(j, create_group(opt.names), Alone(opt), failed)
cmd_set_grp_attrs(j, opt, failed) ==
    IF ~Matched(opt) THEN Fail(j, <<"FAILURE">>)
    ELSE SetArrays(j, create_group(opt.names), create_values(opt.attrs, opt.values), failed)

\* Metadata; answer is what the library says.  A set is rendered even if it
\* failed.
cmd_get_meta(j, opt, answer) ==
    LET t == GetObjByName(opt.names[1]) IN
    IF Len(opt.names) # 1 THEN Fail(j, <<"FAILURE">>)
    ELSE IF t.count = 0 THEN Fail(j, t.errs)
    ELSE IF answer # "SUCCESS" THEN Fail(j, <<answer>>)
    ELSE Result(json_add(j, [j.body EXCEPT !.value = "value"]), {})

cmd_set_meta(j, opt, answer) ==
    LET t == GetObjByName(opt.names[1])
        k == IF answer = "SUCCESS" THEN j ELSE json_print(j, answer)
    IN  IF Len(opt.names) # 1 \/ Len(opt.attrs) # 1 \/ Len(opt.values) # 1
        THEN Fail(j, <<"FAILURE">>)
        ELSE IF ~ParsedValue(opt.values[1]) THEN Fail(j, <<"BAD_VALUE">>)
        ELSE IF t.count = 0 THEN Fail(j, t.errs)
        ELSE Result(json_add(k, k.body), {})

\* The children of o, as the group PWR_ObjGetChildren makes of them.
ObjGetChildren(o) == Only(order, ToSet(Children[o]))
Parent(o) == {p \in Objs : o \in ToSet(Children[p])}

cmd_get_parent(j, opt) ==
    LET t == GetObjByName(opt.names[1]) IN
    IF t.count = 0 THEN Fail(j, t.errs)
    ELSE IF Parent(t.objs[1]) = {} THEN Fail(j, <<"WARN_NO_PARENT">>)
    ELSE Result(json_add(j, [j.body EXCEPT !.names = Parent(t.objs[1])]), {})

cmd_get_children(j, opt) ==
    LET t == GetObjByName(opt.names[1]) IN
    IF t.count = 0 THEN Fail(j, t.errs)
    ELSE IF Children[t.objs[1]] = <<>> THEN Fail(j, <<"WARN_NO_CHILDREN">>)
    ELSE Result(json_add(j, [j.body EXCEPT !.names = ToSet(ObjGetChildren(t.objs[1]))]), {})

\* traverse_pre_order: the calls of the visit and of the leave function.
Visit(o) == [enter |-> TRUE, obj |-> o]
Leave(o) == [enter |-> FALSE, obj |-> o]
traverse_pre_order ==
    LET walk[o \in Objs] ==
          LET cs == ObjGetChildren(o)
          IN  <<Visit(o)>> \o FlattenSeq([k \in DOMAIN cs |-> walk[cs[k]]]) \o <<Leave(o)>>
    IN  walk[Root]

\* json_push, json_pop: the stack of the places in the document.  A place is
\* the path of the keys that lead to it.
json_push(acc, at) == [acc EXCEPT !.stack = <<at>> \o @]
json_pop(acc) == IF acc.stack = <<>> THEN [acc EXCEPT !.at = <<>>]
                 ELSE [acc EXCEPT !.at = Head(acc.stack), !.stack = Tail(acc.stack)]

json_hier_enter(acc, o) ==
    LET here == Append(acc.at, o)
        a == json_push(json_push(acc, acc.at), here)
    IN  [a EXCEPT !.paths = @ \cup {here},
                  !.at = IF Children[o] # <<>> THEN Append(here, "children") ELSE here]

\* Mutant: one place is left on the stack.
LeaveOnce(acc) == json_pop(acc)

json_hier_leave(acc) == json_pop(json_pop(acc))

print_hierarchy_list ==
    LET Step(acc, e) == IF e.enter THEN json_hier_enter(acc, e.obj) ELSE json_hier_leave(acc)
    IN  FoldLeft(Step, [at |-> <<"hier_tree">>, stack |-> <<>>, paths |-> {}],
                 traverse_pre_order).paths

\* name_save, name_print: the names are sorted and each is there once.
print_name_list == {e.obj : e \in ToSet(traverse_pre_order)}

print_attribute_list == get_attr_list(supported_attr, AttrGetCount(supported_attr))

cmd_get_list(j, opt) ==
    LET Has(list) == opt.list \in {list, "all"}
        body == [j.body EXCEPT !.tree = IF Has("hier") THEN print_hierarchy_list ELSE @,
                               !.names = IF Has("name") THEN print_name_list ELSE @,
                               !.attrs = IF Has("attr") THEN print_attribute_list.list ELSE @]
    IN  IF Has("attr") /\ print_attribute_list.ret # "SUCCESS"
        THEN Result(json_print(json_add(j, [body EXCEPT !.attrs = <<>>]),
                               print_attribute_list.ret), {})
        ELSE Result(json_add(j, body), {})

-----------------------------------------------------------------------------
(* The program.                                                            *)

\* parse_cmd_line, of main or of the prompt: options and output start afresh.
Parse(line) ==
    LET p == parse_cmd_line(line, dflt, phase = "prompt")
        j == json_disable_output(json)
    IN  /\ cmd' = p.opt
        /\ json' = IF p.is = "command" /\ p.json THEN json_enable_output(j) ELSE j
        /\ docs' = <<>> /\ sent' = {}

\* main: usage ends the program when the line is not understood.
Start(line) ==
    LET p == parse_cmd_line(line, NoFlags, FALSE) IN
    /\ phase = "start" /\ Parse(line)
    /\ phase' = IF p.is = "error" THEN "exited" ELSE "init"
    /\ dflt' = IF p.is = "interactive" THEN [p.flags EXCEPT !["i"] = 0] ELSE p.flags
    /\ UNCHANGED <<ctx, order, done>>

\* api_init: a context, or the end.
api_init(ok) ==
    /\ phase = "init"
    /\ ctx' = ok
    /\ json' = IF ok THEN json ELSE json_print(json, "FAILURE")
    /\ phase' = IF ~ok THEN "exit"
                ELSE IF cmd.type = "invalid" THEN "prompt" ELSE "command"
    /\ UNCHANGED <<dflt, cmd, docs, order, sent, done>>

\* process_command.
Finish(r) ==
    LET f == json_flush_output(r.json, TRUE) IN
    /\ json' = f.json /\ docs' = f.docs
    /\ phase' = IF dflt["c"] > 0 THEN "exit" ELSE "prompt"
    /\ sent' = r.sent /\ done' = done + 1
    /\ UNCHANGED <<dflt, cmd, ctx, order>>

Accesses == (ToSet(cmd.names) \cap Objs) \X (ToSet(cmd.attrs) \cap ToSet(AttrNames))
Failed == {F \in SUBSET Accesses : Cardinality(F) <= MaxFailed}

process_command == phase = "command" /\
    LET f == Dispatch(cmd) IN
    \/ \E failed \in Failed :
          \/ f = "get_attr"      /\ Finish(cmd_get_attr(json, cmd, failed))
          \/ f = "get_attrs"     /\ Finish(cmd_get_attrs(json, cmd, failed))
          \/ f = "get_grp_attr"  /\ Finish(cmd_get_grp_attr(json, cmd, failed))
          \/ f = "get_grp_attrs" /\ Finish(cmd_get_grp_attrs(json, cmd, failed))
          \/ f = "set_attr"      /\ Finish(cmd_set_attr(json, cmd, failed))
          \/ f = "set_attrs"     /\ Finish(cmd_set_attrs(json, cmd, failed))
          \/ f = "set_grp_attr"  /\ Finish(cmd_set_grp_attr(json, cmd, failed))
          \/ f = "set_grp_attrs" /\ Finish(cmd_set_grp_attrs(json, cmd, failed))
    \/ \E answer \in {"SUCCESS", "NO_META", "READ_ONLY"} :
          \/ f = "get_meta" /\ Finish(cmd_get_meta(json, cmd, answer))
          \/ f = "set_meta" /\ Finish(cmd_set_meta(json, cmd, answer))
    \/ f = "get_parent" /\ Finish(cmd_get_parent(json, cmd))
    \/ f = "get_children" /\ Finish(cmd_get_children(json, cmd))
    \/ f = "get_list" /\ Finish(cmd_get_list(json, cmd))

\* cmd_get_meta_at_index: with several names, name_str is NULL.
cmd_get_meta_at_index ==
    /\ phase = "command" /\ Dispatch(cmd) = "get_meta_at_index"
    /\ IF Len(cmd.names) # 1
       THEN /\ phase' = "crashed"
            /\ UNCHANGED <<dflt, cmd, json, docs, ctx, order, sent, done>>
       ELSE \E answer \in {"SUCCESS", "BAD_INDEX"} : Finish(cmd_get_meta(json, cmd, answer))

\* interactive_prompt: "do", a word that is no command, and a line with "/".
Do(line) ==
    /\ phase = "prompt" /\ done < MaxCommands
    /\ Parse(line)
    /\ phase' = IF parse_cmd_line(line, dflt, TRUE).is = "command" THEN "command" ELSE "prompt"
    /\ UNCHANGED <<dflt, ctx, order, done>>

BadWord ==
    LET f == json_flush_output(json_print(json, "FAILURE"), FALSE) IN
    /\ phase = "prompt" /\ done < MaxCommands
    /\ json' = f.json /\ docs' = f.docs
    /\ done' = done + 1
    /\ UNCHANGED <<phase, dflt, cmd, ctx, order, sent>>

\* The message waits for the next document.
BadSlash ==
    /\ phase = "prompt" /\ done < MaxCommands
    /\ json' = json_print(json, "FAILURE")
    /\ done' = done + 1
    /\ UNCHANGED <<phase, dflt, cmd, docs, ctx, order, sent>>

\* "quit", and the end of the input, which linenoise answers with NULL.
Quit == phase = "prompt" /\ phase' = "exit"
        /\ UNCHANGED <<dflt, cmd, json, docs, ctx, order, sent, done>>
EndOfInput == phase = "prompt" /\ phase' = "crashed"
        /\ UNCHANGED <<dflt, cmd, json, docs, ctx, order, sent, done>>

\* A freed array was used: anything may happen from then on.
Crash == json.ub /\ phase \notin {"exited", "crashed"} /\ phase' = "crashed"
         /\ UNCHANGED <<dflt, cmd, json, docs, ctx, order, sent, done>>

\* force_exit: what is left of the output, and api_cleanup, which comes back
\* here when the context cannot be destroyed.
force_exit(ok) ==
    LET f == json_flush_output(json, FALSE) IN
    /\ phase = "exit"
    /\ docs' = docs \o f.docs
    /\ json' = IF ok \/ ~ctx THEN f.json ELSE json_print(f.json, "FAILURE")
    /\ ctx' = FALSE
    /\ phase' = IF ok \/ ~ctx THEN "exited" ELSE "exit"
    /\ UNCHANGED <<dflt, cmd, order, sent, done>>

Init ==
    /\ phase = "start" /\ dflt = NoFlags /\ cmd = InitCmdOpt /\ json = InitJson
    /\ docs = <<>> /\ ctx = FALSE /\ order \in Orders /\ sent = {} /\ done = 0

Next ==
    \/ \E line \in Starts : Start(line)
    \/ \E ok \in BOOLEAN : api_init(ok) \/ force_exit(ok)
    \/ process_command \/ cmd_get_meta_at_index
    \/ \E line \in Lines : Do(line)
    \/ BadWord \/ BadSlash \/ Quit \/ EndOfInput \/ Crash

Spec == Init /\ [][Next]_vars

-----------------------------------------------------------------------------
(* Properties                                                              *)

\* In JSON mode every command prints exactly one document, whatever fails, and
\* its return code is the first error of this very command: nothing of the
\* commands before it in the session, and not the error of a later step
\* (json_set_ret_code, json_enable_output, json_flush_output).
CommandReports ==
    /\ \A k \in DOMAIN docs : docs[k].ret = docs[k].first
    /\ phase = "prompt" /\ json.on => Len(docs) = 1
    /\ phase = "exited" /\ json.on => docs # <<>>

Asked(list) == ToSet(list) \ {""}
Answered == phase \in {"prompt", "exit"} /\ docs # <<>> /\ docs[1].ret = "SUCCESS"

\* A get or set of attributes that returns success has done all that was asked:
\* each named object's attributes are among the values, or each value was set on
\* each object.  Names that are not found, attributes that do not exist and
\* values that cannot be parsed do not go unnoticed (create_group, create_attrs,
\* create_values), nor does an access that fails.  Empty names are no names.
SuccessMeansAll == Answered =>
    /\ Dispatch(cmd) \in {"get_attr", "get_attrs", "get_grp_attr", "get_grp_attrs"} =>
         Asked(cmd.names) \X Asked(cmd.attrs) \subseteq ToSet(docs[1].body.vals)
    /\ Dispatch(cmd) \in {"set_attr", "set_attrs", "set_grp_attr", "set_grp_attrs"} =>
         \A o \in Asked(cmd.names), k \in DOMAIN cmd.attrs :
            cmd.attrs[k] = "" \/ cmd.values[k] = "" \/
            <<o, cmd.attrs[k], cmd.values[k]>> \in sent

\* The values of a get are in the order of the objects in the group, attribute
\* by attribute, with the status naming exactly the slots that hold no value -
\* as long as no name is given twice and every attribute can be printed (see
\* the README for what happens otherwise).
SlotsExplained ==
    LET known  == Only(cmd.attrs, ToSet(AttrNames))
        named  == Only(cmd.names, Objs)
        objs   == Only(order, ToSet(named))
    IN  \A d \in ToSet(docs) :
          /\ d.body.vals # <<>> /\ Len(named) = Cardinality(ToSet(named))
          /\ ToSet(known) \subseteq supported_attr
          => /\ Len(d.body.vals) = Len(objs) * Len(known)
             /\ \A k \in DOMAIN d.body.vals :
                  IF d.body.vals[k] = <<>>
                  THEN \E e \in ToSet(d.body.status) :
                         e.index = k - 1 /\ e.access = Slot(objs, known, k)
                  ELSE d.body.vals[k] = Slot(objs, known, k)

\* The tree that "list" shows has every object at its place: below the
\* "children" of its parent, and the names are those of all objects
\* (traverse_pre_order, json_hier_enter, json_hier_leave).
HierarchyShown ==
    LET place[o \in Objs] ==
          IF o = Root THEN <<"hier_tree", o>>
          ELSE place[CHOOSE p \in Parent(o) : TRUE] \o <<"children", o>>
    IN  \A d \in ToSet(docs) : cmd.type = "list" /\ d.body # NoBody =>
          /\ cmd.list \in {"hier", "all"} => d.body.tree = {place[o] : o \in Objs}
          /\ cmd.list \in {"name", "all"} => d.body.names = Objs

=============================================================================
