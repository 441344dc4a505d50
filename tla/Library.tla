------------------------------- MODULE Library -------------------------------
(* The library's bookkeeping: contexts, the opaque map, groups, statistics     *)
(* with their sampling threads, statuses and application hints (src/lib).      *)
(*                                                                             *)
(* An application thread calls the API; every running statistic has a thread   *)
(* of its own (calculate_stat) that reads the objects it monitors.  Nothing    *)
(* but a statistic's values is protected by a lock, so a call that frees or    *)
(* changes what a sampler uses must have joined it before: such a call is a    *)
(* list of work items (main), between which the samplers run.                  *)
(*                                                                             *)
(* A structure and its key in the opaque map are one slot: it is in the map    *)
(* exactly as long as it is not None, and a later structure of the kind may    *)
(* take the slot, as a random key may be drawn again.  The objects of a        *)
(* context are the numbers of Traversal, ordered as their addresses are.       *)
EXTENDS Integers, Sequences, FiniteSets, SequencesExt, FiniteSetsExt

CONSTANTS
    Ctxs, Grps, Stats, Statuses, Hints,  \* slots for the structures of each kind
    Traversal,   \* the objects, in the order the hierarchy was built
    Parent,      \* Parent[o]: the object above o, 0 for the root
    Type,        \* Type[o]: the type of o, for the named groups
    Names,       \* the region names an application gives to its hints
    Programs,    \* an application each: the calls it makes, the slots and objects
                 \* it uses, the values it reads, whether new_context may fail
    LogPath,     \* PWR_HINT_LOG_PATH is set
    MaxUnique,   \* bound: generated hint names per context
    Careful,     \* the application stops a statistic before it destroys the
                 \* context, and leaves a group alone once its change has
                 \* invalidated statistics
    None

VARIABLES
    prog,       \* the program that runs
    ctx,        \* contexts
    grp,        \* groups
    stat,       \* statistics
    thr,        \* the sampling threads, by statistic
    die,        \* stat->die
    status,     \* the context of each status
    hint,       \* hints
    initcount,  \* _initcount of hint.c
    logctx,     \* logctx of hint.c is set
    main,       \* the rest of the call under way
    failed,     \* history: a context could not be built
    dangling    \* history: freed memory was used

vars == <<prog, ctx, grp, stat, thr, die, status, hint, initcount, logctx,
          main, failed, dangling>>

Objs == ToSet(Traversal)
HintNames == Names \cup ({"hint"} \X Objs \X (1..MaxUnique + Cardinality(Names)))

\* What a slot holds: context_t, group_t, stat_t, hint_t.
ContextRecords ==
    [mapped : BOOLEAN, objs : BOOLEAN, groups : Seq(Grps), stats : Seq(Stats),
     statuses : Seq(Statuses), names : SUBSET HintNames, unique : Nat]
GroupRecords == [ctx : Ctxs, objs : Seq(Objs), stats : Seq(Stats), freed : BOOLEAN]
StatRecords ==
    [ctx : Ctxs, obj : Objs \cup {0}, grp : Grps \cup {None}, values : Seq(Int),
     seen : Seq(SUBSET (Objs \X Int)), ready : BOOLEAN]
HintRecords == [ctx : Ctxs, obj : Objs, name : HintNames]

\* The objects have addresses; what an application passes to the library are
\* objects and slots of it; an empty slot differs from every structure.
ASSUME LibraryAssumption ==
    /\ Traversal \in Seq(Nat \ {0})
    /\ IsFiniteSet(Ctxs) /\ IsFiniteSet(Names)
    /\ MaxUnique \in Nat /\ LogPath \in BOOLEAN /\ Careful \in BOOLEAN
    /\ \A p \in Programs : p.objs \subseteq Objs /\ p.readings \subseteq Int
    /\ None \notin Ctxs \cup Grps
    /\ None \notin ContextRecords /\ None \notin GroupRecords
    /\ None \notin StatRecords /\ None \notin HintRecords
Live(table) == {x \in DOMAIN table : table[x] # None}
NoThread == [pc |-> "none", i |-> 0, reading |-> <<>>]
Inf == 99
Item(do, on, obj) == [do |-> do, on |-> on, obj |-> obj]

\* opaque_map_lookup_context
Context(c) == c # None /\ ctx[c] # None /\ ctx[c].mapped

\* new_group, as context_new_group links it
NewGroup(c, objs) == [ctx |-> c, objs |-> objs, stats |-> <<>>, freed |-> FALSE]

\* group_insert_obj: insert in address order, unless the object is there
InsertSorted(s, o) ==
    IF o \in ToSet(s) THEN s
    ELSE InsertAt(s, Min({i \in DOMAIN s : o < s[i]} \cup {Len(s) + 1}), o)

\* One walk along both sequences; the set operations differ in whether they
\* append an object of the first alone, of both, of the second alone.
Walk(s, t, lower1, equal, lower2) ==
    LET When(p, o) == IF p THEN <<o>> ELSE <<>>
        walk[at \in (1..Len(s) + 1) \X (1..Len(t) + 1)] ==
            LET i == at[1]  j == at[2]
            IN  IF i > Len(s) THEN IF lower2 THEN SubSeq(t, j, Len(t)) ELSE <<>>
                ELSE IF j > Len(t) THEN IF lower1 THEN SubSeq(s, i, Len(s)) ELSE <<>>
                ELSE IF s[i] < t[j] THEN When(lower1, s[i]) \o walk[<<i + 1, j>>]
                ELSE IF s[i] = t[j] THEN When(equal, s[i]) \o walk[<<i + 1, j + 1>>]
                ELSE When(lower2, t[j]) \o walk[<<i, j + 1>>]
    IN  walk[<<1, 1>>]
group_union(s, t)          == Walk(s, t, TRUE, TRUE, TRUE)
group_intersection(s, t)   == Walk(s, t, FALSE, TRUE, FALSE)
group_difference(s, t)     == Walk(s, t, TRUE, FALSE, FALSE)
group_sym_difference(s, t) == Walk(s, t, TRUE, FALSE, TRUE)

\* populate_named_group, group_insert_callback: what a traversal inserts
Collect(wanted) ==
    FoldLeft(LAMBDA s, o : IF o \in wanted THEN InsertSorted(s, o) ELSE s, <<>>, Traversal)

\* group_invalidate_statistics: join and detach every statistic of the group,
\* then free its list; the pointer to the list is kept
InvalidateWith(each(_), g) ==
    FlattenSeq([k \in DOMAIN grp[g].stats |-> each(grp[g].stats[k])])
        \o (IF grp[g].stats = <<>> THEN <<>> ELSE <<Item("freelist", g, 0)>>)
StopThenDetach(s) == <<Item("stop", s, 0), Item("detach", s, 0)>>
\* Mutant: the statistics are detached, their threads not joined.
DetachOnly(s) == <<Item("detach", s, 0)>>
InvalidateUnstopped(g) == InvalidateWith(DetachOnly, g)

Invalidate(g) == InvalidateWith(StopThenDetach, g)

\* del_group
DelGroup(g) == Invalidate(g) \o <<Item("group", g, 0)>>

\* del_stat
DelStat(s) == <<Item("stop", s, 0), Item("stat", s, 0)>>

\* Mutant: the log is closed with the first context.
HintTermOnce ==
    /\ initcount' = IF initcount = 0 THEN 0 ELSE initcount - 1
    /\ logctx' = FALSE

\* app_hint_term
HintTerm ==
    /\ initcount' = IF initcount = 0 THEN 0 ELSE initcount - 1
    /\ logctx' = (logctx /\ initcount # 1)

\* app_hint_init
HintInit ==
    /\ initcount' = initcount + 1
    /\ logctx' = (logctx \/ LogPath)

-------------------------------------------------------------------------------
Init ==
    /\ prog \in Programs
    /\ ctx = [c \in Ctxs |-> None]
    /\ grp = [g \in Grps |-> None]
    /\ stat = [s \in Stats |-> None]
    /\ thr = [s \in Stats |-> NoThread]
    /\ die = [s \in Stats |-> FALSE]
    /\ status = [t \in Statuses |-> None]
    /\ hint = [h \in Hints |-> None]
    /\ initcount = 0
    /\ logctx = FALSE
    /\ main = <<>>
    /\ failed = FALSE
    /\ dangling = FALSE

\* The application calls a function of the API.
Calls(name) == main = <<>> /\ ~dangling /\ name \in prog.calls

-------------------------------------------------------------------------------
(* Contexts                                                                    *)

\* PWR_CntxtInit, new_context: a failure runs the whole of del_context on the
\* part that was built, app_hint_term included.
CntxtInit(c) ==
    /\ Calls("init")
    /\ c \in prog.ctxs /\ ctx[c] = None
    /\ \E fails \in prog.fails :
          IF fails
          THEN HintTerm /\ failed' = TRUE /\ UNCHANGED ctx
          ELSE /\ HintInit
               /\ ctx' = [ctx EXCEPT ![c] =
                     [mapped |-> TRUE, objs |-> TRUE, groups |-> <<>>,
                      stats |-> <<>>, statuses |-> <<>>,
                      names |-> {}, unique |-> 0]]
               /\ UNCHANGED failed
    /\ UNCHANGED <<prog, grp, stat, thr, die, status, hint, main, dangling>>

\* Mutant: the statistics of the context are forgotten.
DelContextKeepStats(c) ==
    <<Item("objects", c, 0)>>
        \o FlattenSeq([k \in DOMAIN ctx[c].groups |-> DelGroup(ctx[c].groups[k])])
        \o <<Item("context", c, 0)>>

\* PWR_CntxtDestroy, del_context: the key, then the hierarchy with its objects
\* and hints, then the groups, the statuses, the statistics.
DelContext(c) ==
    <<Item("objects", c, 0)>>
        \o FlattenSeq([k \in DOMAIN ctx[c].groups |-> DelGroup(ctx[c].groups[k])])
        \o FlattenSeq([k \in DOMAIN ctx[c].stats |-> DelStat(ctx[c].stats[k])])
        \o <<Item("context", c, 0)>>
CntxtDestroy(c) ==
    /\ Calls("destroy")
    /\ Context(c)
    /\ Careful =>
          /\ \A s \in Stats : IF stat[s] = None THEN TRUE
                              ELSE stat[s].ctx = c => thr[s].pc = "none"
          /\ \A k \in DOMAIN ctx[c].groups : ~grp[ctx[c].groups[k]].freed
    /\ HintTerm
    /\ ctx' = [ctx EXCEPT ![c].mapped = FALSE]
    /\ main' = DelContext(c)
    /\ dangling' = (\E k \in DOMAIN ctx[c].groups : grp[ctx[c].groups[k]].freed)
    /\ UNCHANGED <<prog, grp, stat, thr, die, status, hint, failed>>

\* del_hierarchy: destroy_hints runs _del_hint on every hint of every object,
\* then the objects leave the map and are freed
DoObjects ==
    /\ Head(main).do = "objects"
    /\ LET c == Head(main).on
           gone == {h \in Live(hint) : hint[h].ctx = c}
       IN  /\ hint' = [h \in Hints |-> IF h \in gone THEN None ELSE hint[h]]
           /\ ctx' = [ctx EXCEPT ![c].objs = FALSE,
                                 ![c].names = @ \ {hint[h].name : h \in gone}]
    /\ UNCHANGED <<grp, stat, thr, die, status, dangling>>

\* the rest of del_context: status_destroy_callback on the statuses, g_free
DoContext ==
    /\ Head(main).do = "context"
    /\ LET c == Head(main).on
       IN  /\ status' = [t \in Statuses |->
                             IF t \in ToSet(ctx[c].statuses) THEN None ELSE status[t]]
           /\ ctx' = [ctx EXCEPT ![c] = None]
    /\ UNCHANGED <<grp, stat, thr, die, hint, dangling>>

-------------------------------------------------------------------------------
(* Objects and groups                                                          *)

\* OPAQUE_GENERATE
Ref(context, data) == [context |-> context, data |-> data]
\* PWR_ObjGetParent: the context key of the answer is taken with
\* OPAQUE_GET_DATA_KEY(object)
ObjGetParent(ref) ==
    IF Parent[ref.data] = 0 THEN Ref(0, 0) ELSE Ref(ref.data, Parent[ref.data])

\* context_new_group for a call that fills the group before it returns
AddGroup(c, g, objs) ==
    /\ g \in prog.grps /\ grp[g] = None
    /\ grp' = [grp EXCEPT ![g] = NewGroup(c, objs)]
    /\ ctx' = [ctx EXCEPT ![c].groups = <<g>> \o @]
    /\ UNCHANGED <<prog, stat, thr, die, status, hint, initcount, logctx, main,
                   failed, dangling>>

\* PWR_GrpCreate
GrpCreate(c, g) == Calls("group") /\ Context(c) /\ AddGroup(c, g, <<>>)

\* PWR_ObjGetChildren
ObjGetChildren(c, o, g) ==
    /\ Calls("children")
    /\ Context(c)
    /\ \E p \in Objs : Parent[p] = o
    /\ AddGroup(c, g, Collect({p \in Objs : Parent[p] = o}))

\* PWR_CntxtGetGrpByName
CntxtGetGrpByName(c, type, g) ==
    /\ Calls("named")
    /\ Context(c)
    /\ AddGroup(c, g, Collect({p \in Objs : Type[p] = type}))

\* PWR_GrpDuplicate (group_copy)
GrpDuplicate(g1, g) ==
    /\ Calls("duplicate")
    /\ grp[g1] # None
    /\ Context(grp[g1].ctx)
    /\ AddGroup(grp[g1].ctx, g, grp[g1].objs)

\* PWR_GrpUnion, PWR_GrpIntersection, PWR_GrpDifference, PWR_GrpSymDifference
Combine(g1, g2, walk(_, _), g) ==
    /\ Calls("combine")
    /\ grp[g1] # None /\ grp[g2] # None
    /\ grp[g1].ctx = grp[g2].ctx
    /\ Context(grp[g1].ctx)
    /\ AddGroup(grp[g1].ctx, g, walk(grp[g1].objs, grp[g2].objs))
GrpUnion(g1, g2, g)         == Combine(g1, g2, group_union, g)
GrpIntersection(g1, g2, g)  == Combine(g1, g2, group_intersection, g)
GrpDifference(g1, g2, g)    == Combine(g1, g2, group_difference, g)
GrpSymDifference(g1, g2, g) == Combine(g1, g2, group_sym_difference, g)

\* PWR_GrpGetNumObjs, PWR_GrpGetObjByIndx
GrpGetNumObjs(g) == Len(grp[g].objs)
GrpGetObjByIndx(g, i) ==
    IF i < 0 THEN [ret |-> "BAD_INDEX"]
    ELSE IF i >= Len(grp[g].objs) THEN [ret |-> "NO_OBJ_AT_INDEX"]
    ELSE [ret |-> "SUCCESS", obj |-> grp[g].objs[i + 1]]

\* PWR_GrpAddObj, PWR_GrpRemoveObj: a call that changes the group invalidates
\* its statistics first
Change(g, items) ==
    /\ Careful => ~grp[g].freed
    /\ main' = items
    /\ dangling' = grp[g].freed
    /\ UNCHANGED <<prog, ctx, grp, stat, thr, die, status, hint, initcount,
                   logctx, failed>>
GrpAddObj(g, o) ==
    /\ Calls("add")
    /\ grp[g] # None
    /\ ctx[grp[g].ctx].objs
    /\ o \notin ToSet(grp[g].objs)
    /\ Change(g, Invalidate(g) \o <<Item("insert", g, o)>>)
GrpRemoveObj(g, o) ==
    /\ Calls("remove")
    /\ grp[g] # None
    /\ ctx[grp[g].ctx].objs
    /\ o \in ToSet(grp[g].objs)
    /\ Change(g, Invalidate(g) \o <<Item("remove", g, o)>>)

\* Mutant: the object is appended.
DoInsertLast ==
    /\ Head(main).do = "insert"
    /\ grp' = [grp EXCEPT ![Head(main).on].objs = @ \o <<Head(main).obj>>]
    /\ UNCHANGED <<ctx, stat, thr, die, status, hint, dangling>>

\* the end of group_insert_obj and of group_remove_obj
DoInsert ==
    /\ Head(main).do = "insert"
    /\ grp' = [grp EXCEPT ![Head(main).on].objs = InsertSorted(@, Head(main).obj)]
    /\ UNCHANGED <<ctx, stat, thr, die, status, hint, dangling>>
DoRemove ==
    /\ Head(main).do = "remove"
    /\ grp' = [grp EXCEPT ![Head(main).on].objs = RemoveFirst(@, Head(main).obj)]
    /\ UNCHANGED <<ctx, stat, thr, die, status, hint, dangling>>

\* PWR_GrpDestroy, context_del_group
GrpDestroy(g) ==
    /\ Calls("ungroup")
    /\ grp[g] # None
    /\ Context(grp[g].ctx)
    /\ Careful => ~grp[g].freed
    /\ ctx' = [ctx EXCEPT ![grp[g].ctx].groups = RemoveFirst(@, g)]
    /\ main' = DelGroup(g)
    /\ dangling' = grp[g].freed
    /\ UNCHANGED <<prog, grp, stat, thr, die, status, hint, initcount, logctx, failed>>

\* g_list_free_full in group_invalidate_statistics: the list is gone, the
\* pointer to it stays
DoFreeList ==
    /\ Head(main).do = "freelist"
    /\ grp' = [grp EXCEPT ![Head(main).on] =
                  IF @ = None THEN None ELSE [@ EXCEPT !.freed = TRUE]]
    /\ UNCHANGED <<ctx, stat, thr, die, status, hint, dangling>>
\* the end of del_group
DoGroup ==
    /\ Head(main).do = "group"
    /\ grp' = [grp EXCEPT ![Head(main).on] = None]
    /\ UNCHANGED <<ctx, stat, thr, die, status, hint, dangling>>

-------------------------------------------------------------------------------
(* Statistics                                                                  *)

\* new_stat, context_new_statistic
AddStat(s, c, o, g, n) ==
    stat' = [stat EXCEPT ![s] =
                [ctx |-> c, obj |-> o, grp |-> g,
                 values |-> [i \in 1..n |-> 0], seen |-> [i \in 1..n |-> {}],
                 ready |-> FALSE]]

\* PWR_ObjCreateStat.  A call that cannot read the attribute or its rate
\* deletes what it made and changes nothing.
ObjCreateStat(c, o, s) ==
    /\ Calls("objstat")
    /\ s \in prog.stats /\ stat[s] = None
    /\ Context(c)
    /\ AddStat(s, c, o, None, 1)
    /\ ctx' = [ctx EXCEPT ![c].stats = <<s>> \o @]
    /\ UNCHANGED <<prog, grp, thr, die, status, hint, initcount, logctx, main,
                   failed, dangling>>

\* PWR_GrpCreateStat, group_new_statistic
GrpCreateStat(g, s) ==
    /\ Calls("grpstat")
    /\ s \in prog.stats /\ stat[s] = None
    /\ grp[g] # None
    /\ grp[g].objs # <<>>
    /\ Context(grp[g].ctx)
    /\ Careful => ~grp[g].freed
    /\ AddStat(s, grp[g].ctx, 0, g, Len(grp[g].objs))
    /\ ctx' = [ctx EXCEPT ![grp[g].ctx].stats = <<s>> \o @]
    /\ grp' = [grp EXCEPT ![g].stats = <<s>> \o @]
    /\ dangling' = grp[g].freed
    /\ UNCHANGED <<prog, thr, die, status, hint, initcount, logctx, main, failed>>

\* PWR_StatDestroy: group_del_statistic, context_del_statistic
StatDestroy(s) ==
    /\ Calls("unstat")
    /\ stat[s] # None
    /\ Context(stat[s].ctx)
    /\ grp' = IF stat[s].grp = None THEN grp
              ELSE [grp EXCEPT ![stat[s].grp].stats = RemoveFirst(@, s)]
    /\ ctx' = [ctx EXCEPT ![stat[s].ctx].stats = RemoveFirst(@, s)]
    /\ main' = DelStat(s)
    /\ UNCHANGED <<prog, stat, thr, die, status, hint, initcount, logctx, failed,
                   dangling>>

\* is_invalid
Invalid(s) == stat[s].obj = 0 /\ stat[s].grp = None

\* PWR_StatStart and PWR_StatClear (both end a running thread and start one),
\* PWR_StatStop
StatCall(name, s, items) ==
    /\ Calls(name)
    /\ stat[s] # None /\ ~Invalid(s)
    /\ main' = items
    /\ UNCHANGED <<prog, ctx, grp, stat, thr, die, status, hint, initcount, logctx,
                   failed, dangling>>
StatStart(s) == StatCall("start", s, <<Item("stop", s, 0), Item("start", s, 0)>>)
StatStop(s) == StatCall("stop", s, <<Item("stop", s, 0)>>)

\* stop_thread: raise the flag, then join
DoStop ==
    /\ Head(main).do = "stop"
    /\ LET s == Head(main).on
       IN  /\ thr[s].pc \in {"none", "done"}
           /\ thr' = [thr EXCEPT ![s] = NoThread]
           /\ die' = [die EXCEPT ![s] = FALSE]
    /\ UNCHANGED <<ctx, grp, stat, status, hint, dangling>>
RaiseDie ==
    /\ main # <<>>
    /\ Head(main).do = "stop"
    /\ LET s == Head(main).on
       IN  /\ thr[s].pc # "none" /\ ~die[s]
           /\ die' = [die EXCEPT ![s] = TRUE]
    /\ UNCHANGED <<prog, ctx, grp, stat, thr, status, hint, initcount, logctx, main,
                   failed, dangling>>

\* start_thread
DoStart ==
    /\ Head(main).do = "start"
    /\ thr' = [thr EXCEPT ![Head(main).on] = [NoThread EXCEPT !.pc = "init"]]
    /\ UNCHANGED <<ctx, grp, stat, die, status, hint, dangling>>

\* stat_invalidate_callback, after the thread is joined
DoDetach ==
    /\ Head(main).do = "detach"
    /\ stat' = [stat EXCEPT ![Head(main).on].obj = 0, ![Head(main).on].grp = None]
    /\ UNCHANGED <<ctx, grp, thr, die, status, hint, dangling>>

\* the end of del_stat
DoStat ==
    /\ Head(main).do = "stat"
    /\ stat' = [stat EXCEPT ![Head(main).on] = None]
    /\ UNCHANGED <<ctx, grp, thr, die, status, hint, dangling>>

\* The application thread goes on with its call.
Work ==
    /\ main # <<>>
    /\ main' = Tail(main)
    /\ \/ DoObjects
       \/ DoContext
       \/ DoInsert
       \/ DoRemove
       \/ DoFreeList
       \/ DoGroup
       \/ DoStop
       \/ DoStart
       \/ DoDetach
       \/ DoStat
    /\ UNCHANGED <<prog, initcount, logctx, failed>>

-------------------------------------------------------------------------------
(* The sampling thread: calculate_stat, for a minimum                          *)

Sampler(s, pc) == thr[s].pc = pc /\ ~dangling
OnlyThread == UNCHANGED <<prog, ctx, grp, die, status, hint, initcount, logctx, main,
                          failed>>

\* Mutant: the old values are kept.
SInitKeep(s) ==
    /\ Sampler(s, "init")
    /\ thr' = [thr EXCEPT ![s].pc = "test"]
    /\ stat' = [stat EXCEPT ![s].seen = [i \in DOMAIN @ |-> {}],
                            ![s].ready = TRUE]
    /\ OnlyThread /\ UNCHANGED dangling

\* "Statistics validation and initialization"; the values are reset here, and
\* not by the call that started the thread
SInit(s) ==
    /\ Sampler(s, "init")
    /\ thr' = [thr EXCEPT ![s].pc = "test"]
    /\ stat' = [stat EXCEPT ![s].values = [i \in DOMAIN @ |-> Inf],
                            ![s].seen = [i \in DOMAIN @ |-> {}],
                            ![s].ready = TRUE]
    /\ OnlyThread /\ UNCHANGED dangling

\* Mutant: the flag is not looked at.
STestEndless(s) ==
    /\ Sampler(s, "test")
    /\ thr' = [thr EXCEPT ![s] = [pc |-> "read", i |-> 1, reading |-> <<>>]]
    /\ OnlyThread /\ UNCHANGED <<stat, dangling>>

\* while (stat->die == false)
STest(s) ==
    /\ Sampler(s, "test")
    /\ thr' = [thr EXCEPT ![s] = IF die[s] THEN [@ EXCEPT !.pc = "done"]
                                 ELSE [pc |-> "read", i |-> 1, reading |-> <<>>]]
    /\ OnlyThread /\ UNCHANGED <<stat, dangling>>

\* PWR_ObjAttrGetValue, or one turn of PWR_GrpAttrGetValue: find the object.
\* The statistic, its group or its object may be gone; a lookup beside an
\* insertion may miss.
Found(s) ==
    /\ stat[s] # None
    /\ \/ stat[s].obj # 0
       \/ /\ stat[s].grp # None
          /\ grp[stat[s].grp] # None
          /\ thr[s].i \in DOMAIN grp[stat[s].grp].objs
    /\ ctx[stat[s].ctx] # None /\ ctx[stat[s].ctx].objs
SRead(s) ==
    /\ Sampler(s, "read")
    /\ thr' = [thr EXCEPT ![s].pc = IF Found(s) THEN "use" ELSE "test"]
    /\ OnlyThread /\ UNCHANGED <<stat, dangling>>

\* node_attr_get_value and its fellows read through the object; a failure
\* ends the round without a sample
Target(s) == IF stat[s].obj # 0 THEN stat[s].obj ELSE grp[stat[s].grp].objs[thr[s].i]
SUse(s) ==
    /\ Sampler(s, "use")
    /\ IF ~Found(s)
       THEN dangling' = TRUE /\ UNCHANGED thr
       ELSE /\ \E v \in prog.readings :
                  thr' = [thr EXCEPT
                            ![s].reading = Append(@, <<Target(s), v>>),
                            ![s].i = @ + 1,
                            ![s].pc = IF thr[s].i = Len(stat[s].values)
                                      THEN "update" ELSE "read"]
            /\ UNCHANGED dangling
    /\ OnlyThread /\ UNCHANGED stat
SFail(s) ==
    /\ Sampler(s, "use")
    /\ thr' = [thr EXCEPT ![s].pc = "test"]
    /\ OnlyThread /\ UNCHANGED <<stat, dangling>>

\* under val_lock: PWR_ATTR_STAT_MIN
Lower(value, reading) == IF reading < value THEN reading ELSE value
SUpdate(s) ==
    /\ Sampler(s, "update")
    /\ stat' = [stat EXCEPT
          ![s].values = [i \in DOMAIN @ |-> Lower(@[i], thr[s].reading[i][2])],
          ![s].seen = [i \in DOMAIN @ |-> @[i] \cup {thr[s].reading[i]}]]
    /\ thr' = [thr EXCEPT ![s] = [pc |-> "test", i |-> 0, reading |-> <<>>]]
    /\ OnlyThread /\ UNCHANGED dangling

-------------------------------------------------------------------------------
(* Statuses and hints                                                          *)

\* PWR_StatusCreate, PWR_StatusDestroy
StatusCreate(c, t) ==
    /\ Calls("status")
    /\ Context(c) /\ status[t] = None
    /\ status' = [status EXCEPT ![t] = c]
    /\ ctx' = [ctx EXCEPT ![c].statuses = <<t>> \o @]
    /\ UNCHANGED <<prog, grp, stat, thr, die, hint, initcount, logctx, main, failed,
                   dangling>>
StatusDestroy(t) ==
    /\ Calls("status")
    /\ status[t] # None
    /\ Context(status[t])
    /\ ctx' = [ctx EXCEPT ![status[t]].statuses = RemoveFirst(@, t)]
    /\ status' = [status EXCEPT ![t] = None]
    /\ UNCHANGED <<prog, grp, stat, thr, die, hint, initcount, logctx, main, failed,
                   dangling>>

\* PWR_AppHintCreate: a name that is given must be new in the context; without
\* one, count up to the first "hint.<object>.<n>" that is
Generated(o, n) == <<"hint", o, n>>
FirstFree(c, o) ==
    {n \in ctx[c].unique + 1..MaxUnique + Cardinality(Names) :
        /\ Generated(o, n) \notin ctx[c].names
        /\ \A m \in ctx[c].unique + 1..n - 1 : Generated(o, m) \in ctx[c].names}
HintCreate(c, o, name, h) ==
    /\ Calls("hint")
    /\ Context(c) /\ hint[h] = None
    /\ name = None => ctx[c].unique < MaxUnique
    /\ \E n \in IF name = None THEN FirstFree(c, o) ELSE {ctx[c].unique} :
          LET region == IF name = None THEN Generated(o, n) ELSE name
          IN  /\ region \notin ctx[c].names
              /\ hint' = [hint EXCEPT ![h] = [ctx |-> c, obj |-> o, name |-> region]]
              /\ ctx' = [ctx EXCEPT ![c].names = @ \cup {region}, ![c].unique = n]
    /\ UNCHANGED <<prog, grp, stat, thr, die, status, initcount, logctx, main, failed,
                   dangling>>

\* PWR_AppHintDestroy: removing the hint from its object runs _del_hint
HintDestroy(h) ==
    /\ Calls("hint")
    /\ hint[h] # None
    /\ ctx' = [ctx EXCEPT ![hint[h].ctx].names = @ \ {hint[h].name}]
    /\ hint' = [hint EXCEPT ![h] = None]
    /\ UNCHANGED <<prog, grp, stat, thr, die, status, initcount, logctx, main, failed,
                   dangling>>

-------------------------------------------------------------------------------
ContextCall == \E c \in Ctxs : CntxtInit(c) \/ CntxtDestroy(c)
GroupCall ==
    \/ \E c \in Ctxs, g \in Grps : GrpCreate(c, g)
    \/ \E c \in Ctxs, g \in Grps, o \in prog.objs : ObjGetChildren(c, o, g)
    \/ \E c \in Ctxs, g \in Grps : \E t \in {Type[o] : o \in Objs} :
          CntxtGetGrpByName(c, t, g)
    \/ \E g, g1 \in Grps : GrpDuplicate(g1, g)
    \/ \E g, g1, g2 \in Grps :
          \/ GrpUnion(g1, g2, g)      \/ GrpIntersection(g1, g2, g)
          \/ GrpDifference(g1, g2, g) \/ GrpSymDifference(g1, g2, g)
    \/ \E g \in Grps, o \in prog.objs : GrpAddObj(g, o) \/ GrpRemoveObj(g, o)
    \/ \E g \in Grps : GrpDestroy(g)
StatisticCall ==
    \/ \E c \in Ctxs, o \in prog.objs, s \in Stats : ObjCreateStat(c, o, s)
    \/ \E g \in Grps, s \in Stats : GrpCreateStat(g, s)
    \/ \E s \in Stats : StatDestroy(s) \/ StatStart(s) \/ StatStop(s)
OtherCall ==
    \/ \E c \in Ctxs, t \in Statuses : StatusCreate(c, t)
    \/ \E t \in Statuses : StatusDestroy(t)
    \/ \E c \in Ctxs, o \in prog.objs, h \in Hints : \E n \in Names \cup {None} :
          HintCreate(c, o, n, h)
    \/ \E h \in Hints : HintDestroy(h)

Sample(s) == SInit(s) \/ STest(s) \/ SRead(s) \/ SUse(s) \/ SFail(s) \/ SUpdate(s)

Next ==
    \/ ContextCall \/ GroupCall \/ StatisticCall \/ OtherCall
    \/ RaiseDie \/ Work
    \/ \E s \in Stats : Sample(s)

\* The kernel runs every thread, so a call under way and every sampler go on;
\* the application need not call anything.
Fairness == WF_vars(RaiseDie) /\ WF_vars(Work) /\ \A s \in Stats : WF_vars(Sample(s))

Spec == Init /\ [][Next]_vars /\ Fairness

-------------------------------------------------------------------------------
Items == {"stop", "detach", "freelist", "group", "stat", "objects", "context",
          "insert", "remove", "start"}

\* The values the variables range over.
TypeOK ==
    /\ prog \in Programs
    /\ ctx \in [Ctxs -> ContextRecords \cup {None}]
    /\ grp \in [Grps -> GroupRecords \cup {None}]
    /\ stat \in [Stats -> StatRecords \cup {None}]
    /\ thr \in [Stats -> [pc : {"none", "init", "test", "read", "use", "update", "done"},
                          i : Nat, reading : Seq(Objs \X Int)]]
    /\ die \in [Stats -> BOOLEAN]
    /\ status \in [Statuses -> Ctxs \cup {None}]
    /\ hint \in [Hints -> HintRecords \cup {None}]
    /\ initcount \in 0..Cardinality(Ctxs) /\ logctx \in BOOLEAN
    /\ main \in Seq([do : Items, on : Ctxs \cup Grps \cup Stats, obj : Objs \cup {0}])
    /\ failed \in BOOLEAN /\ dangling \in BOOLEAN

\* Between two calls a context's lists (context_t) hold each group, statistic
\* and status made from it once and nothing else: every reference the map
\* resolves has an owner that will free it, and no list keeps a freed one.  A
\* group tracks exactly the statistics that monitor it (group_new_statistic),
\* until a change of the group frees the list.
ListsAgree ==
    main = <<>> /\ ~dangling =>
        /\ \A g \in Live(grp) : Context(grp[g].ctx)
        /\ \A s \in Live(stat) : Context(stat[s].ctx)
        /\ \A c \in Live(ctx) :
              /\ Context(c)
              /\ ToSet(ctx[c].groups) = {g \in Live(grp) : grp[g].ctx = c}
              /\ ToSet(ctx[c].stats) = {s \in Live(stat) : stat[s].ctx = c}
              /\ ToSet(ctx[c].statuses) = {t \in Live(status) : status[t] = c}
              /\ IsInjective(ctx[c].groups) /\ IsInjective(ctx[c].stats)
        /\ \A g \in Live(grp) :
              ~grp[g].freed =>
                  ToSet(grp[g].stats) = {s \in Live(stat) : stat[s].grp = g}

\* A sampling thread belongs to a statistic that exists and still has its
\* object or a group of the size it was made for; nothing it reads is freed or
\* changed under it (del_group, group_insert_obj, del_stat).
SamplersOwned ==
    /\ ~dangling
    /\ \A s \in Stats :
          thr[s].pc \notin {"none", "done"} =>
              /\ stat[s] # None
              /\ ~Invalid(s)
              /\ stat[s].grp # None =>
                    /\ grp[stat[s].grp] # None
                    /\ Len(grp[stat[s].grp].objs) = Len(stat[s].values)

\* The values of a statistic whose thread has begun are the minima of what it
\* read since it was last started, value i from the i-th object of its group.
MinimumSinceStart ==
    \A s \in Live(stat) :
        stat[s].ready =>
            \A i \in DOMAIN stat[s].values :
                /\ stat[s].values[i] = Min({r[2] : r \in stat[s].seen[i]} \cup {Inf})
                /\ stat[s].grp # None /\ main = <<>> =>
                      \A r \in stat[s].seen[i] : r[1] = grp[stat[s].grp].objs[i]

\* A group's objects are strictly ordered, which the lookups and the walks of
\* the set operations rely on; the indices below PWR_GrpGetNumObjs enumerate
\* each of them once (PWR_GrpGetObjByIndx), and a walk gives the set operation it
\* is named for, in order again.
GroupsAreSets ==
    /\ \A g \in Live(grp) :
          LET At(i) == GrpGetObjByIndx(g, i)
              inside == 0..(GrpGetNumObjs(g) - 1)
          IN  /\ \A i \in -1..Cardinality(Objs) : (At(i).ret = "SUCCESS") <=> i \in inside
              /\ \A i, j \in inside : i < j => At(i).obj < At(j).obj
    /\ \A g, h \in Live(grp) :
          LET s == grp[g].objs  t == grp[h].objs
              Is(walk, S) == /\ ToSet(walk) = S
                             /\ \A i, j \in DOMAIN walk : i < j => walk[i] < walk[j]
          IN  /\ Is(group_union(s, t), ToSet(s) \cup ToSet(t))
              /\ Is(group_intersection(s, t), ToSet(s) \cap ToSet(t))
              /\ Is(group_difference(s, t), ToSet(s) \ ToSet(t))
              /\ Is(group_sym_difference(s, t),
                    (ToSet(s) \ ToSet(t)) \cup (ToSet(t) \ ToSet(s)))

\* Unless building a context failed, the hint log is open exactly while there
\* is a context and a path for it (app_hint_init, app_hint_term).
HintLogOpen ==
    ~failed =>
        /\ initcount = Cardinality({c \in Ctxs : Context(c)})
        /\ logctx = (LogPath /\ initcount > 0)

\* Every call returns: no thread it joins samples for ever (stop_thread).
CallsReturn == main # <<>> ~> main = <<>>
===============================================================================
