--------------------------------- MODULE Log ---------------------------------
(***************************************************************************)
(* The logging system of lib/log.c inside one process: user threads that   *)
(* call the pmlog_* functions on the default context, and the write thread *)
(* that moves messages from the rings to the log file.                     *)
(*                                                                         *)
(* Every function holds the mutex of the context except while it waits on  *)
(* a condition, so a user's critical section is one step; the write thread *)
(* holds the mutex over several steps (HoldsMutex) and gives it up while   *)
(* it writes, rotates or sleeps.  A ring is the sequence of its messages;  *)
(* module LogRing shows that the byte ring behaves so.  What the files do  *)
(* in a rotation is module LogRotate.  Spurious wakeups are left out.      *)
(***************************************************************************)
EXTENDS Integers, Sequences, FiniteSets

CONSTANTS
    Threads,      \* the user threads
    NumRings,     \* num_rings, the write-through ring aside
    RingCap,      \* messages that fit into a ring
    ThruCap,      \* messages that fit into the write-through ring
    Programs,     \* for each program, the set of functions its threads call
    Kinds,        \* the kinds of message they log
    Balanced,     \* a user logs only between its own init and its own term
    Failures,     \* allocations and the open of the log file may fail
    MaxMessages,  \* bound: messages put into rings by each program
    MaxStarts,    \* bound: starts of a write thread
    MaxForks      \* bound: fork() calls, followed into the child

ASSUME LogAssumption ==
    /\ IsFiniteSet(Threads) /\ 0 \notin Threads
    /\ \A p \in Programs : p \subseteq
          {"init", "term", "message", "sync", "flush", "clear", "rotate",
           "autoflush", "logwrt", "level", "fork", "term_all", "enable", "disable"}
    /\ NumRings \in Nat /\ RingCap \in Nat \ {0} /\ ThruCap \in Nat \ {0}
    /\ Kinds \subseteq {"thru", "flush", "ring", "verbose"}
    /\ Balanced \in BOOLEAN /\ Failures \in BOOLEAN
    /\ MaxMessages \in [Programs -> Nat] /\ MaxStarts \in Nat /\ MaxForks \in Nat

VARIABLES
    ctx,        \* log_context_t
    td,         \* td[w]: the thread_data_t of the w-th write thread, and its pc
    call,       \* call[t]: the function that thread t is in
    asleep,     \* the users asleep on idlecond or thrucond
    global,     \* the thread that holds _global_mutex, or 0
    enable,     \* _log_enable
    ops,        \* the functions called in this behaviour
    \* history
    held,       \* the threads with more successful inits than terms
    sent,       \* for each message put into a ring, whether it was "thru"
    flushed,    \* the messages the write thread was told to write
    taken,      \* the messages the write thread has dealt with
    log,        \* the messages in the log file, in order
    lost,       \* rings that were in the hands of the writer at a fork
    nforks,
    dangling    \* freed memory or a null pointer was used

vars == <<ctx, td, call, asleep, global, enable, ops, held, sent, flushed,
          taken, log, lost, nforks, dangling>>
histVars == <<held, sent, flushed, taken, log, lost, nforks, dangling>>

Rings   == 1..NumRings
Writers == 1..MaxStarts
Elems(s) == {s[i] : i \in DOMAIN s}

-----------------------------------------------------------------------------
(* The context: rings, queues and the pointer to the running write thread. *)

\* Terminated: no rings, no queues, no write thread.
Freed == [init_count |-> 0, wrthread |-> 0, rings |-> [r \in Rings |-> <<>>],
          idleqp |-> <<>>, lockqp |-> <<>>, activering |-> 0, wrthru |-> <<>>,
          stderr_mask |-> {}]

Running == ctx.wrthread # 0

\* _mtx_putmessage into a normal ring discards the oldest messages.
PutMessage(s, m) == Append(IF Len(s) >= RingCap THEN Tail(s) ELSE s, m)

\* _mtx_getactivering waits for this.
ActiveAvailable(c) == c.activering # 0 \/ c.idleqp # <<>>

\* _mtx_getactivering, once there is an active or an idle ring.
GetActiveRing(c) ==
    IF c.activering # 0 THEN c
    ELSE [c EXCEPT !.activering = Head(c.idleqp), !.idleqp = Tail(c.idleqp)]

\* Mutants: the frozen ring stays active; it is put before the older ones.
FlushRingShared(c) == [c EXCEPT !.lockqp = Append(c.lockqp, c.activering)]

FlushRingFirst(c) == [c EXCEPT !.lockqp = <<c.activering>> \o c.lockqp,
                               !.activering = 0]

\* _mtx_flushring on the active ring: it is frozen on the lock queue.
FlushRing(c) == [c EXCEPT !.lockqp = Append(c.lockqp, c.activering),
                          !.activering = 0]

ClearRing(c) == [c EXCEPT !.rings[c.activering] = <<>>]

\* _level_to_mask: the message types that are also written to stderr.
Debug == {"DEBUG1", "DEBUG2"}
Trace == {"TRACE1", "TRACE2", "TRACE3"}
LevelToMask(msk, D, T) ==
    IF D = 0 /\ T = 0 THEN {}
    ELSE (({"other"} \cup msk) \ ((IF D >= 0 THEN Debug ELSE {})
                                 \cup (IF T >= 0 THEN Trace ELSE {})))
         \cup (IF D >= 2 THEN {"DEBUG2"} ELSE {})
         \cup (IF D >= 1 THEN {"DEBUG1"} ELSE {})
         \cup (IF T >= 3 THEN {"TRACE3"} ELSE {})
         \cup (IF T >= 2 THEN {"TRACE2"} ELSE {})
         \cup (IF T >= 1 THEN {"TRACE1"} ELSE {})

\* pmlog_stderr_get_level_ctx
GetLevel(msk) ==
    [D |-> IF "DEBUG2" \in msk THEN 2 ELSE IF "DEBUG1" \in msk THEN 1 ELSE 0,
     T |-> IF "TRACE3" \in msk THEN 3 ELSE IF "TRACE2" \in msk THEN 2
           ELSE IF "TRACE1" \in msk THEN 1 ELSE 0]

\* g_cond_signal(&ctx->workcond)
Signal(f) == [w \in Writers |-> IF f[w].pc = "wait"
                                THEN [f[w] EXCEPT !.pc = "woken"] ELSE f[w]]

NewWriter == [pc |-> "open", terminate |-> FALSE, sync |-> FALSE,
              rotate |-> FALSE, autoflush |-> FALSE, logwrt |-> TRUE,
              logfd |-> FALSE, ring |-> 0, msg |-> 0, didwork |-> FALSE]
NoWriter == [NewWriter EXCEPT !.pc = "none"]

\* Where the write thread holds the mutex.
HoldsMutex == {"top", "rings", "ring", "thru"}
MutexFree == \A w \in Writers : td[w].pc \notin HoldsMutex

\* The messages that have been flushed and not been dealt with.
InFlight(c, f) ==
    LET w == c.wrthread
    IN  (UNION {Elems(c.rings[r]) : r \in Elems(c.lockqp)}) \cup Elems(c.wrthru)
        \cup (IF w # 0 /\ f[w].ring # 0 THEN Elems(c.rings[f[w].ring]) ELSE {})
        \cup {f[v].msg : v \in {u \in Writers : f[u].msg # 0}}

-----------------------------------------------------------------------------
(* Users                                                                   *)

NoCall == [op |-> "none", stage |-> "none", arg |-> "none", join |-> 0, owed |-> {},
           level |-> [D |-> 0, T |-> 0]]
Return(t) == call' = [call EXCEPT ![t] = NoCall]

\* Wait on a condition: g_cond_wait(&ctx->idlecond or thrucond, &ctx->mutex).
Sleep(t, c, stage) == /\ call' = [call EXCEPT ![t] = [c EXCEPT !.stage = stage]]
                      /\ asleep' = asleep \cup {t}

\* Mutant: the write thread is kicked without the flag.
KickUnflagged(f, c) == Signal(f)

\* _mtx_sync up to its wait: set the flag, kick the write thread.
Kick(f, c) == Signal([f EXCEPT ![c.wrthread].sync = TRUE])

\* _mtx_pmlog_term: the last reference, or force, stops the write thread and
\* frees queues and rings.  The caller joins the thread afterwards.
TermJoins(force) == force \/ ctx.init_count <= 1
MtxTerm(t, c, force) ==
    LET w == ctx.wrthread IN
    /\ IF TermJoins(force)
       THEN /\ ctx' = [Freed EXCEPT !.stderr_mask = ctx.stderr_mask]
            /\ td' = IF w # 0 THEN Signal([td EXCEPT ![w].terminate = TRUE])
                              ELSE td
            /\ call' = [call EXCEPT ![t] =
                          [c EXCEPT !.stage = "join", !.join = w]]
            /\ lost' = {}
       ELSE /\ ctx' = [ctx EXCEPT !.init_count = ctx.init_count - 1]
            /\ call' = [call EXCEPT ![t] = [c EXCEPT !.stage = "join"]]
            /\ UNCHANGED <<td, lost>>
    /\ held' = IF force THEN {} ELSE IF c.op = "term" THEN held \ {t} ELSE held
    /\ UNCHANGED <<enable, sent, flushed, taken, log, nforks, dangling>>

\* The end of pmlog_message_ctx: the message goes into the write-through ring
\* (always with autoflush) or into the active ring, when there is space.
Deliver(t, c) ==
    LET m    == Len(sent) + 1
        thru == c.arg = "thru" \/ (/\ c.stage # "active"
                                  /\ td[ctx.wrthread].autoflush)
        a    == GetActiveRing(ctx)
        put  == [a EXCEPT !.rings[a.activering] = PutMessage(@, m)]
        now  == IF c.arg = "flush" THEN FlushRing(put) ELSE put
    IN  /\ \/ /\ thru /\ Len(ctx.wrthru) >= ThruCap
              /\ Sleep(t, [c EXCEPT !.arg = "thru"], "thru")
              /\ UNCHANGED <<ctx, td, sent, flushed>>
           \/ /\ thru /\ Len(ctx.wrthru) < ThruCap
              /\ ctx' = [ctx EXCEPT !.wrthru = Append(@, m)]
              /\ td' = Signal(td)
              /\ sent' = Append(sent, "thru")
              /\ flushed' = flushed \cup {m}
              /\ Return(t) /\ UNCHANGED asleep
           \/ /\ ~thru /\ NumRings = 0
              /\ Return(t)
              /\ UNCHANGED <<ctx, td, asleep, sent, flushed>>
           \/ /\ ~thru /\ NumRings # 0 /\ ~ActiveAvailable(ctx)
              /\ Sleep(t, c, "active")
              /\ UNCHANGED <<ctx, td, sent, flushed>>
           \/ /\ ~thru /\ NumRings # 0 /\ ActiveAvailable(ctx)
              /\ ctx' = now
              /\ sent' = Append(sent, "ring")
              /\ flushed' = IF c.arg = "flush"
                            THEN flushed \cup Elems(put.rings[a.activering])
                            ELSE flushed
              /\ td' = IF c.arg = "flush" THEN Signal(td) ELSE td
              /\ Return(t) /\ UNCHANGED asleep
        /\ UNCHANGED <<held, taken, log, lost, nforks, dangling>>

\* pmlog_flush_ring_ctx, pmlog_clear_ring_ctx and the ring part of
\* pmlog_autoflush_ctx (which then sets the flag), when a ring is available.
UseActive(t, c) ==
    LET a == GetActiveRing(ctx)
        flush == c.op = "flush" \/ (c.op = "autoflush" /\ c.arg = "flush")
        f == IF c.op = "autoflush" /\ Running
             THEN [td EXCEPT ![ctx.wrthread].autoflush = TRUE] ELSE td
    IN  /\ IF NumRings # 0 /\ ~ActiveAvailable(ctx)
           THEN Sleep(t, c, "active") /\ UNCHANGED <<ctx, td, flushed>>
           ELSE /\ ctx' = IF NumRings = 0 THEN ctx
                          ELSE IF flush THEN FlushRing(a) ELSE ClearRing(a)
                /\ flushed' = IF NumRings # 0 /\ flush
                              THEN flushed \cup Elems(a.rings[a.activering])
                              ELSE flushed
                /\ td' = IF NumRings # 0 /\ flush THEN Signal(f) ELSE f
                /\ Return(t) /\ UNCHANGED asleep
        /\ UNCHANGED <<held, sent, taken, log, lost, nforks, dangling>>

\* fork() and _pmlog_post_fork_parent: the mutexes are released.
ForkParent(t) ==
    /\ global' = 0 /\ Return(t)
    /\ UNCHANGED <<ctx, td, asleep, enable, histVars>>

\* fork() and _pmlog_post_fork_child: only thread t exists in the child; it
\* starts a write thread with the old data and syncs with it.
ForkChild(t) ==
    LET w == ctx.wrthread IN
    /\ Running /\ nforks < MaxForks
    /\ nforks' = nforks + 1
    /\ td' = [v \in Writers |->
                IF v = w THEN [td[v] EXCEPT !.pc = "open", !.sync = TRUE,
                                 !.logfd = FALSE, !.ring = 0, !.msg = 0]
                ELSE IF td[v].pc = "none" THEN td[v]
                ELSE [NewWriter EXCEPT !.pc = "done"]]
    /\ lost' = IF td[w].ring # 0 THEN lost \cup {td[w].ring} ELSE lost
    /\ flushed' = flushed \cap (taken \cup InFlight(ctx, td'))
    /\ held' = held \cap {t}
    /\ call' = [u \in Threads |-> IF u = t
                  THEN [call[t] EXCEPT !.op = "child", !.stage = "sync"]
                  ELSE NoCall]
    /\ asleep' = {t} /\ global' = t
    /\ UNCHANGED <<ctx, enable, sent, taken, log, dangling>>

\* What _mtx_file_open_errcode returns after the sync.
FileOpen == IF Running THEN td[ctx.wrthread].logfd ELSE FALSE

\* What follows _mtx_sync in each function.
AfterSync(t, c) ==
    \/ /\ c.op \in {"init", "message"}
       /\ ~FileOpen
       /\ MtxTerm(t, c, FALSE) /\ UNCHANGED <<asleep, global>>
    \/ /\ c.op = "init" /\ FileOpen
       /\ held' = held \cup {t} /\ Return(t)
       /\ UNCHANGED <<ctx, td, asleep, global, enable, sent, flushed, taken, log,
                      lost, nforks, dangling>>
    \/ /\ c.op = "message" /\ FileOpen
       /\ Deliver(t, c) /\ UNCHANGED <<global, enable>>
    \/ /\ c.op \in {"term", "term_all", "disable"}
       /\ MtxTerm(t, c, c.op # "term") /\ UNCHANGED <<asleep, global>>
    \/ /\ c.op = "autoflush" /\ c.arg # "off" /\ Running
       /\ UseActive(t, c) /\ UNCHANGED <<global, enable>>
    \/ /\ c.op \in {"autoflush", "logwrt"} /\ (c.arg = "off" \/ ~Running)
       /\ td' = IF ~Running THEN td
                ELSE IF c.op = "logwrt"
                THEN [td EXCEPT ![ctx.wrthread].logwrt = ~@]
                ELSE [td EXCEPT ![ctx.wrthread].autoflush = FALSE]
       /\ Return(t) /\ UNCHANGED <<ctx, asleep, global, enable, histVars>>
    \/ /\ c.op = "level" /\ Return(t)
       /\ ctx' = [ctx EXCEPT !.stderr_mask = LevelToMask(@, c.level.D, c.level.T)]
       /\ UNCHANGED <<td, asleep, global, enable, histVars>>
    \/ /\ c.op = "sync" /\ Return(t)
       /\ UNCHANGED <<ctx, td, asleep, global, enable, histVars>>
    \/ /\ c.op = "fork" /\ (ForkParent(t) \/ ForkChild(t))
    \/ /\ c.op = "child" /\ global' = 0 /\ Return(t)
       /\ UNCHANGED <<ctx, td, asleep, enable, histVars>>

\* A well-behaved user logs between init and term; the last one may force.
MayCall(t, op) ==
    /\ op \in ops /\ call[t] = NoCall /\ global = 0 /\ MutexFree
    /\ enable # "none" \/ op \in {"enable", "term_all"}
    /\ Balanced =>
        \/ op = "init" /\ t \notin held
        \/ op \in {"term_all", "disable", "enable"} /\ held = {}
              /\ \A u \in Threads : call[u] = NoCall
        \/ t \in held /\ op \notin {"init", "term_all", "disable", "enable"}

Args(op) == CASE op = "message" -> Kinds
              [] op = "autoflush" -> {"flush", "clear", "off"}
              [] op = "logwrt" -> {"off"}
              [] OTHER -> {"none"}

Entered(t, op, a) == [NoCall EXCEPT !.op = op, !.stage = "sync", !.arg = a,
                       !.owed = IF op = "sync" THEN InFlight(ctx, td) ELSE {}]

\* pmlog_stderr_set_level_ctx; a level of -1 leaves that level alone.
CallLevel(t) == \E D \in -1..2, T \in -1..3 :
    LET c == [Entered(t, "level", "none") EXCEPT !.level = [D |-> D, T |-> T]] IN
    /\ MayCall(t, "level")
    /\ IF Running THEN /\ td' = Kick(td, ctx) /\ Sleep(t, c, "sync")
                       /\ UNCHANGED <<ctx, global, enable, histVars>>
                  ELSE AfterSync(t, c)

\* The functions that begin with _mtx_sync.
Syncing == {"autoflush", "logwrt", "sync", "term", "term_all", "disable", "fork"}
CallSync(t) == \E op \in Syncing : \E a \in Args(op) :
    LET c == Entered(t, op, a)
        g == IF op \in {"term_all", "disable", "fork"} THEN t ELSE global
    IN  /\ MayCall(t, op)
        /\ op = "fork" => Running /\ nforks < MaxForks
        /\ global' = g
        /\ enable' = IF op = "disable" THEN "none" ELSE enable
        /\ IF Running
           THEN /\ td' = Kick(td, ctx) /\ Sleep(t, c, "sync")
                /\ UNCHANGED <<ctx, histVars>>
           ELSE /\ call' = [call EXCEPT ![t] =
                     IF op \in {"term", "term_all", "disable"}
                     THEN [c EXCEPT !.stage = "join"] ELSE NoCall]
                /\ UNCHANGED <<ctx, td, asleep, histVars>>

\* _mtx_pmlog_init: count the reference; the first one allocates and starts
\* the write thread.  With a failure everything is undone.
Started == {w \in Writers : td[w].pc # "none"}
MtxInit(t, c) ==
    LET w == Cardinality(Started) + 1
        n == [Freed EXCEPT !.init_count = 1, !.wrthread = w,
                           !.idleqp = [i \in Rings |-> i]]
    IN  \/ /\ ctx.init_count # 0
           /\ ctx' = [ctx EXCEPT !.init_count = @ + 1]
           /\ td' = IF Running THEN Kick(td, ctx) ELSE td
           /\ Sleep(t, c, "sync") /\ UNCHANGED histVars
        \/ /\ ctx.init_count = 0 /\ w \in Writers
           /\ ctx' = n /\ td' = Kick([td EXCEPT ![w] = NewWriter], n)
           /\ Sleep(t, c, "sync") /\ UNCHANGED histVars
        \/ /\ ctx.init_count = 0 /\ Failures
           /\ Return(t) /\ UNCHANGED <<ctx, td, asleep, histVars>>

\* pmlog_init_ctx
CallInit(t) == /\ MayCall(t, "init")
               /\ MtxInit(t, Entered(t, "init", "none"))
               /\ UNCHANGED <<global, enable>>

\* pmlog_message_ctx: high-verbosity messages count only when logging is
\* fully enabled, the first message initializes.  (A LOG_TYPE_CONSOLE message
\* and a rejected one change nothing here.)
CallMessage(t) == \E k \in Kinds :
    LET c == Entered(t, "message", IF k = "verbose" THEN "ring" ELSE k) IN
    /\ MayCall(t, "message") /\ (k = "verbose" => enable = "full")
    /\ Len(sent) + Cardinality({u \in Threads : call[u].op = "message"})
            < MaxMessages[ops]
    /\ IF Running THEN Deliver(t, c) ELSE MtxInit(t, c)
    /\ UNCHANGED <<global, enable>>

\* pmlog_flush_ring_ctx and pmlog_clear_ring_ctx
CallRing(t) == \E op \in {"flush", "clear"} :
    /\ MayCall(t, op) /\ Running
    /\ UseActive(t, Entered(t, op, "none")) /\ UNCHANGED <<global, enable>>

\* pmlog_rotate_ctx
CallRotate(t) ==
    /\ MayCall(t, "rotate") /\ Running
    /\ td' = Signal([td EXCEPT ![ctx.wrthread].rotate = TRUE])
    /\ Sleep(t, Entered(t, "rotate", "none"), "rotate")
    /\ UNCHANGED <<ctx, global, enable, histVars>>

\* pmlog_enable with a code other than LOG_ENABLE_NONE.
CallEnable(t) == \E e \in {"default", "full"} :
    /\ MayCall(t, "enable") /\ enable' = e /\ e # enable
    /\ UNCHANGED <<ctx, td, call, asleep, global, histVars>>

\* A wakened user holds the mutex again and looks at its condition.
ResumeSync(t) ==
    /\ call[t].stage = "sync" /\ t \notin asleep /\ MutexFree
    /\ IF Running /\ td[ctx.wrthread].sync
       THEN /\ asleep' = asleep \cup {t}
            /\ UNCHANGED <<ctx, td, call, global, enable, histVars>>
       ELSE AfterSync(t, call[t])

ResumeRing(t) ==
    /\ call[t].stage \in {"thru", "active"} /\ t \notin asleep /\ MutexFree
    /\ \/ /\ call[t].stage = "thru" /\ ~Running      \* ctx->wrthruring is NULL
          /\ dangling' = TRUE /\ Return(t)
          /\ UNCHANGED <<ctx, td, asleep, held, sent, flushed, taken, log, lost,
                         nforks>>
       \/ /\ call[t].stage = "active" \/ Running
          /\ IF call[t].op = "message" THEN Deliver(t, call[t])
                                       ELSE UseActive(t, call[t])
    /\ UNCHANGED <<global, enable>>

ResumeRotate(t) ==
    /\ call[t].stage = "rotate" /\ t \notin asleep /\ MutexFree
    /\ IF Running /\ td[ctx.wrthread].rotate
       THEN asleep' = asleep \cup {t} /\ UNCHANGED <<call, dangling>>
       ELSE /\ dangling' = (dangling \/ ~Running)
            /\ Return(t) /\ UNCHANGED asleep
    /\ UNCHANGED <<ctx, td, global, enable, held, sent, flushed, taken, log,
                   lost, nforks>>

\* _join_wrthread, outside the mutex.
Join(t) ==
    LET w == call[t].join IN
    /\ call[t].stage = "join" /\ (w # 0 => td[w].pc = "done")
    /\ Return(t)
    /\ global' = IF global = t THEN 0 ELSE global
    /\ UNCHANGED <<ctx, td, asleep, enable, histVars>>

-----------------------------------------------------------------------------
(* The write thread                                                        *)

Goto(w, pc) == td' = [td EXCEPT ![w].pc = pc]
userVars == <<call, asleep, global, enable>>
Waiting(stages) == {t \in asleep : call[t].stage \in stages}

\* Open the control file and the log file, then take the mutex.
WOpen(w) ==
    /\ td[w].pc = "open" /\ MutexFree
    /\ \E ok \in IF Failures THEN BOOLEAN ELSE {TRUE} :
          td' = [td EXCEPT ![w].pc = "top", ![w].logfd = ok, ![w].didwork = TRUE]
    /\ UNCHANGED <<ctx, userVars, histVars>>

\* The start of a pass: a forced rotation, if requested, is done without the
\* mutex.
StartPass(w) == td' = [td EXCEPT ![w].didwork = FALSE,
                        ![w].pc = IF td[w].rotate THEN "rotate" ELSE "rings"]

\* Mutant: the sync flag is cleared after a pass that did work, too.
WTopEager(w) ==
    /\ td[w].pc = "top"
    /\ IF ~td[w].terminate /\ td[w].didwork
       THEN /\ td' = [td EXCEPT ![w].didwork = FALSE, ![w].sync = FALSE,
                        ![w].pc = IF td[w].rotate THEN "rotate" ELSE "rings"]
            /\ asleep' = asleep \ Waiting({"sync"})
       ELSE /\ td' = IF td[w].terminate
                     THEN [td EXCEPT ![w] = [NewWriter EXCEPT !.pc = "done"]]
                     ELSE [td EXCEPT ![w].pc = "wait", ![w].sync = FALSE]
            /\ asleep' = asleep \ Waiting({"sync", "active", "rotate"})
    /\ UNCHANGED <<ctx, call, global, enable, histVars>>

\* while (!td->terminate): after a pass without work clear the sync flag,
\* wake the users and wait for work; when told to stop, leave and close the
\* log file.
WTop(w) ==
    /\ td[w].pc = "top"
    /\ IF ~td[w].terminate /\ td[w].didwork
       THEN StartPass(w) /\ UNCHANGED asleep
       ELSE /\ td' = IF td[w].terminate
                     THEN [td EXCEPT ![w] = [NewWriter EXCEPT !.pc = "done"]]
                     ELSE [td EXCEPT ![w].pc = "wait", ![w].sync = FALSE]
            /\ asleep' = asleep \ Waiting({"sync", "active", "rotate"})
    /\ UNCHANGED <<ctx, call, global, enable, histVars>>

WWake(w) == /\ td[w].pc = "woken" /\ MutexFree /\ StartPass(w)
            /\ UNCHANGED <<ctx, userVars, histVars>>

\* _thr_rotate_logs(td, true): the log file may fail to open again.
WRotate(w) ==
    /\ td[w].pc = "rotate" /\ MutexFree
    /\ \E ok \in IF Failures THEN {td[w].logfd, FALSE} ELSE {td[w].logfd} :
          td' = [td EXCEPT ![w].pc = "rings", ![w].logfd = ok,
                           ![w].rotate = FALSE, ![w].didwork = TRUE]
    /\ UNCHANGED <<ctx, userVars, histVars>>

\* Pop a locked ring, or go on to the write-through ring.
WRings(w) ==
    /\ td[w].pc = "rings"
    /\ IF ~td[w].terminate /\ ctx.lockqp # <<>>
       THEN /\ td' = [td EXCEPT ![w].ring = Head(ctx.lockqp), ![w].pc = "ring"]
            /\ ctx' = [ctx EXCEPT !.lockqp = Tail(@)]
       ELSE Goto(w, "thru") /\ UNCHANGED ctx
    /\ UNCHANGED <<userVars, histVars>>

\* Take the next message of the ring and give up the mutex to write it; the
\* empty ring goes to the idle queue - also when the context was terminated
\* in the meantime, and ring and queue are freed.
WRing(w) ==
    LET r == td[w].ring IN
    /\ td[w].pc = "ring"
    /\ \/ /\ ~td[w].terminate /\ ctx.rings[r] # <<>>
          /\ td' = [td EXCEPT ![w].msg = Head(ctx.rings[r]), ![w].pc = "write"]
          /\ ctx' = [ctx EXCEPT !.rings[r] = Tail(@)]
          /\ UNCHANGED dangling
       \/ /\ ~td[w].terminate /\ ctx.rings[r] = <<>>
          /\ td' = [td EXCEPT ![w].ring = 0, ![w].pc = "rings",
                              ![w].didwork = TRUE]
          /\ ctx' = [ctx EXCEPT !.idleqp = Append(@, r)]
          /\ UNCHANGED dangling
       \/ /\ td[w].terminate
          /\ td' = [td EXCEPT ![w].ring = 0, ![w].pc = "rings",
                              ![w].didwork = TRUE]
          /\ dangling' = TRUE /\ UNCHANGED ctx
    /\ UNCHANGED <<userVars, held, sent, flushed, taken, log, lost, nforks>>

\* Mutant: thrucond is not signalled.
WThruSilent(w) ==
    /\ td[w].pc = "thru"
    /\ IF ~td[w].terminate /\ ctx.wrthru # <<>>
       THEN /\ td' = [td EXCEPT ![w].msg = Head(ctx.wrthru), ![w].pc = "write"]
            /\ ctx' = [ctx EXCEPT !.wrthru = Tail(@)]
       ELSE Goto(w, "top") /\ UNCHANGED ctx
    /\ UNCHANGED <<asleep, call, global, enable, histVars>>

\* Take a message of the write-through ring and wake the users that wait for
\* space in it; when there is none the pass is over.
WThru(w) ==
    /\ td[w].pc = "thru"
    /\ IF ~td[w].terminate /\ ctx.wrthru # <<>>
       THEN /\ td' = [td EXCEPT ![w].msg = Head(ctx.wrthru), ![w].pc = "write"]
            /\ ctx' = [ctx EXCEPT !.wrthru = Tail(@)]
            /\ asleep' = asleep \ Waiting({"thru"})
       ELSE Goto(w, "top") /\ UNCHANGED <<ctx, asleep>>
    /\ UNCHANGED <<call, global, enable, histVars>>

\* Without the mutex: rotate if the file is full, write, lock again.
WWrite(w) ==
    LET m == td[w].msg IN
    /\ td[w].pc = "write" /\ MutexFree
    /\ td' = [td EXCEPT ![w].msg = 0,
                  ![w].pc = IF td[w].ring # 0 THEN "ring" ELSE "thru",
                  ![w].didwork = IF td[w].ring # 0 THEN @ ELSE TRUE]
    /\ taken' = taken \cup {m}
    /\ log' = IF td[w].logwrt /\ td[w].logfd THEN Append(log, m) ELSE log
    /\ UNCHANGED <<ctx, userVars, held, sent, flushed, lost, nforks, dangling>>

-----------------------------------------------------------------------------
Init ==
    /\ ctx = Freed /\ td = [w \in Writers |-> NoWriter]
    /\ call = [t \in Threads |-> NoCall] /\ asleep = {} /\ global = 0
    /\ enable = "default" /\ ops \in Programs
    /\ held = {} /\ sent = <<>> /\ flushed = {} /\ taken = {} /\ log = <<>>
    /\ lost = {} /\ nforks = 0 /\ dangling = FALSE

Call(t) == \/ CallSync(t) \/ CallLevel(t) \/ CallInit(t) \/ CallMessage(t) \/ CallRing(t)
           \/ CallRotate(t) \/ CallEnable(t)
Resume(t) == ResumeSync(t) \/ ResumeRing(t) \/ ResumeRotate(t) \/ Join(t)
Writer(w) == \/ WOpen(w) \/ WTop(w) \/ WWake(w) \/ WRotate(w)
             \/ WRings(w) \/ WRing(w) \/ WThru(w) \/ WWrite(w)

Next == /\ \/ \E t \in Threads : Call(t) \/ Resume(t)
           \/ \E w \in Writers : Writer(w)
        /\ UNCHANGED ops

Spec == Init /\ [][Next]_vars

-----------------------------------------------------------------------------
(* Properties                                                              *)

\* Types, and the shapes of the records.
TypeOK ==
    /\ ctx \in [init_count : Nat, wrthread : 0..MaxStarts,
                rings : [Rings -> Seq(Nat)], idleqp : Seq(Rings),
                lockqp : Seq(Rings), activering : 0..NumRings, wrthru : Seq(Nat),
                stderr_mask : SUBSET (Debug \cup Trace \cup {"other"})]
    /\ asleep \subseteq Threads /\ global \in Threads \cup {0}
    /\ enable \in {"none", "default", "full"} /\ held \subseteq Threads
    /\ dangling \in BOOLEAN /\ lost \subseteq Rings
    /\ Len(ctx.wrthru) <= ThruCap
    /\ \A r \in Rings : Len(ctx.rings[r]) <= RingCap

\* While logging runs every ring is in exactly one place: idle, locked, the
\* active ring, or in the hands of the write thread (_mtx_getactivering,
\* _mtx_flushring and the loop of _pmlog_write_thread pass it around).  A ring
\* disappears only if a fork catches the writer with it.
RingsConserved ==
    Running =>
        LET hand == td[ctx.wrthread].ring
            seq  == ctx.idleqp \o ctx.lockqp
                    \o (IF ctx.activering # 0 THEN <<ctx.activering>> ELSE <<>>)
                    \o (IF hand # 0 THEN <<hand>> ELSE <<>>)
        IN  /\ Elems(seq) \cup lost = Rings
            /\ Elems(seq) \cap lost = {}
            /\ Cardinality(Elems(seq)) = Len(seq)

\* Under balanced use no flushed message is dropped: it is in a queue, in the
\* hands of the write thread or dealt with, also across pmlog_term.
FlushedNotLost == flushed \subseteq taken \cup InFlight(ctx, td)

\* The write-through messages appear in the log in the order in which they
\* were sent, and so do those of the normal rings.
InOrder ==
    \A i, j \in 1..Len(log) :
        i < j /\ sent[log[i]] = sent[log[j]] => log[i] < log[j]

\* "It will never reference a global value if this flag is set": no freed ring
\* or queue, and no null pointer, is used.
NoDangling == ~dangling

\* pmlog_sync_ctx returns after what was flushed before it has been dealt with.
SyncMeansWritten ==
    [][\A t \in Threads :
         call[t].op = "sync" /\ call'[t] = NoCall /\ nforks' = nforks
            => call[t].owed \subseteq taken]_vars

\* No wakeup is lost: when the write thread sleeps and every user that is in a
\* call is asleep or waits for a thread to end, nobody is in a call.  (A fork
\* that takes a ring away may leave a user waiting for it in the child.)
NoLostWakeup ==
    (/\ \A w \in Writers : td[w].pc \in {"none", "wait", "done"}
     /\ \A t \in Threads :
           \/ call[t] = NoCall \/ t \in asleep
           \/ /\ call[t].stage = "join" /\ call[t].join # 0
              /\ td[call[t].join].pc # "done")
    => lost # {} \/ \A t \in Threads : call[t] = NoCall

=============================================================================
