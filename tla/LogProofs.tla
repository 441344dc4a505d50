------------------------------ MODULE LogProofs -------------------------------
(***************************************************************************)
(* The logging of one process, for any number of threads, rings, messages, *)
(* starts and forks: a ring is always in exactly one place; and, for users *)
(* that log between their own init and their own term, nothing freed is    *)
(* used, no flushed message is lost, and a sync returns when it is kept.   *)
(***************************************************************************)
EXTENDS Log, FiniteSetTheorems, SequenceTheorems, TLAPS

WriterPc == {"none", "open", "top", "wait", "woken", "rotate", "rings", "ring", "thru",
             "write", "done"}

Message == Nat \ {0}

Context == [init_count : Nat, wrthread : 0..MaxStarts, rings : [Rings -> Seq(Message)],
            idleqp : Seq(Rings), lockqp : Seq(Rings), activering : 0..NumRings,
            wrthru : Seq(Message), stderr_mask : SUBSET (Debug \cup Trace \cup {"other"})]

\* No ring holds more messages than fit into it.
InBounds(c) == Len(c.wrthru) <= ThruCap /\ \A r \in Rings : Len(c.rings[r]) <= RingCap

ThreadData == [pc : WriterPc, terminate : BOOLEAN, sync : BOOLEAN, rotate : BOOLEAN,
               autoflush : BOOLEAN, logwrt : BOOLEAN, logfd : BOOLEAN,
               ring : 0..NumRings, msg : Nat, didwork : BOOLEAN]
Table == [Writers -> ThreadData]

Sent == {"thru", "ring"}

LogType == /\ ctx \in Context /\ InBounds(ctx)
           /\ td \in Table /\ sent \in Seq(Sent) /\ lost \subseteq Rings
           /\ asleep \subseteq Threads /\ global \in Threads \cup {0}
           /\ enable \in {"none", "default", "full"} /\ held \subseteq Threads
           /\ dangling \in BOOLEAN

\* What the write thread v has in its hands goes with where it is.
Shape(v) ==
    /\ td[v].ring # 0 => td[v].pc \in {"ring", "write"}
    /\ td[v].pc = "ring" => td[v].ring # 0
    /\ td[v].msg # 0 <=> td[v].pc = "write"

\* There is a write thread while there are references, and only it has not
\* been told to terminate.
ThreadInv ==
    /\ ctx.init_count = 0 <=> ~ Running
    /\ Running => ~ td[ctx.wrthread].terminate
    /\ \A v \in Writers : /\ Shape(v)
                          /\ v # ctx.wrthread => \/ td[v].terminate
                                                 \/ td[v].pc \in {"none", "done"}

\* The places of the rings: the idle and the locked ones, the active one, the
\* one in the hand of the write thread, and those that a fork has taken.
Placed(idle, lock, act, hand, gone) ==
    /\ \A i, j \in DOMAIN idle : idle[i] = idle[j] => i = j
    /\ \A i, j \in DOMAIN lock : lock[i] = lock[j] => i = j
    /\ Elems(idle) \cap Elems(lock) = {}
    /\ act # 0 => act \notin Elems(idle) \cup Elems(lock) \cup gone /\ act # hand
    /\ hand # 0 => hand \notin Elems(idle) \cup Elems(lock) \cup gone
    /\ gone \cap (Elems(idle) \cup Elems(lock)) = {}
    /\ Rings \subseteq Elems(idle) \cup Elems(lock) \cup gone \cup {act, hand}

RingsInv ==
    IF Running
    THEN Placed(ctx.idleqp, ctx.lockqp, ctx.activering, td[ctx.wrthread].ring, lost)
    ELSE lost = {}

LogInv == LogType /\ ThreadInv /\ RingsInv

\* A user changes the flags of a write thread, though it never clears sync, and
\* may wake it up.
Pings(f, g) ==
    /\ g \in Table
    /\ \A v \in Writers : /\ g[v].ring = f[v].ring /\ g[v].msg = f[v].msg
                          /\ g[v].terminate = f[v].terminate
                          /\ f[v].sync => g[v].sync
                          /\ \/ g[v].pc = f[v].pc
                             \/ f[v].pc = "wait" /\ g[v].pc = "woken"

\* From the context c to d: the same write thread; the rings may move.
Shifts(c, d) ==
    /\ d.wrthread = c.wrthread
    /\ \A hand, gone : Placed(c.idleqp, c.lockqp, c.activering, hand, gone)
                        => Placed(d.idleqp, d.lockqp, d.activering, hand, gone)

Moves(c, d) == Shifts(c, d) /\ d.init_count = c.init_count

Plain == /\ Shifts(ctx, ctx') /\ (ctx'.init_count = 0 <=> ctx.init_count = 0)
         /\ Pings(td, td') /\ lost' = lost

-----------------------------------------------------------------------------
(* How rings move                                                          *)

LEMMA ElemsSeq ==
    ASSUME NEW S, NEW s \in Seq(S)
    PROVE  /\ Elems(s) \subseteq S
           /\ \A x \in S : Elems(Append(s, x)) = Elems(s) \cup {x}
           /\ s # <<>> => /\ Head(s) \in S /\ Tail(s) \in Seq(S)
                          /\ Elems(s) = Elems(Tail(s)) \cup {Head(s)}
<1>1. Elems(s) \subseteq S
  BY DEF Elems
<1>2. ASSUME NEW x \in S PROVE Elems(Append(s, x)) = Elems(s) \cup {x}
  <2>1. /\ DOMAIN Append(s, x) = DOMAIN s \cup {Len(s) + 1}
        /\ \A i \in DOMAIN s : Append(s, x)[i] = s[i]
        /\ Append(s, x)[Len(s) + 1] = x
    OBVIOUS
  <2> QED BY <2>1 DEF Elems
<1>3. ASSUME s # <<>> PROVE Elems(s) = Elems(Tail(s)) \cup {Head(s)}
  <2>1. /\ \A i \in DOMAIN Tail(s) : i + 1 \in DOMAIN s /\ Tail(s)[i] = s[i + 1]
        /\ \A i \in DOMAIN s : i = 1 \/ (i - 1 \in DOMAIN Tail(s) /\ Tail(s)[i - 1] = s[i])
        /\ 1 \in DOMAIN s /\ Head(s) = s[1]
    BY <1>3
  <2>2. Elems(s) \subseteq Elems(Tail(s)) \cup {Head(s)}
    BY <2>1 DEF Elems
  <2>3. Elems(Tail(s)) \cup {Head(s)} \subseteq Elems(s)
    BY <2>1 DEF Elems
  <2> QED BY <2>2, <2>3
<1>4. s # <<>> => Head(s) \in S /\ Tail(s) \in Seq(S)
  OBVIOUS
<1> QED BY <1>1, <1>2, <1>3, <1>4

LEMMA InjectiveSeq ==
    ASSUME NEW S, NEW s \in Seq(S), \A i, j \in DOMAIN s : s[i] = s[j] => i = j
    PROVE  /\ \A x \in S \ Elems(s) :
                 \A i, j \in DOMAIN Append(s, x) : Append(s, x)[i] = Append(s, x)[j] => i = j
           /\ s # <<>> => /\ \A i, j \in DOMAIN Tail(s) : Tail(s)[i] = Tail(s)[j] => i = j
                          /\ Head(s) \notin Elems(Tail(s))
<1>1. ASSUME NEW x \in S \ Elems(s)
      PROVE  \A i, j \in DOMAIN Append(s, x) : Append(s, x)[i] = Append(s, x)[j] => i = j
  <2>1. /\ DOMAIN Append(s, x) = DOMAIN s \cup {Len(s) + 1}
        /\ \A i \in DOMAIN s : Append(s, x)[i] = s[i]
        /\ Append(s, x)[Len(s) + 1] = x
    OBVIOUS
  <2> QED BY <1>1, <2>1 DEF Elems
<1>2. ASSUME s # <<>>
      PROVE  /\ \A i, j \in DOMAIN Tail(s) : Tail(s)[i] = Tail(s)[j] => i = j
             /\ Head(s) \notin Elems(Tail(s))
  <2>1. /\ \A i \in DOMAIN Tail(s) : /\ i + 1 \in DOMAIN s /\ Tail(s)[i] = s[i + 1]
                                     /\ i \in Nat /\ i + 1 # 1
        /\ 1 \in DOMAIN s /\ Head(s) = s[1]
    BY <1>2
  <2> QED BY <2>1 DEF Elems
<1> QED BY <1>1, <1>2

\* _mtx_getactivering takes the first idle ring, ...
LEMMA TakeIdle ==
    ASSUME NEW idle \in Seq(Rings), NEW lock, NEW hand, NEW gone,
           Placed(idle, lock, 0, hand, gone), idle # <<>>
    PROVE  Placed(Tail(idle), lock, Head(idle), hand, gone) /\ Head(idle) \in Rings
<1>1. /\ Head(idle) \in Rings
      /\ Elems(idle) = Elems(Tail(idle)) \cup {Head(idle)}
  BY ElemsSeq
<1>2. /\ \A i, j \in DOMAIN Tail(idle) : Tail(idle)[i] = Tail(idle)[j] => i = j
      /\ Head(idle) \notin Elems(Tail(idle))
  BY InjectiveSeq DEF Placed
<1>3. 0 \notin Rings
  BY DEF Rings
<1> QED BY <1>1, <1>2, <1>3 DEF Placed

\* ... _mtx_flushring locks the active one, ...
LEMMA LockActive ==
    ASSUME NEW idle, NEW lock \in Seq(Rings), NEW act \in Rings, NEW hand, NEW gone,
           Placed(idle, lock, act, hand, gone)
    PROVE  Placed(idle, Append(lock, act), 0, hand, gone)
<1>1. Elems(Append(lock, act)) = Elems(lock) \cup {act}
  BY ElemsSeq
<1>2. act # 0
  BY LogAssumption DEF Rings
<1>3. \A i, j \in DOMAIN Append(lock, act) : Append(lock, act)[i] = Append(lock, act)[j] => i = j
  <2>1. act \in Rings \ Elems(lock)
    BY <1>2 DEF Placed
  <2> QED BY <2>1, InjectiveSeq DEF Placed
<1> QED BY <1>1, <1>2, <1>3 DEF Placed

\* ... the write thread takes the first locked one, ...
LEMMA TakeLocked ==
    ASSUME NEW idle, NEW lock \in Seq(Rings), NEW act, NEW gone,
           Placed(idle, lock, act, 0, gone), lock # <<>>
    PROVE  Placed(idle, Tail(lock), act, Head(lock), gone)
<1>1. /\ Head(lock) \in Rings
      /\ Elems(lock) = Elems(Tail(lock)) \cup {Head(lock)}
  BY ElemsSeq
<1>2. /\ \A i, j \in DOMAIN Tail(lock) : Tail(lock)[i] = Tail(lock)[j] => i = j
      /\ Head(lock) \notin Elems(Tail(lock))
  BY InjectiveSeq DEF Placed
<1>3. 0 \notin Rings
  BY DEF Rings
<1> QED BY <1>1, <1>2, <1>3 DEF Placed

\* ... and gives it back, ...
LEMMA GiveBack ==
    ASSUME NEW idle \in Seq(Rings), NEW lock, NEW act, NEW hand \in Rings, NEW gone,
           Placed(idle, lock, act, hand, gone)
    PROVE  Placed(Append(idle, hand), lock, act, 0, gone)
<1>1. Elems(Append(idle, hand)) = Elems(idle) \cup {hand}
  BY ElemsSeq
<1>2. hand # 0
  BY LogAssumption DEF Rings
<1>3. \A i, j \in DOMAIN Append(idle, hand) : Append(idle, hand)[i] = Append(idle, hand)[j] => i = j
  <2>1. hand \in Rings \ Elems(idle)
    BY <1>2 DEF Placed
  <2> QED BY <2>1, InjectiveSeq DEF Placed
<1> QED BY <1>1, <1>2, <1>3 DEF Placed

\* ... unless a fork takes it away.
LEMMA LoseHand ==
    ASSUME NEW idle, NEW lock, NEW act, NEW hand, NEW gone,
           Placed(idle, lock, act, hand, gone), hand # 0
    PROVE  Placed(idle, lock, act, 0, gone \cup {hand})
BY DEF Placed

\* The rings of a context that has just been initialized are idle.
LEMMA AllIdle == Placed([i \in Rings |-> i], <<>>, 0, 0, {})
<1>1. Elems([i \in Rings |-> i]) = Rings /\ Elems(<<>>) = {}
  BY DEF Elems
<1> QED BY <1>1 DEF Placed

-----------------------------------------------------------------------------
(* What users do to the write thread and to the context                    *)

LEMMA SignalPings ==
    ASSUME NEW f \in Table, NEW g, Pings(f, g)
    PROVE  Pings(f, Signal(g))
<1>1. g \in Table
  BY DEF Pings
<1>2. ASSUME NEW v \in Writers
      PROVE  /\ Signal(g)[v] \in ThreadData
             /\ Signal(g)[v].ring = g[v].ring /\ Signal(g)[v].msg = g[v].msg
             /\ Signal(g)[v].terminate = g[v].terminate /\ Signal(g)[v].sync = g[v].sync
             /\ \/ Signal(g)[v].pc = g[v].pc
                \/ g[v].pc = "wait" /\ Signal(g)[v].pc = "woken"
  <2>1. g[v] \in ThreadData
    BY <1>1 DEF Table
  <2>2. Signal(g)[v] = IF g[v].pc = "wait" THEN [g[v] EXCEPT !.pc = "woken"] ELSE g[v]
    BY DEF Signal
  <2> QED BY <2>1, <2>2 DEF ThreadData, WriterPc
<1>3. Signal(g) \in Table
  BY <1>2 DEF Table, Signal
<1> QED BY <1>2, <1>3 DEF Pings

LEMMA FlagPings ==
    ASSUME NEW f \in Table, NEW w \in Writers, NEW b \in BOOLEAN
    PROVE  /\ Pings(f, f)
           /\ Pings(f, [f EXCEPT ![w].sync = TRUE]) /\ Pings(f, [f EXCEPT ![w].rotate = b])
           /\ Pings(f, [f EXCEPT ![w].autoflush = b])
           /\ Pings(f, [f EXCEPT ![w].logwrt = b])
<1>1. f[w] \in ThreadData
  BY DEF Table
<1>2. ASSUME NEW x \in ThreadData, x.ring = f[w].ring, x.msg = f[w].msg,
             x.terminate = f[w].terminate, x.pc = f[w].pc, f[w].sync => x.sync
      PROVE  Pings(f, [f EXCEPT ![w] = x])
  BY <1>2 DEF Pings, Table
<1>3. Pings(f, f)
  BY DEF Pings
<1>4. Pings(f, [f EXCEPT ![w].sync = TRUE])
  <2> DEFINE x == [f[w] EXCEPT !.sync = TRUE]
  <2>1. /\ x \in ThreadData /\ x.ring = f[w].ring /\ x.msg = f[w].msg
        /\ x.terminate = f[w].terminate /\ x.pc = f[w].pc /\ x.sync
    BY <1>1 DEF ThreadData
  <2> HIDE DEF x
  <2>2. Pings(f, [f EXCEPT ![w] = x])
    BY <1>2, <2>1
  <2> QED BY <2>2 DEF x
<1>5. Pings(f, [f EXCEPT ![w].rotate = b])
  <2> DEFINE x == [f[w] EXCEPT !.rotate = b]
  <2>1. /\ x \in ThreadData /\ x.ring = f[w].ring /\ x.msg = f[w].msg
        /\ x.terminate = f[w].terminate /\ x.pc = f[w].pc /\ x.sync = f[w].sync
    BY <1>1 DEF ThreadData
  <2> HIDE DEF x
  <2>2. Pings(f, [f EXCEPT ![w] = x])
    BY <1>2, <2>1
  <2> QED BY <2>2 DEF x
<1>6. Pings(f, [f EXCEPT ![w].autoflush = b])
  <2> DEFINE x == [f[w] EXCEPT !.autoflush = b]
  <2>1. /\ x \in ThreadData /\ x.ring = f[w].ring /\ x.msg = f[w].msg
        /\ x.terminate = f[w].terminate /\ x.pc = f[w].pc /\ x.sync = f[w].sync
    BY <1>1 DEF ThreadData
  <2> HIDE DEF x
  <2>2. Pings(f, [f EXCEPT ![w] = x])
    BY <1>2, <2>1
  <2> QED BY <2>2 DEF x
<1>7. Pings(f, [f EXCEPT ![w].logwrt = b])
  <2> DEFINE x == [f[w] EXCEPT !.logwrt = b]
  <2>1. /\ x \in ThreadData /\ x.ring = f[w].ring /\ x.msg = f[w].msg
        /\ x.terminate = f[w].terminate /\ x.pc = f[w].pc /\ x.sync = f[w].sync
    BY <1>1 DEF ThreadData
  <2> HIDE DEF x
  <2>2. Pings(f, [f EXCEPT ![w] = x])
    BY <1>2, <2>1
  <2> QED BY <2>2 DEF x
<1> QED BY <1>3, <1>4, <1>5, <1>6, <1>7

\* _mtx_sync leaves the flag set.
LEMMA KickPings ==
    ASSUME NEW f \in Table, NEW c, c.wrthread \in Writers
    PROVE  Pings(f, Kick(f, c)) /\ Kick(f, c)[c.wrthread].sync
<1> DEFINE g == [f EXCEPT ![c.wrthread].sync = TRUE]
<1>1. Pings(f, g)
  BY FlagPings
<1>2. g \in Table /\ g[c.wrthread].sync
  <2>1. f[c.wrthread] \in ThreadData
    BY DEF Table
  <2>2. [f[c.wrthread] EXCEPT !.sync = TRUE].sync
    BY <2>1 DEF ThreadData
  <2> QED BY <1>1, <2>2 DEF Pings, Table
<1>3. Kick(f, c) = Signal(g)
  BY DEF Kick
<1> HIDE DEF g
<1>4. Pings(g, g)
  BY <1>2, FlagPings DEF Pings
<1>5. Pings(f, Signal(g)) /\ Pings(g, Signal(g))
  BY <1>1, <1>2, <1>4, SignalPings
<1>6. Signal(g)[c.wrthread].sync
  BY <1>2, <1>5 DEF Pings
<1> QED BY <1>3, <1>5, <1>6

\* The running write thread.
LEMMA WriterType ==
    ASSUME LogType
    PROVE  /\ Running => ctx.wrthread \in Writers
           /\ ~ Running => ctx.wrthread = 0
BY LogAssumption DEF LogType, Context, Running, Writers

LEMMA ActiveMoves ==
    ASSUME NEW c \in Context, InBounds(c), ActiveAvailable(c)
    PROVE  /\ GetActiveRing(c) \in Context /\ InBounds(GetActiveRing(c))
           /\ GetActiveRing(c).activering \in Rings /\ Moves(c, GetActiveRing(c))
<1>0. 0 \notin Rings /\ Rings \subseteq 0..NumRings /\ 0..NumRings \subseteq Rings \cup {0}
  BY LogAssumption DEF Rings
<1>1. CASE c.activering # 0
  BY <1>0, <1>1 DEF GetActiveRing, Context, Moves, Shifts
<1>2. CASE c.activering = 0
  <2>1. c.idleqp \in Seq(Rings) /\ c.idleqp # <<>>
    BY <1>2 DEF ActiveAvailable, Context
  <2>2. Head(c.idleqp) \in Rings /\ Tail(c.idleqp) \in Seq(Rings)
    BY <2>1, ElemsSeq
  <2> DEFINE d == [c EXCEPT !.activering = Head(c.idleqp), !.idleqp = Tail(c.idleqp)]
  <2>3. /\ d \in Context /\ d.activering = Head(c.idleqp) /\ d.idleqp = Tail(c.idleqp)
        /\ d.lockqp = c.lockqp /\ d.wrthread = c.wrthread /\ d.init_count = c.init_count
        /\ d.wrthru = c.wrthru /\ d.rings = c.rings
    BY <1>0, <2>2 DEF Context
  <2>4. GetActiveRing(c) = d
    BY <1>2 DEF GetActiveRing
  <2> HIDE DEF d
  <2>5. Moves(c, d)
    BY <1>2, <2>1, <2>3, TakeIdle DEF Moves, Shifts
  <2> QED BY <2>2, <2>3, <2>4, <2>5 DEF InBounds
<1> QED BY <1>1, <1>2

LEMMA FlushMoves ==
    ASSUME NEW c \in Context, InBounds(c), c.activering \in Rings
    PROVE  FlushRing(c) \in Context /\ InBounds(FlushRing(c)) /\ Moves(c, FlushRing(c))
<1> DEFINE d == FlushRing(c)
<1>1. c.lockqp \in Seq(Rings) /\ 0 \in 0..NumRings
  BY LogAssumption DEF Context
<1>2. Append(c.lockqp, c.activering) \in Seq(Rings)
  BY <1>1
<1>3. /\ d \in Context /\ d.activering = 0 /\ d.idleqp = c.idleqp
      /\ d.lockqp = Append(c.lockqp, c.activering)
      /\ d.wrthread = c.wrthread /\ d.init_count = c.init_count
      /\ d.wrthru = c.wrthru /\ d.rings = c.rings
  BY <1>1, <1>2 DEF Context, FlushRing
<1> HIDE DEF d
<1>4. Moves(c, d)
  BY <1>1, <1>3, LockActive DEF Moves, Shifts
<1> QED BY <1>3, <1>4 DEF InBounds, d

\* A ring gets new contents.
LEMMA RingMoves ==
    ASSUME NEW c \in Context, InBounds(c), NEW r \in Rings,
           NEW s \in Seq(Message), Len(s) <= RingCap
    PROVE  LET d == [c EXCEPT !.rings[r] = s]
           IN  /\ d \in Context /\ InBounds(d) /\ Moves(c, d)
               /\ d.activering = c.activering /\ d.rings[r] = s
<1> DEFINE d == [c EXCEPT !.rings[r] = s]
<1>1. /\ d \in Context /\ d.activering = c.activering /\ d.idleqp = c.idleqp
      /\ d.lockqp = c.lockqp /\ d.wrthread = c.wrthread /\ d.init_count = c.init_count
      /\ d.wrthru = c.wrthru /\ d.rings = [c.rings EXCEPT ![r] = s]
      /\ c.rings \in [Rings -> Seq(Message)]
  BY DEF Context
<1> HIDE DEF d
<1>2. InBounds(d) /\ d.rings[r] = s
  BY <1>1 DEF InBounds
<1>3. Moves(c, d)
  BY <1>1 DEF Moves, Shifts
<1> QED BY <1>1, <1>2, <1>3 DEF d

LEMMA PutType ==
    ASSUME NEW s \in Seq(Message), Len(s) <= RingCap, NEW m \in Message
    PROVE  PutMessage(s, m) \in Seq(Message) /\ Len(PutMessage(s, m)) <= RingCap
<1>1. RingCap \in Nat \ {0} /\ Len(s) \in Nat
  BY LogAssumption
<1>2. CASE Len(s) >= RingCap
  <2>1. s # <<>>
    BY <1>1, <1>2
  <2> QED BY <1>1, <1>2, <2>1 DEF PutMessage
<1>3. CASE ~ Len(s) >= RingCap
  BY <1>1, <1>3 DEF PutMessage
<1> QED BY <1>2, <1>3

LEMMA MovesTwice ==
    ASSUME NEW c, NEW d, NEW e, Moves(c, d), Moves(d, e)
    PROVE  Moves(c, e)
BY DEF Moves, Shifts

\* Such steps keep the invariant.
LEMMA MovesKeep ==
    ASSUME LogInv, LogType', Plain
    PROVE  LogInv'
<1>1. /\ ctx'.wrthread = ctx.wrthread /\ (ctx'.init_count = 0 <=> ctx.init_count = 0)
      /\ (Running <=> Running') /\ (Running => ctx.wrthread \in Writers)
  BY WriterType DEF Plain, Shifts, Running, LogInv
<1>2. \A v \in Writers :
         /\ td'[v].ring = td[v].ring /\ td'[v].msg = td[v].msg
         /\ td'[v].terminate = td[v].terminate
         /\ \/ td'[v].pc = td[v].pc
            \/ td[v].pc = "wait" /\ td'[v].pc = "woken"
  BY DEF Plain, Pings
<1>3. \A v \in Writers : Shape(v)'
  BY <1>2 DEF LogInv, ThreadInv, Shape
<1>4. ThreadInv'
  BY <1>1, <1>2, <1>3 DEF LogInv, ThreadInv
<1>5. RingsInv'
  BY <1>1, <1>2 DEF LogInv, RingsInv, Plain, Shifts
<1> QED BY <1>4, <1>5 DEF LogInv

-----------------------------------------------------------------------------
(* The steps of the users                                                  *)

\* A step that leaves the context and the write thread alone.
LEMMA QuietStep ==
    ASSUME LogInv, UNCHANGED <<ctx, td, lost>>, LogType'
    PROVE  LogInv' /\ Plain
<1>1. Moves(ctx, ctx')
  BY DEF Moves, Shifts
<1>2. Pings(td, td')
  BY DEF Pings, LogInv, LogType
<1> QED BY <1>1, <1>2, MovesKeep DEF Plain, Moves

LEMMA DeliverStep ==
    ASSUME LogInv, NEW t \in Threads, NEW c, Deliver(t, c), UNCHANGED <<global, enable>>
    PROVE  LogInv' /\ Plain /\ ctx'.init_count = ctx.init_count
<1> DEFINE m == Len(sent) + 1
           thru == c.arg = "thru" \/ (c.stage # "active" /\ td[ctx.wrthread].autoflush)
           a == GetActiveRing(ctx)
           put == [a EXCEPT !.rings[a.activering] = PutMessage(@, m)]
<1>0. LogType /\ ctx \in Context /\ InBounds(ctx) /\ td \in Table
  BY DEF LogInv, LogType
<1>1. /\ m \in Message /\ Append(sent, "thru") \in Seq(Sent) /\ Append(sent, "ring") \in Seq(Sent)
      /\ asleep \cup {t} \subseteq Threads
  <2>1. sent \in Seq(Sent) /\ asleep \subseteq Threads
    BY <1>0 DEF LogType
  <2>2. Append(sent, "thru") \in Seq(Sent) /\ Append(sent, "ring") \in Seq(Sent)
    BY <2>1 DEF Sent
  <2>3. Len(sent) + 1 \in Message
    BY <2>1 DEF Message
  <2> QED BY <2>1, <2>2, <2>3
<1>2. UNCHANGED <<held, taken, log, lost, nforks, dangling>>
  BY DEF Deliver
<1>3. Pings(td, td) /\ Pings(td, Signal(td))
  <2>1. Pings(td, td)
    BY <1>0 DEF Pings
  <2> QED BY <1>0, <2>1, SignalPings
<1>4. Moves(ctx, ctx)
  BY DEF Moves, Shifts
<1>5. CASE UNCHANGED <<ctx, td, sent>> /\ asleep' \in {asleep, asleep \cup {t}}
  <2>1. LogType'
    BY <1>0, <1>1, <1>2, <1>5 DEF LogType
  <2> QED BY <1>2, <1>5, <2>1, QuietStep
<1>6. CASE /\ thru /\ Len(ctx.wrthru) < ThruCap
           /\ ctx' = [ctx EXCEPT !.wrthru = Append(@, m)]
           /\ td' = Signal(td)
           /\ sent' = Append(sent, "thru") /\ asleep' = asleep
  <2> HIDE DEF m, thru
  <2>0. ctx.wrthru \in Seq(Message) /\ Append(ctx.wrthru, m) \in Seq(Message)
    BY <1>0, <1>1 DEF Context
  <2>1. /\ ctx' \in Context /\ ctx'.wrthru = Append(ctx.wrthru, m) /\ ctx'.rings = ctx.rings
        /\ ctx'.idleqp = ctx.idleqp /\ ctx'.lockqp = ctx.lockqp
        /\ ctx'.activering = ctx.activering /\ ctx'.wrthread = ctx.wrthread
        /\ ctx'.init_count = ctx.init_count
    BY <1>0, <1>1, <1>6, <2>0 DEF Context
  <2>2. Len(ctx'.wrthru) <= ThruCap
    BY <1>6, <2>0, <2>1, LogAssumption
  <2>3. InBounds(ctx') /\ Moves(ctx, ctx')
    BY <1>0, <2>1, <2>2 DEF InBounds, Moves, Shifts
  <2>4. td' \in Table /\ Pings(td, td')
    BY <1>3, <1>6 DEF Pings
  <2>5. LogType'
    BY <1>0, <1>1, <1>2, <1>6, <2>1, <2>3, <2>4 DEF LogType, InBounds
  <2> QED BY <1>2, <2>3, <2>4, <2>5, MovesKeep DEF Plain, Moves
<1>7. CASE /\ ~ thru /\ NumRings # 0 /\ ActiveAvailable(ctx)
           /\ ctx' = (IF c.arg = "flush" THEN FlushRing(put) ELSE put)
           /\ sent' = Append(sent, "ring")
           /\ td' = (IF c.arg = "flush" THEN Signal(td) ELSE td) /\ asleep' = asleep
  <2>1. a \in Context /\ InBounds(a) /\ a.activering \in Rings /\ Moves(ctx, a)
    BY <1>0, <1>7, ActiveMoves
  <2> HIDE DEF a, m
  <2>2. a.rings[a.activering] \in Seq(Message) /\ Len(a.rings[a.activering]) <= RingCap
    BY <2>1 DEF Context, InBounds
  <2>3. /\ PutMessage(a.rings[a.activering], m) \in Seq(Message)
        /\ Len(PutMessage(a.rings[a.activering], m)) <= RingCap
    BY <1>1, <2>2, PutType
  <2> DEFINE s == PutMessage(a.rings[a.activering], m)
  <2>4. s \in Seq(Message) /\ Len(s) <= RingCap /\ put = [a EXCEPT !.rings[a.activering] = s]
    BY <2>1, <2>3 DEF Context
  <2> HIDE DEF put, s
  <2>5. put \in Context /\ InBounds(put) /\ Moves(a, put) /\ put.activering = a.activering
    BY <2>1, <2>4, RingMoves
  <2> HIDE DEF put
  <2>6. FlushRing(put) \in Context /\ InBounds(FlushRing(put)) /\ Moves(put, FlushRing(put))
    BY <2>1, <2>5, FlushMoves
  <2>7. ctx' \in Context /\ InBounds(ctx') /\ Moves(ctx, ctx')
    BY <1>7, <2>1, <2>5, <2>6, MovesTwice
  <2>8. td' \in Table /\ Pings(td, td')
    BY <1>3, <1>7 DEF Pings
  <2>9. LogType'
    BY <1>0, <1>1, <1>2, <1>7, <2>7, <2>8 DEF LogType, InBounds
  <2> QED BY <1>2, <2>7, <2>8, <2>9, MovesKeep DEF Plain, Moves
<1> QED BY <1>5, <1>6, <1>7 DEF Deliver, Sleep

LEMMA UseActiveStep ==
    ASSUME LogInv, NEW t \in Threads, NEW c, UseActive(t, c), UNCHANGED <<global, enable>>
    PROVE  LogInv' /\ Plain /\ ctx'.init_count = ctx.init_count
<1> DEFINE a == GetActiveRing(ctx)
           flush == c.op = "flush" \/ (c.op = "autoflush" /\ c.arg = "flush")
           f == IF c.op = "autoflush" /\ Running
                THEN [td EXCEPT ![ctx.wrthread].autoflush = TRUE] ELSE td
<1>0. LogType /\ ctx \in Context /\ InBounds(ctx) /\ td \in Table
  BY DEF LogInv, LogType
<1>1. UNCHANGED <<held, sent, taken, log, lost, nforks, dangling>>
  BY DEF UseActive
<1>2. Pings(td, f) /\ Pings(td, Signal(f))
  <2>1. Pings(td, td)
    BY <1>0 DEF Pings
  <2>2. Pings(td, f)
    BY <1>0, <2>1, WriterType, FlagPings
  <2> QED BY <1>0, <2>2, SignalPings
<1> HIDE DEF f
<1>3. CASE NumRings # 0 /\ ~ ActiveAvailable(ctx)
  <2>1. UNCHANGED <<ctx, td>> /\ asleep' = asleep \cup {t}
    BY <1>3 DEF UseActive, Sleep
  <2>2. LogType'
    BY <1>0, <1>1, <2>1 DEF LogType
  <2> QED BY <1>1, <2>1, <2>2, QuietStep
<1>4. CASE ~ (NumRings # 0 /\ ~ ActiveAvailable(ctx))
  <2>1. /\ ctx' = (IF NumRings = 0 THEN ctx ELSE IF flush THEN FlushRing(a) ELSE ClearRing(a))
        /\ td' = (IF NumRings # 0 /\ flush THEN Signal(f) ELSE f)
        /\ asleep' = asleep
    BY <1>4 DEF UseActive, f
  <2>2. ctx' \in Context /\ InBounds(ctx') /\ Moves(ctx, ctx')
    <3>1. CASE NumRings = 0
      BY <1>0, <2>1, <3>1 DEF Moves, Shifts
    <3>2. CASE NumRings # 0
      <4>1. a \in Context /\ InBounds(a) /\ a.activering \in Rings /\ Moves(ctx, a)
        BY <1>0, <1>4, <3>2, ActiveMoves
      <4> HIDE DEF a
      <4>2. FlushRing(a) \in Context /\ InBounds(FlushRing(a)) /\ Moves(a, FlushRing(a))
        BY <4>1, FlushMoves
      <4>3. <<>> \in Seq(Message) /\ Len(<<>>) <= RingCap
        BY LogAssumption
      <4>4. ClearRing(a) \in Context /\ InBounds(ClearRing(a)) /\ Moves(a, ClearRing(a))
        BY <4>1, <4>3, RingMoves DEF ClearRing
      <4> QED BY <2>1, <3>2, <4>1, <4>2, <4>4, MovesTwice
    <3> QED BY <3>1, <3>2
  <2>3. td' \in Table /\ Pings(td, td')
    BY <1>2, <2>1 DEF Pings
  <2>4. LogType'
    BY <1>0, <1>1, <2>1, <2>2, <2>3 DEF LogType, InBounds
  <2> QED BY <1>1, <2>2, <2>3, <2>4, MovesKeep DEF Plain, Moves
<1> QED BY <1>3, <1>4

\* The freed context, and the one that has just been initialized.
LEMMA FreshContext ==
    ASSUME NEW w \in 0..MaxStarts, NEW s \in SUBSET (Debug \cup Trace \cup {"other"})
    PROVE  /\ Freed \in Context /\ InBounds(Freed)
           /\ Freed.init_count = 0 /\ Freed.wrthread = 0
           /\ LET d == [Freed EXCEPT !.stderr_mask = s]
              IN  d \in Context /\ InBounds(d) /\ d.init_count = 0 /\ d.wrthread = 0
           /\ LET d == [Freed EXCEPT !.init_count = 1, !.wrthread = w,
                                     !.idleqp = [i \in Rings |-> i]]
              IN  /\ d \in Context /\ InBounds(d) /\ d.init_count = 1 /\ d.wrthread = w
                  /\ d.idleqp = [i \in Rings |-> i] /\ d.lockqp = <<>> /\ d.activering = 0
<1> DEFINE q == [i \in Rings |-> i]
           e == [r \in Rings |-> <<>>]
<1>1. q \in Seq(Rings)
  <2>1. q \in [1..NumRings -> Rings] /\ NumRings \in Nat
    BY LogAssumption DEF Rings
  <2> HIDE DEF q
  <2> QED BY <2>1, SeqDef
<1>2. /\ 0 \in 0..NumRings /\ <<>> \in Seq(Message) /\ <<>> \in Seq(Rings) /\ 0 \in 0..MaxStarts
      /\ {} \subseteq Debug \cup Trace \cup {"other"}
  BY LogAssumption
<1>3. Len(<<>>) <= ThruCap /\ Len(<<>>) <= RingCap
  BY LogAssumption
<1>4. e \in [Rings -> Seq(Message)] /\ \A r \in Rings : e[r] = <<>>
  BY <1>2
<1>5. Freed = [init_count |-> 0, wrthread |-> 0, rings |-> e, idleqp |-> <<>>, lockqp |-> <<>>,
               activering |-> 0, wrthru |-> <<>>, stderr_mask |-> {}]
  BY DEF Freed
<1> HIDE DEF q, e
<1>6. LET d == [Freed EXCEPT !.stderr_mask = s]
      IN  d \in Context /\ InBounds(d) /\ d.init_count = 0 /\ d.wrthread = 0
  BY <1>2, <1>3, <1>4, <1>5 DEF Context, InBounds
<1>7. LET d == [Freed EXCEPT !.init_count = 1, !.wrthread = w, !.idleqp = q]
      IN  /\ d \in Context /\ InBounds(d) /\ d.init_count = 1 /\ d.wrthread = w
          /\ d.idleqp = q /\ d.lockqp = <<>> /\ d.activering = 0
  BY <1>1, <1>2, <1>3, <1>4, <1>5 DEF Context, InBounds
<1>8. Freed \in Context /\ InBounds(Freed) /\ Freed.init_count = 0 /\ Freed.wrthread = 0
  BY <1>2, <1>3, <1>4, <1>5 DEF Context, InBounds
<1> QED BY <1>6, <1>7, <1>8 DEF q

LEMMA TermStep ==
    ASSUME LogInv, NEW t \in Threads, NEW c, NEW force \in BOOLEAN, MtxTerm(t, c, force),
           UNCHANGED <<asleep, global>>
    PROVE  LogInv'
<1> DEFINE w == ctx.wrthread
<1>0. LogType /\ ctx \in Context /\ InBounds(ctx) /\ td \in Table /\ ThreadInv
  BY DEF LogInv, LogType
<1>1. UNCHANGED <<enable, sent, taken, log, nforks, dangling>> /\ held' \subseteq Threads
  BY <1>0 DEF MtxTerm, LogType
<1>2. CASE TermJoins(force)
  <2>1. /\ ctx' = [Freed EXCEPT !.stderr_mask = ctx.stderr_mask] /\ lost' = {}
        /\ td' = IF w # 0 THEN Signal([td EXCEPT ![w].terminate = TRUE]) ELSE td
    BY <1>2 DEF MtxTerm
  <2>2. /\ ctx' \in Context /\ InBounds(ctx') /\ ctx'.init_count = 0 /\ ctx'.wrthread = 0
    <3>1. ctx.stderr_mask \in SUBSET (Debug \cup Trace \cup {"other"})
      BY <1>0 DEF Context
    <3>2. 0 \in 0..MaxStarts
      BY LogAssumption
    <3> QED BY <2>1, <3>1, <3>2, FreshContext
  <2>3. /\ td' \in Table
        /\ \A v \in Writers : /\ Shape(v)'
                              /\ td'[v].terminate \/ td'[v].pc \in {"none", "done"}
    <3>1. CASE w = 0
      <4>1. td' = td
        BY <2>1, <3>1
      <4> QED BY <1>0, <3>1, <4>1 DEF ThreadInv, Shape, Writers
    <3>2. CASE w # 0
      <4>1. w \in Writers
        BY <1>0, <3>2, WriterType DEF Running
      <4> DEFINE f == [td EXCEPT ![w].terminate = TRUE]
      <4>2. /\ f \in Table
            /\ \A v \in Writers : /\ f[v].pc = td[v].pc /\ f[v].ring = td[v].ring
                                  /\ f[v].msg = td[v].msg
                                  /\ f[v].terminate = (IF v = w THEN TRUE ELSE td[v].terminate)
        <5>1. td[w] \in ThreadData
          BY <1>0, <4>1 DEF Table
        <5> DEFINE x == [td[w] EXCEPT !.terminate = TRUE]
        <5>2. /\ x \in ThreadData /\ x.pc = td[w].pc /\ x.ring = td[w].ring
              /\ x.msg = td[w].msg /\ x.terminate
          BY <5>1 DEF ThreadData
        <5> HIDE DEF x
        <5>3. f = [td EXCEPT ![w] = x]
          BY DEF x
        <5> HIDE DEF f
        <5> QED BY <1>0, <4>1, <5>2, <5>3 DEF Table
      <4>3. td' = Signal(f)
        BY <2>1, <3>2
      <4> HIDE DEF f
      <4>4. Pings(f, td')
        <5>1. Pings(f, f)
          BY <4>2 DEF Pings
        <5> QED BY <4>2, <4>3, <5>1, SignalPings
      <4>5. ASSUME NEW v \in Writers
            PROVE  /\ Shape(v)'
                   /\ td'[v].terminate \/ td'[v].pc \in {"none", "done"}
        <5>1. /\ td'[v].ring = td[v].ring /\ td'[v].msg = td[v].msg
              /\ td'[v].pc = td[v].pc \/ (td[v].pc = "wait" /\ td'[v].pc = "woken")
          <6>1. /\ td'[v].ring = f[v].ring /\ td'[v].msg = f[v].msg
                /\ td'[v].pc = f[v].pc \/ (f[v].pc = "wait" /\ td'[v].pc = "woken")
            BY <4>4 DEF Pings
          <6>2. f[v].ring = td[v].ring /\ f[v].msg = td[v].msg /\ f[v].pc = td[v].pc
            BY <4>2
          <6> QED BY <6>1, <6>2
        <5>2. td'[v].terminate = f[v].terminate
          BY <4>4 DEF Pings
        <5>3. IF v = w THEN td'[v].terminate ELSE td'[v].terminate = td[v].terminate
          BY <4>2, <5>2
        <5>4. Shape(v) /\ (v # w => td[v].terminate \/ td[v].pc \in {"none", "done"})
          BY <1>0 DEF ThreadInv
        <5>5. td'[v].terminate \/ td'[v].pc \in {"none", "done"}
          BY <5>1, <5>3, <5>4
        <5> QED BY <5>1, <5>4, <5>5 DEF Shape
      <4> QED BY <4>4, <4>5 DEF Pings
    <3> QED BY <3>1, <3>2
  <2>4. LogType'
    BY <1>0, <1>1, <2>1, <2>2, <2>3 DEF LogType, InBounds
  <2> QED BY <2>1, <2>2, <2>3, <2>4 DEF LogInv, ThreadInv, RingsInv, Running
<1>3. CASE ~ TermJoins(force)
  <2>1. ctx' = [ctx EXCEPT !.init_count = ctx.init_count - 1] /\ UNCHANGED <<td, lost>>
    BY <1>3 DEF MtxTerm
  <2>2. ctx.init_count \in Nat /\ ctx.init_count # 0 /\ ctx.init_count # 1
    BY <1>0, <1>3 DEF TermJoins, Context
  <2>3. ctx.init_count - 1 \in Nat /\ ctx.init_count - 1 # 0
    BY <2>2
  <2>4. /\ ctx' \in Context /\ ctx'.wrthru = ctx.wrthru /\ ctx'.rings = ctx.rings
        /\ ctx'.idleqp = ctx.idleqp /\ ctx'.lockqp = ctx.lockqp
        /\ ctx'.activering = ctx.activering /\ ctx'.wrthread = ctx.wrthread
        /\ ctx'.init_count # 0
    BY <1>0, <2>1, <2>3 DEF Context
  <2>5. InBounds(ctx') /\ Shifts(ctx, ctx')
    BY <1>0, <2>2, <2>4 DEF InBounds, Shifts
  <2>6. Pings(td, td')
    BY <1>0, <2>1 DEF Pings
  <2>7. LogType'
    BY <1>0, <1>1, <2>1, <2>4, <2>5 DEF LogType, InBounds
  <2> QED BY <2>1, <2>2, <2>4, <2>5, <2>6, <2>7, MovesKeep DEF Plain
<1> QED BY <1>2, <1>3

LEMMA InitStep ==
    ASSUME LogInv, NEW t \in Threads, NEW c, MtxInit(t, c), UNCHANGED <<global, enable>>
    PROVE  LogInv'
<1> DEFINE w == Cardinality(Started) + 1
           n == [Freed EXCEPT !.init_count = 1, !.wrthread = w, !.idleqp = [i \in Rings |-> i]]
<1>0. LogType /\ ctx \in Context /\ InBounds(ctx) /\ td \in Table /\ ThreadInv
  BY DEF LogInv, LogType
<1>1. /\ asleep' \subseteq Threads /\ global' \in Threads \cup {0} /\ sent' \in Seq(Sent)
      /\ enable' \in {"none", "default", "full"} /\ held' \subseteq Threads
      /\ dangling' \in BOOLEAN /\ lost' \subseteq Rings /\ lost' = lost
  BY <1>0 DEF MtxInit, Sleep, histVars, LogType
<1>2. CASE /\ ctx.init_count # 0 /\ ctx' = [ctx EXCEPT !.init_count = @ + 1]
           /\ td' = IF Running THEN Kick(td, ctx) ELSE td
  <2>1. ctx.init_count \in Nat
    BY <1>0 DEF Context
  <2>2. ctx.init_count + 1 \in Nat /\ ctx.init_count + 1 # 0
    BY <2>1
  <2>3. ctx' = [ctx EXCEPT !.init_count = ctx.init_count + 1]
    BY <1>2
  <2>4. /\ ctx' \in Context /\ ctx'.wrthru = ctx.wrthru /\ ctx'.rings = ctx.rings
        /\ ctx'.idleqp = ctx.idleqp /\ ctx'.lockqp = ctx.lockqp
        /\ ctx'.activering = ctx.activering /\ ctx'.wrthread = ctx.wrthread
        /\ ctx'.init_count # 0
    BY <1>0, <2>2, <2>3 DEF Context
  <2>5. InBounds(ctx') /\ Shifts(ctx, ctx')
    BY <1>0, <1>2, <2>4 DEF InBounds, Shifts
  <2>6. td' \in Table /\ Pings(td, td')
    <3>1. Pings(td, td)
      BY <1>0 DEF Pings
    <3>2. Pings(td, td')
      BY <1>0, <1>2, <3>1, WriterType, KickPings
    <3> QED BY <3>2 DEF Pings
  <2>7. LogType'
    BY <1>0, <1>1, <2>4, <2>5, <2>6 DEF LogType, InBounds
  <2> QED BY <1>1, <1>2, <2>4, <2>5, <2>6, <2>7, MovesKeep DEF Plain
<1>3. CASE /\ ctx.init_count = 0 /\ w \in Writers
           /\ ctx' = n /\ td' = Kick([td EXCEPT ![w] = NewWriter], n) /\ UNCHANGED histVars
  <2>0. ctx.wrthread = 0
    BY <1>0, <1>3, WriterType DEF ThreadInv
  <2>9. PICK x \in Writers : x = w
    BY <1>3
  <2>1. /\ ctx' \in Context /\ InBounds(ctx') /\ ctx'.init_count = 1 /\ ctx'.wrthread = x
        /\ ctx'.idleqp = [i \in Rings |-> i] /\ ctx'.lockqp = <<>> /\ ctx'.activering = 0
        /\ n.wrthread = x
    <3>1. n = [Freed EXCEPT !.init_count = 1, !.wrthread = x, !.idleqp = [i \in Rings |-> i]]
      BY <2>9
    <3>2. x \in 0..MaxStarts /\ {} \in SUBSET (Debug \cup Trace \cup {"other"})
      BY LogAssumption DEF Writers
    <3> HIDE DEF n
    <3> QED BY <1>3, <3>1, <3>2, FreshContext
  <2> DEFINE f == [td EXCEPT ![x] = NewWriter]
  <2>2. f \in Table /\ f[x] = NewWriter /\ \A v \in Writers \ {x} : f[v] = td[v]
    <3>1. NewWriter \in ThreadData
      BY LogAssumption DEF NewWriter, ThreadData, WriterPc
    <3> QED BY <1>0, <3>1 DEF Table
  <2>3. td' = Kick(f, n)
    BY <1>3, <2>9
  <2> HIDE DEF f, n, w
  <2>4. Pings(f, td')
    BY <2>1, <2>2, <2>3, KickPings
  <2>5. td'[x].pc = "open" /\ td'[x].ring = 0 /\ td'[x].msg = 0 /\ ~ td'[x].terminate
    BY <2>2, <2>4 DEF Pings, NewWriter
  <2>6. ASSUME NEW v \in Writers, v # x
        PROVE  Shape(v)' /\ (td'[v].terminate \/ td'[v].pc \in {"none", "done"})
    <3>1. /\ td'[v].ring = td[v].ring /\ td'[v].msg = td[v].msg
          /\ td'[v].terminate = td[v].terminate
          /\ td'[v].pc = td[v].pc \/ (td[v].pc = "wait" /\ td'[v].pc = "woken")
      BY <2>2, <2>4, <2>6 DEF Pings
    <3>2. v # 0
      BY DEF Writers
    <3>3. Shape(v) /\ (td[v].terminate \/ td[v].pc \in {"none", "done"})
      BY <1>0, <2>0, <3>2 DEF ThreadInv
    <3>4. td'[v].terminate \/ td'[v].pc \in {"none", "done"}
      BY <3>1, <3>3
    <3> QED BY <3>1, <3>3, <3>4 DEF Shape
  <2>7. LogType'
    BY <1>0, <1>1, <2>1, <2>4 DEF LogType, InBounds, Pings
  <2>8. Running' /\ x # 0
    BY <2>1 DEF Running, Writers
  <2>10. ThreadInv'
    <3>1. Shape(x)'
      BY <2>5 DEF Shape
    <3> QED BY <2>1, <2>5, <2>6, <2>8, <3>1 DEF ThreadInv
  <2>11. RingsInv'
    <3>1. lost' = {}
      BY <1>1, <2>0 DEF LogInv, RingsInv, Running
    <3> QED BY <2>1, <2>5, <2>8, <3>1, AllIdle DEF RingsInv
  <2> QED BY <2>7, <2>10, <2>11 DEF LogInv
<1>4. CASE ctx.init_count = 0 /\ UNCHANGED <<ctx, td, asleep, histVars>>
  <2>1. LogType'
    BY <1>0, <1>1, <1>4 DEF LogType, histVars
  <2> QED BY <1>1, <1>4, <2>1, QuietStep
<1> QED BY <1>2, <1>3, <1>4 DEF MtxInit

\* A step of a user that changes flags at most, and calls, conditions or locks.
LEMMA FlagStep ==
    ASSUME LogInv, UNCHANGED <<ctx, sent, lost>>, Pings(td, td'),
           asleep' \subseteq Threads, global' \in Threads \cup {0},
           enable' \in {"none", "default", "full"}, held' \subseteq Threads,
           dangling' \in BOOLEAN
    PROVE  LogInv'
<1>1. LogType'
  BY DEF LogInv, LogType, Pings, InBounds
<1>2. Moves(ctx, ctx')
  BY DEF Moves, Shifts
<1> QED BY <1>1, <1>2, MovesKeep DEF Plain, Moves

LEMMA DoneType ==
    LET x == [NewWriter EXCEPT !.pc = "done"]
    IN  x \in ThreadData /\ x.pc = "done" /\ x.ring = 0 /\ x.msg = 0
<1>1. NewWriter \in ThreadData /\ NewWriter.ring = 0 /\ NewWriter.msg = 0
  BY LogAssumption DEF NewWriter, ThreadData, WriterPc
<1>2. "done" \in WriterPc
  BY DEF WriterPc
<1> QED BY <1>1, <1>2 DEF ThreadData

LEMMA ForkStep ==
    ASSUME LogInv, NEW t \in Threads, ForkChild(t)
    PROVE  LogInv'
<1>0. LogType /\ ctx \in Context /\ InBounds(ctx) /\ td \in Table /\ ThreadInv
  BY DEF LogInv, LogType
<1>1. PICK w \in Writers : w = ctx.wrthread
  BY <1>0, WriterType DEF ForkChild
<1>2. UNCHANGED <<ctx, enable, sent, dangling>> /\ asleep' = {t} /\ global' = t
  BY DEF ForkChild
<1>3. /\ lost' = (IF td[w].ring # 0 THEN lost \cup {td[w].ring} ELSE lost)
      /\ held' = held \cap {t}
      /\ td' = [v \in Writers |->
                  IF v = w THEN [td[v] EXCEPT !.pc = "open", !.sync = TRUE,
                                   !.logfd = FALSE, !.ring = 0, !.msg = 0]
                  ELSE IF td[v].pc = "none" THEN td[v]
                  ELSE [NewWriter EXCEPT !.pc = "done"]]
  BY <1>1 DEF ForkChild
<1>4. ASSUME NEW v \in Writers
      PROVE  /\ td'[v] \in ThreadData
             /\ td'[v].ring = 0 /\ td'[v].msg = 0
             /\ v = w => /\ td'[v].pc = "open"
                         /\ td'[v].terminate = td[v].terminate
             /\ v # w => td'[v].pc \in {"none", "done"}
  <2>1. td[v] \in ThreadData /\ Shape(v)
    BY <1>0 DEF Table, ThreadInv
  <2>2. CASE v = w
    <3>1. td'[v] = [td[v] EXCEPT !.pc = "open", !.sync = TRUE, !.logfd = FALSE, !.ring = 0,
                                 !.msg = 0]
      BY <1>3, <2>2
    <3>2. 0 \in 0..NumRings
      BY LogAssumption
    <3>3. /\ td'[v] \in ThreadData
          /\ td'[v].pc = "open" /\ td'[v].ring = 0 /\ td'[v].msg = 0
          /\ td'[v].terminate = td[v].terminate
      <4>1. "open" \in WriterPc /\ TRUE \in BOOLEAN /\ FALSE \in BOOLEAN /\ 0 \in Nat
        BY DEF WriterPc
      <4> QED BY <2>1, <3>1, <3>2, <4>1 DEF ThreadData
    <3> QED BY <2>2, <3>3
  <2>3. CASE v # w /\ td[v].pc = "none"
    <3>1. td'[v] = td[v]
      BY <1>3, <2>3
    <3> QED BY <2>1, <2>3, <3>1 DEF Shape
  <2>4. CASE v # w /\ td[v].pc # "none"
    <3>1. td'[v] = [NewWriter EXCEPT !.pc = "done"]
      BY <1>3, <2>4
    <3> QED BY <2>4, <3>1, DoneType
  <2> QED BY <2>2, <2>3, <2>4
<1>5. td' \in Table
  <2>1. td' = [v \in Writers |-> td'[v]]
    BY <1>3
  <2> QED BY <1>4, <2>1 DEF Table
<1>6. lost' \subseteq Rings
  <2>1. td[w].ring \in 0..NumRings /\ lost \subseteq Rings
    BY <1>0 DEF LogType, Table, ThreadData
  <2>2. td[w].ring # 0 => td[w].ring \in Rings
    BY <2>1, LogAssumption DEF Rings
  <2> QED BY <1>3, <2>1, <2>2
<1>7. LogType'
  BY <1>0, <1>2, <1>3, <1>5, <1>6 DEF LogType, InBounds
<1>8. Running /\ Running' /\ ~ td[w].terminate /\ ctx'.wrthread = w
  BY <1>0, <1>1, <1>2 DEF ForkChild, Running, ThreadInv
<1>9. ThreadInv'
  <2>1. ~ td'[w].terminate
    BY <1>4, <1>8
  <2>2. \A v \in Writers : Shape(v)'
    BY <1>4 DEF Shape
  <2> QED BY <1>0, <1>2, <1>4, <1>8, <2>1, <2>2 DEF ThreadInv
<1>10. RingsInv'
  <2>1. Placed(ctx.idleqp, ctx.lockqp, ctx.activering, td[w].ring, lost)
    BY <1>1, <1>8 DEF LogInv, RingsInv
  <2>2. Placed(ctx.idleqp, ctx.lockqp, ctx.activering, 0, lost')
    BY <1>3, <2>1, LoseHand
  <2> QED BY <1>2, <1>4, <1>8, <2>2 DEF RingsInv
<1> QED BY <1>7, <1>9, <1>10 DEF LogInv

\* pmlog_logwrt_ctx and pmlog_autoflush_ctx switch a flag.
LEMMA SwitchPings ==
    ASSUME LogType, NEW op
    PROVE  Pings(td, IF ~Running THEN td
                     ELSE IF op = "logwrt" THEN [td EXCEPT ![ctx.wrthread].logwrt = ~@]
                     ELSE [td EXCEPT ![ctx.wrthread].autoflush = FALSE])
<1>0. td \in Table /\ Pings(td, td)
  BY DEF LogType, Pings
<1>1. ASSUME Running PROVE Pings(td, [td EXCEPT ![ctx.wrthread].logwrt = ~@])
  <2>1. ctx.wrthread \in Writers
    BY <1>1, WriterType
  <2>2. PICK b \in BOOLEAN : b = ~ td[ctx.wrthread].logwrt
    OBVIOUS
  <2>3. Pings(td, [td EXCEPT ![ctx.wrthread].logwrt = b])
    BY <1>0, <2>1, FlagPings
  <2>4. [td EXCEPT ![ctx.wrthread].logwrt = ~@] = [td EXCEPT ![ctx.wrthread].logwrt = b]
    BY <2>1, <2>2
  <2> QED BY <2>3, <2>4
<1>2. ASSUME Running PROVE Pings(td, [td EXCEPT ![ctx.wrthread].autoflush = FALSE])
  BY <1>0, <1>2, WriterType, FlagPings
<1> QED BY <1>0, <1>1, <1>2

LEMMA AfterSyncStep ==
    ASSUME LogInv, NEW t \in Threads, NEW c, AfterSync(t, c)
    PROVE  LogInv'
<1>0. LogType /\ ctx \in Context /\ InBounds(ctx) /\ td \in Table
  BY DEF LogInv, LogType
<1>1. Pings(td, td)
  BY <1>0 DEF Pings
<1>2. ASSUME NEW force \in BOOLEAN, MtxTerm(t, c, force), UNCHANGED <<asleep, global>>
      PROVE  LogInv'
  BY <1>2, TermStep
<1>3. CASE Deliver(t, c) /\ UNCHANGED <<global, enable>>
  BY <1>3, DeliverStep
<1>4. CASE UseActive(t, c) /\ UNCHANGED <<global, enable>>
  BY <1>4, UseActiveStep
<1>5. CASE held' = held \cup {t} /\ UNCHANGED <<ctx, td, asleep, global, enable, sent, lost, dangling>>
  BY <1>0, <1>1, <1>5, FlagStep DEF LogType
<1>6. CASE UNCHANGED <<ctx, asleep, global, enable, histVars>>
           /\ td' = IF ~Running THEN td
                    ELSE IF c.op = "logwrt" THEN [td EXCEPT ![ctx.wrthread].logwrt = ~@]
                    ELSE [td EXCEPT ![ctx.wrthread].autoflush = FALSE]
  <2>1. Pings(td, td')
    BY <1>0, <1>6, SwitchPings
  <2> QED BY <1>0, <1>6, <2>1, FlagStep DEF LogType, histVars
<1>7. CASE /\ ctx' = [ctx EXCEPT !.stderr_mask = LevelToMask(@, c.level.D, c.level.T)]
           /\ UNCHANGED <<td, asleep, global, enable, histVars>>
  <2>0. ctx' = [ctx EXCEPT !.stderr_mask = LevelToMask(ctx.stderr_mask, c.level.D, c.level.T)]
    BY <1>0, <1>7 DEF Context
  <2>1. LevelToMask(ctx.stderr_mask, c.level.D, c.level.T) \subseteq Debug \cup Trace \cup {"other"}
    <3>1. ctx.stderr_mask \subseteq Debug \cup Trace \cup {"other"}
      BY <1>0 DEF Context
    <3> QED BY <3>1 DEF LevelToMask, Debug, Trace
  <2>2. /\ ctx' \in Context /\ ctx'.wrthru = ctx.wrthru /\ ctx'.rings = ctx.rings
        /\ ctx'.idleqp = ctx.idleqp /\ ctx'.lockqp = ctx.lockqp
        /\ ctx'.activering = ctx.activering /\ ctx'.wrthread = ctx.wrthread
        /\ ctx'.init_count = ctx.init_count
    BY <1>0, <2>0, <2>1 DEF Context
  <2>3. InBounds(ctx') /\ Moves(ctx, ctx')
    BY <1>0, <2>2 DEF InBounds, Moves, Shifts
  <2>4. LogType'
    BY <1>0, <1>7, <2>2, <2>3 DEF LogType, InBounds, histVars
  <2> QED BY <1>1, <1>7, <2>3, <2>4, MovesKeep DEF histVars, Plain, Moves
<1>8. CASE UNCHANGED <<ctx, td, asleep, enable, histVars>> /\ global' \in {0, global}
  BY <1>0, <1>1, <1>8, FlagStep DEF LogType, histVars
<1>9. CASE ForkChild(t)
  BY <1>9, ForkStep
<1>10. FALSE \in BOOLEAN /\ (c.op # "term") \in BOOLEAN
  OBVIOUS
<1> QED BY <1>2, <1>3, <1>4, <1>5, <1>6, <1>7, <1>8, <1>9, <1>10 DEF AfterSync, ForkParent

LEMMA CallStep ==
    ASSUME LogInv, NEW t \in Threads, Call(t)
    PROVE  LogInv'
<1>0. LogType /\ ctx \in Context /\ InBounds(ctx) /\ td \in Table
  BY DEF LogInv, LogType
<1>1. Pings(td, td)
  BY <1>0 DEF Pings
<1>2. ASSUME Running PROVE Pings(td, Kick(td, ctx))
  BY <1>0, <1>2, WriterType, KickPings
<1>3. CASE CallSync(t)
  <2>1. /\ UNCHANGED <<ctx, histVars>> /\ asleep' \in {asleep, asleep \cup {t}}
        /\ global' \in {t, global} /\ enable' \in {"none", enable}
        /\ td' = IF Running THEN Kick(td, ctx) ELSE td
    BY <1>3 DEF CallSync, Sleep
  <2>2. Pings(td, td')
    BY <1>1, <1>2, <2>1
  <2> QED BY <1>0, <2>1, <2>2, FlagStep DEF LogType, histVars
<1>4. CASE CallLevel(t)
  <2>1. PICK c :
           IF Running THEN /\ td' = Kick(td, ctx) /\ Sleep(t, c, "sync")
                           /\ UNCHANGED <<ctx, global, enable, histVars>>
           ELSE AfterSync(t, c)
    BY <1>4 DEF CallLevel
  <2>2. CASE Running
    BY <1>0, <1>2, <2>1, <2>2, FlagStep DEF LogType, histVars, Sleep
  <2>3. CASE ~ Running
    BY <2>1, <2>3, AfterSyncStep
  <2> QED BY <2>2, <2>3
<1>5. CASE CallInit(t)
  BY <1>5, InitStep DEF CallInit
<1>6. CASE CallMessage(t)
  BY <1>6, InitStep, DeliverStep DEF CallMessage
<1>7. CASE CallRing(t)
  BY <1>7, UseActiveStep DEF CallRing
<1>8. CASE CallRotate(t)
  <2>1. /\ Running /\ td' = Signal([td EXCEPT ![ctx.wrthread].rotate = TRUE])
        /\ asleep' = asleep \cup {t} /\ UNCHANGED <<ctx, global, enable, histVars>>
    BY <1>8 DEF CallRotate, Sleep
  <2>2. Pings(td, td')
    BY <1>0, <2>1, WriterType, FlagPings, SignalPings
  <2> QED BY <1>0, <2>1, <2>2, FlagStep DEF LogType, histVars
<1>9. CASE CallEnable(t)
  BY <1>0, <1>1, <1>9, FlagStep DEF CallEnable, LogType, histVars
<1> QED BY <1>3, <1>4, <1>5, <1>6, <1>7, <1>8, <1>9 DEF Call

LEMMA ResumeStep ==
    ASSUME LogInv, NEW t \in Threads, Resume(t)
    PROVE  LogInv'
<1>0. LogType /\ ctx \in Context /\ InBounds(ctx) /\ td \in Table
  BY DEF LogInv, LogType
<1>1. Pings(td, td)
  BY <1>0 DEF Pings
<1>2. CASE ResumeSync(t)
  <2>1. CASE AfterSync(t, call[t])
    BY <2>1, AfterSyncStep
  <2>2. CASE asleep' = asleep \cup {t} /\ UNCHANGED <<ctx, td, call, global, enable, histVars>>
    BY <1>0, <1>1, <2>2, FlagStep DEF LogType, histVars
  <2> QED BY <1>2, <2>1, <2>2 DEF ResumeSync
<1>3. CASE ResumeRing(t)
  <2>1. CASE dangling' = TRUE /\ UNCHANGED <<ctx, td, asleep, global, enable, held, sent, lost>>
    BY <1>0, <1>1, <2>1, FlagStep DEF LogType
  <2>2. CASE Deliver(t, call[t]) /\ UNCHANGED <<global, enable>>
    BY <2>2, DeliverStep
  <2>3. CASE UseActive(t, call[t]) /\ UNCHANGED <<global, enable>>
    BY <2>3, UseActiveStep
  <2> QED BY <1>3, <2>1, <2>2, <2>3 DEF ResumeRing
<1>4. CASE ResumeRotate(t)
  <2>1. /\ UNCHANGED <<ctx, td, global, enable, held, sent, lost>>
        /\ asleep' \in {asleep, asleep \cup {t}} /\ dangling' \in BOOLEAN
    BY <1>0, <1>4 DEF ResumeRotate, LogType
  <2> QED BY <1>0, <1>1, <2>1, FlagStep DEF LogType
<1>5. CASE Join(t)
  BY <1>0, <1>1, <1>5, FlagStep DEF Join, LogType, histVars
<1> QED BY <1>2, <1>3, <1>4, <1>5 DEF Resume

-----------------------------------------------------------------------------
(* The steps of the write threads                                          *)

\* A write thread that goes on has not been told to terminate, if it is the
\* one of the context, and has been, if it is not.
LEMMA ToldToStop ==
    ASSUME LogInv, NEW w \in Writers, td[w].pc \notin {"none", "done"}
    PROVE  td[w].terminate <=> w # ctx.wrthread
<1>1. w # 0
  BY DEF Writers
<1>2. CASE w = ctx.wrthread
  BY <1>1, <1>2 DEF LogInv, ThreadInv, Running
<1>3. CASE w # ctx.wrthread
  BY <1>3 DEF LogInv, ThreadInv
<1> QED BY <1>2, <1>3

\* The data of the write thread w becomes x; the rings may move if it is the
\* one of the context.
LEMMA WriterMoves ==
    ASSUME LogInv, LogType', NEW w \in Writers, NEW x \in ThreadData,
           td' = [td EXCEPT ![w] = x], lost' = lost,
           ctx'.wrthread = ctx.wrthread, ctx'.init_count = ctx.init_count,
           x.ring # 0 => x.pc \in {"ring", "write"}, x.pc = "ring" => x.ring # 0,
           x.msg # 0 => x.pc = "write", x.pc = "write" => x.msg # 0,
           w = ctx.wrthread => /\ ~ x.terminate
                               /\ Placed(ctx'.idleqp, ctx'.lockqp, ctx'.activering, x.ring, lost),
           w # ctx.wrthread => /\ x.terminate \/ x.pc \in {"none", "done"}
                               /\ ctx' = ctx
    PROVE  LogInv'
<1>0. td \in Table /\ ThreadInv /\ RingsInv
  BY DEF LogInv, LogType
<1>1. td'[w] = x /\ \A v \in Writers \ {w} : td'[v] = td[v]
  BY <1>0 DEF Table
<1>2. Running <=> Running'
  BY DEF Running
<1>3. \A v \in Writers : Shape(v)'
  BY <1>0, <1>1 DEF ThreadInv, Shape
<1>4. ThreadInv'
  <2>1. Running' => ~ td'[ctx'.wrthread].terminate
    <3>1. CASE w = ctx.wrthread
      BY <1>1, <3>1
    <3>2. CASE w # ctx.wrthread
      <4>1. LogType /\ Running => ctx.wrthread \in Writers
        BY WriterType
      <4> QED BY <1>0, <1>1, <1>2, <3>2, <4>1 DEF ThreadInv, LogInv
    <3> QED BY <3>1, <3>2
  <2>2. ASSUME NEW v \in Writers, v # ctx'.wrthread
        PROVE  td'[v].terminate \/ td'[v].pc \in {"none", "done"}
    BY <1>0, <1>1, <2>2 DEF ThreadInv
  <2>3. ctx'.init_count = 0 <=> ~ Running'
    BY <1>0, <1>2 DEF ThreadInv
  <2> QED BY <1>3, <2>1, <2>2, <2>3 DEF ThreadInv
<1>5. RingsInv'
  <2>1. CASE w = ctx.wrthread
    <3>1. Running'
      BY <2>1 DEF Running, Writers
    <3> QED BY <1>1, <2>1, <3>1 DEF RingsInv
  <2>2. CASE w # ctx.wrthread
    <3>1. LogType /\ Running => ctx.wrthread \in Writers
      BY WriterType
    <3> QED BY <1>0, <1>1, <1>2, <2>2, <3>1 DEF RingsInv, LogInv
  <2> QED BY <2>1, <2>2
<1> QED BY <1>4, <1>5 DEF LogInv

\* Steps with the same ring, or none, in the hand of the write thread.
LEMMA WriterStays ==
    ASSUME LogInv, NEW w \in Writers, td[w].pc \notin {"none", "done"}, NEW x \in ThreadData,
           td' = [td EXCEPT ![w] = x], UNCHANGED <<ctx, lost, sent, held, dangling, global, enable>>,
           asleep' \subseteq asleep,
           x.ring = td[w].ring, x.ring # 0 => x.pc \in {"ring", "write"},
           x.pc = "ring" => x.ring # 0, x.msg # 0 => x.pc = "write",
           x.pc = "write" => x.msg # 0,
           x.terminate = td[w].terminate
    PROVE  LogInv'
<1>1. td' \in Table
  BY DEF LogInv, LogType, Table
<1>2. LogType'
  BY <1>1 DEF LogInv, LogType, InBounds
<1>3. x.terminate <=> w # ctx.wrthread
  BY ToldToStop
<1>4. w = ctx.wrthread => Placed(ctx.idleqp, ctx.lockqp, ctx.activering, x.ring, lost)
  BY DEF LogInv, RingsInv, Running, Writers
<1> QED BY <1>2, <1>3, <1>4, WriterMoves

LEMMA WriterStep ==
    ASSUME LogInv, NEW w \in Writers, Writer(w)
    PROVE  LogInv'
<1>0. /\ LogType /\ ctx \in Context /\ InBounds(ctx) /\ td \in Table
      /\ td[w] \in ThreadData /\ Shape(w)
  BY DEF LogInv, LogType, ThreadInv, Table
<1>1. td[w].pc \in {"open", "top", "woken", "rotate", "rings", "ring", "thru", "write"}
  BY DEF Writer, WOpen, WTop, WWake, WRotate, WRings, WRing, WThru, WWrite
<1>2. td[w].terminate <=> w # ctx.wrthread
  BY <1>1, ToldToStop
<1>3. w = ctx.wrthread => Placed(ctx.idleqp, ctx.lockqp, ctx.activering, td[w].ring, lost)
  BY DEF LogInv, RingsInv, Running, Writers
<1>4. td[w].pc \notin {"none", "done"} /\ 0 \in 0..NumRings
  BY <1>1, LogAssumption
<1>5. td[w].pc \in {"open", "top", "woken", "rotate", "rings", "thru"}
      => td[w].ring = 0 /\ td[w].msg = 0
  BY <1>0 DEF Shape
\* The steps that only change flags and the place of the write thread.
<1>6. ASSUME NEW x \in ThreadData, td' = [td EXCEPT ![w] = x], td[w].ring = 0, x.ring = 0,
             x.pc \notin {"ring", "write"}, x.msg = 0, x.terminate = td[w].terminate,
             UNCHANGED <<ctx, lost, sent, held, dangling, global, enable>>,
             asleep' \subseteq asleep
      PROVE  LogInv'
  BY <1>4, <1>6, WriterStays
<1>7. CASE WOpen(w)
  <2>0. PICK ok \in BOOLEAN :
           td' = [td EXCEPT ![w].pc = "top", ![w].logfd = ok, ![w].didwork = TRUE]
    BY <1>7, LogAssumption DEF WOpen
  <2>1. td' = [td EXCEPT ![w] = [td[w] EXCEPT !.pc = "top", !.logfd = ok, !.didwork = TRUE]]
    BY <1>0, <2>0 DEF Table
  <2> DEFINE x == [td[w] EXCEPT !.pc = "top", !.logfd = ok, !.didwork = TRUE]
  <2>2. /\ x \in ThreadData /\ x.ring = td[w].ring /\ x.msg = td[w].msg
        /\ x.terminate = td[w].terminate /\ x.pc = "top"
    BY <1>0 DEF ThreadData, WriterPc
  <2>3. td[w].ring = 0 /\ td[w].msg = 0
    BY <1>5, <1>7 DEF WOpen
  <2> HIDE DEF x
  <2> QED BY <1>6, <1>7, <2>1, <2>2, <2>3 DEF WOpen, histVars, userVars, x
<1>8. ASSUME StartPass(w), td[w].ring = 0, td[w].msg = 0,
             UNCHANGED <<ctx, lost, sent, held, dangling, global, enable>>, asleep' \subseteq asleep
      PROVE  LogInv'
  <2> DEFINE x == [td[w] EXCEPT !.didwork = FALSE,
                                !.pc = IF td[w].rotate THEN "rotate" ELSE "rings"]
  <2>1. td' = [td EXCEPT ![w] = x]
    BY <1>0, <1>8 DEF StartPass, Table
  <2>2. /\ x \in ThreadData /\ x.ring = td[w].ring /\ x.msg = td[w].msg
        /\ x.terminate = td[w].terminate
        /\ x.pc \in {"rotate", "rings"}
    BY <1>0 DEF ThreadData, WriterPc
  <2> HIDE DEF x
  <2> QED BY <1>6, <1>8, <2>1, <2>2
<1>9. CASE WTop(w)
  <2>1. /\ td[w].ring = 0 /\ td[w].msg = 0 /\ asleep' \subseteq asleep
        /\ UNCHANGED <<ctx, lost, sent, held, dangling, global, enable>>
    BY <1>5, <1>9 DEF WTop, Waiting, histVars
  <2>2. CASE StartPass(w)
    BY <1>8, <2>1, <2>2
  <2>3. CASE td[w].terminate /\ td' = [td EXCEPT ![w] = [NewWriter EXCEPT !.pc = "done"]]
    <3> DEFINE x == [NewWriter EXCEPT !.pc = "done"]
    <3>1. x \in ThreadData /\ x.pc = "done" /\ x.ring = 0 /\ x.msg = 0
      BY DoneType
    <3> HIDE DEF x
    <3>2. td' = [td EXCEPT ![w] = x] /\ td' \in Table
      BY <1>0, <2>3, <3>1 DEF x, Table
    <3>3. LogType'
      BY <1>0, <2>1, <3>2 DEF LogType, InBounds
    <3> QED BY <1>2, <2>1, <2>3, <3>1, <3>2, <3>3, WriterMoves
  <2>4. CASE td' = [td EXCEPT ![w].pc = "wait", ![w].sync = FALSE]
    <3> DEFINE x == [td[w] EXCEPT !.pc = "wait", !.sync = FALSE]
    <3>1. td' = [td EXCEPT ![w] = x]
      BY <1>0, <2>4 DEF Table
    <3>2. /\ x \in ThreadData /\ x.ring = td[w].ring /\ x.msg = td[w].msg
          /\ x.terminate = td[w].terminate /\ x.pc = "wait"
      BY <1>0 DEF ThreadData, WriterPc
    <3> HIDE DEF x
    <3> QED BY <1>6, <2>1, <3>1, <3>2
  <2> QED BY <1>9, <2>2, <2>3, <2>4 DEF WTop
<1>10. CASE WWake(w)
  <2>1. td[w].ring = 0 /\ td[w].msg = 0 /\ UNCHANGED <<ctx, lost, sent, held, dangling, global, enable, asleep>>
    BY <1>5, <1>10 DEF WWake, userVars, histVars
  <2> QED BY <1>8, <1>10, <2>1 DEF WWake
<1>11. CASE WRotate(w)
  <2>1. td[w].ring = 0 /\ td[w].msg = 0 /\ UNCHANGED <<ctx, lost, sent, held, dangling, global, enable, asleep>>
    BY <1>5, <1>11 DEF WRotate, userVars, histVars
  <2>2. td[w].logfd \in BOOLEAN
    BY <1>0 DEF ThreadData
  <2>3. PICK ok \in BOOLEAN :
           td' = [td EXCEPT ![w].pc = "rings", ![w].logfd = ok,
                            ![w].rotate = FALSE, ![w].didwork = TRUE]
    BY <1>11, <2>2 DEF WRotate
  <2> DEFINE x == [td[w] EXCEPT !.pc = "rings", !.logfd = ok, !.rotate = FALSE, !.didwork = TRUE]
  <2>4. /\ x \in ThreadData /\ x.ring = td[w].ring /\ x.msg = td[w].msg
        /\ x.terminate = td[w].terminate /\ x.pc = "rings"
    BY <1>0 DEF ThreadData, WriterPc
  <2>5. td' = [td EXCEPT ![w] = x]
    BY <1>0, <2>3 DEF Table
  <2> HIDE DEF x
  <2> QED BY <1>6, <2>1, <2>4, <2>5
<1>12. ASSUME NEW p \in {"thru", "top"}, Goto(w, p), td[w].ring = 0, td[w].msg = 0,
              UNCHANGED <<ctx, lost, sent, held, dangling, global, enable, asleep>>
       PROVE  LogInv'
  <2> DEFINE x == [td[w] EXCEPT !.pc = p]
  <2>1. td' = [td EXCEPT ![w] = x]
    BY <1>0, <1>12 DEF Goto, Table
  <2>2. /\ x \in ThreadData /\ x.ring = td[w].ring /\ x.msg = td[w].msg
        /\ x.terminate = td[w].terminate /\ x.pc = p
    BY <1>0 DEF ThreadData, WriterPc
  <2> HIDE DEF x
  <2> QED BY <1>6, <1>12, <2>1, <2>2
<1>13. CASE WRings(w)
  <2>1. /\ td[w].ring = 0 /\ td[w].msg = 0
        /\ UNCHANGED <<lost, sent, held, dangling, global, enable, asleep>>
    BY <1>5, <1>13 DEF WRings, userVars, histVars
  <2>2. CASE /\ ~ td[w].terminate /\ ctx.lockqp # <<>>
             /\ td' = [td EXCEPT ![w].ring = Head(ctx.lockqp), ![w].pc = "ring"]
             /\ ctx' = [ctx EXCEPT !.lockqp = Tail(@)]
    <3>1. ctx.lockqp \in Seq(Rings)
      BY <1>0 DEF Context
    <3>2. Head(ctx.lockqp) \in Rings /\ Tail(ctx.lockqp) \in Seq(Rings)
      BY <2>2, <3>1, ElemsSeq
    <3>3. Head(ctx.lockqp) \in 0..NumRings /\ Head(ctx.lockqp) # 0
      BY <3>2, LogAssumption DEF Rings
    <3> DEFINE x == [td[w] EXCEPT !.ring = Head(ctx.lockqp), !.pc = "ring"]
    <3>4. td' = [td EXCEPT ![w] = x]
      BY <1>0, <2>2 DEF Table
    <3>5. /\ x \in ThreadData /\ x.ring = Head(ctx.lockqp) /\ x.msg = td[w].msg
          /\ x.terminate = td[w].terminate /\ x.pc = "ring"
      BY <1>0, <3>3 DEF ThreadData, WriterPc
    <3> HIDE DEF x
    <3>6. /\ ctx' \in Context /\ ctx'.wrthru = ctx.wrthru /\ ctx'.rings = ctx.rings
          /\ ctx'.idleqp = ctx.idleqp /\ ctx'.lockqp = Tail(ctx.lockqp)
          /\ ctx'.activering = ctx.activering /\ ctx'.wrthread = ctx.wrthread
          /\ ctx'.init_count = ctx.init_count
      BY <1>0, <2>2, <3>2 DEF Context
    <3>7. Placed(ctx'.idleqp, ctx'.lockqp, ctx'.activering, x.ring, lost)
      BY <1>2, <1>3, <2>1, <2>2, <3>1, <3>5, <3>6, TakeLocked
    <3>8. LogType'
      <4>1. td' \in Table
        BY <1>0, <3>4, <3>5 DEF Table
      <4> QED BY <1>0, <2>1, <3>6, <4>1 DEF LogType, InBounds
    <3> QED BY <1>2, <2>1, <2>2, <3>3, <3>4, <3>5, <3>6, <3>7, <3>8, WriterMoves
  <2> QED BY <1>12, <1>13, <2>1, <2>2 DEF WRings
<1>14. CASE WRing(w)
  <2> DEFINE r == td[w].ring
  <2>1. /\ r # 0 /\ r \in Rings /\ UNCHANGED <<lost, sent, held, global, enable, asleep>>
    <3>1. r \in 0..NumRings /\ r # 0
      BY <1>0, <1>14 DEF WRing, Shape, ThreadData
    <3> QED BY <1>14, <3>1, LogAssumption DEF WRing, userVars, Rings
  <2>2. ctx.rings \in [Rings -> Seq(Message)]
    BY <1>0 DEF Context
  <2>3. CASE /\ ~ td[w].terminate /\ ctx.rings[r] # <<>>
             /\ td' = [td EXCEPT ![w].msg = Head(ctx.rings[r]), ![w].pc = "write"]
             /\ ctx' = [ctx EXCEPT !.rings[r] = Tail(@)] /\ UNCHANGED dangling
    <3>1. /\ ctx.rings[r] \in Seq(Message) /\ Len(ctx.rings[r]) <= RingCap /\ RingCap \in Nat
      BY <1>0, <2>1, <2>2, LogAssumption DEF InBounds
    <3>2. /\ Head(ctx.rings[r]) \in Message /\ Tail(ctx.rings[r]) \in Seq(Message)
          /\ Len(Tail(ctx.rings[r])) <= RingCap
      BY <2>3, <3>1
    <3>3. ctx' = [ctx EXCEPT !.rings[r] = Tail(ctx.rings[r])]
      BY <1>0, <2>1, <2>3 DEF Context
    <3>4. ctx' \in Context /\ InBounds(ctx') /\ Moves(ctx, ctx')
      BY <1>0, <2>1, <3>2, <3>3, RingMoves
    <3>5. ctx'.init_count = ctx.init_count /\ ctx'.wrthread = ctx.wrthread
      BY <1>0, <3>3 DEF Context
    <3> DEFINE x == [td[w] EXCEPT !.msg = Head(ctx.rings[r]), !.pc = "write"]
    <3>6. td' = [td EXCEPT ![w] = x]
      BY <1>0, <2>3 DEF Table
    <3>7. /\ x \in ThreadData /\ x.ring = td[w].ring /\ x.msg # 0
          /\ x.terminate = td[w].terminate /\ x.pc = "write"
      BY <1>0, <3>2 DEF ThreadData, WriterPc, Message
    <3> HIDE DEF x
    <3>8. Placed(ctx'.idleqp, ctx'.lockqp, ctx'.activering, x.ring, lost)
      BY <1>2, <1>3, <2>3, <3>4, <3>7 DEF Moves, Shifts
    <3>9. LogType'
      <4>1. td' \in Table
        BY <1>0, <3>6, <3>7 DEF Table
      <4> QED BY <1>0, <2>1, <2>3, <3>4, <4>1 DEF LogType, InBounds
    <3> QED BY <1>2, <2>1, <2>3, <3>5, <3>6, <3>7, <3>8, <3>9, WriterMoves
  <2> DEFINE x == [td[w] EXCEPT !.ring = 0, !.pc = "rings", !.didwork = TRUE]
  <2>4. /\ x \in ThreadData /\ x.ring = 0 /\ x.msg = 0
        /\ x.terminate = td[w].terminate /\ x.pc = "rings"
    <3>1. td[w].msg = 0
      BY <1>0, <1>14 DEF WRing, Shape
    <3> QED BY <1>0, <1>4, <3>1 DEF ThreadData, WriterPc
  <2>5. ASSUME td' = [td EXCEPT ![w].ring = 0, ![w].pc = "rings", ![w].didwork = TRUE]
        PROVE  td' = [td EXCEPT ![w] = x] /\ td' \in Table
    BY <1>0, <2>4, <2>5 DEF Table
  <2> HIDE DEF x
  <2>6. CASE /\ ~ td[w].terminate
             /\ td' = [td EXCEPT ![w].ring = 0, ![w].pc = "rings", ![w].didwork = TRUE]
             /\ ctx' = [ctx EXCEPT !.idleqp = Append(@, r)] /\ UNCHANGED dangling
    <3>1. ctx.idleqp \in Seq(Rings) /\ Append(ctx.idleqp, r) \in Seq(Rings)
      BY <1>0, <2>1 DEF Context
    <3>2. /\ ctx' \in Context /\ ctx'.wrthru = ctx.wrthru /\ ctx'.rings = ctx.rings
          /\ ctx'.idleqp = Append(ctx.idleqp, r) /\ ctx'.lockqp = ctx.lockqp
          /\ ctx'.activering = ctx.activering /\ ctx'.wrthread = ctx.wrthread
          /\ ctx'.init_count = ctx.init_count
      BY <1>0, <2>6, <3>1 DEF Context
    <3>3. Placed(ctx'.idleqp, ctx'.lockqp, ctx'.activering, x.ring, lost)
      BY <1>2, <1>3, <2>1, <2>4, <2>6, <3>1, <3>2, GiveBack
    <3>4. LogType'
      BY <1>0, <2>1, <2>5, <2>6, <3>2 DEF LogType, InBounds
    <3> QED BY <1>2, <2>1, <2>4, <2>5, <2>6, <3>2, <3>3, <3>4, WriterMoves
  <2>7. CASE /\ td[w].terminate
             /\ td' = [td EXCEPT ![w].ring = 0, ![w].pc = "rings", ![w].didwork = TRUE]
             /\ dangling' = TRUE /\ UNCHANGED ctx
    <3>1. LogType'
      BY <1>0, <2>1, <2>5, <2>7 DEF LogType, InBounds
    <3> QED BY <1>2, <2>1, <2>4, <2>5, <2>7, <3>1, WriterMoves
  <2> QED BY <1>14, <2>3, <2>6, <2>7 DEF WRing
<1>15. CASE WThru(w)
  <2>1. td[w].ring = 0 /\ td[w].msg = 0 /\ UNCHANGED <<lost, sent, held, dangling, global, enable>>
    BY <1>5, <1>15 DEF WThru, histVars
  <2>2. CASE /\ ~ td[w].terminate /\ ctx.wrthru # <<>>
             /\ td' = [td EXCEPT ![w].msg = Head(ctx.wrthru), ![w].pc = "write"]
             /\ ctx' = [ctx EXCEPT !.wrthru = Tail(@)]
             /\ asleep' = asleep \ Waiting({"thru"})
    <3>1. ctx.wrthru \in Seq(Message) /\ Len(ctx.wrthru) <= ThruCap /\ ThruCap \in Nat
      BY <1>0, LogAssumption DEF Context, InBounds
    <3>2. /\ Head(ctx.wrthru) \in Message /\ Tail(ctx.wrthru) \in Seq(Message)
          /\ Len(Tail(ctx.wrthru)) <= ThruCap
      BY <2>2, <3>1
    <3>3. /\ ctx' \in Context /\ ctx'.wrthru = Tail(ctx.wrthru) /\ ctx'.rings = ctx.rings
          /\ ctx'.idleqp = ctx.idleqp /\ ctx'.lockqp = ctx.lockqp
          /\ ctx'.activering = ctx.activering /\ ctx'.wrthread = ctx.wrthread
          /\ ctx'.init_count = ctx.init_count
      BY <1>0, <2>2, <3>2 DEF Context
    <3> DEFINE x == [td[w] EXCEPT !.msg = Head(ctx.wrthru), !.pc = "write"]
    <3>4. td' = [td EXCEPT ![w] = x]
      BY <1>0, <2>2 DEF Table
    <3>5. /\ x \in ThreadData /\ x.ring = td[w].ring /\ x.msg # 0
          /\ x.terminate = td[w].terminate /\ x.pc = "write"
      BY <1>0, <3>2 DEF ThreadData, WriterPc, Message
    <3> HIDE DEF x
    <3>6. LogType'
      <4>1. td' \in Table /\ asleep' \subseteq Threads
        BY <1>0, <2>2, <3>4, <3>5 DEF Table, LogType
      <4> QED BY <1>0, <2>1, <3>2, <3>3, <4>1 DEF LogType, InBounds
    <3> QED BY <1>2, <1>3, <2>1, <2>2, <3>3, <3>4, <3>5, <3>6, WriterMoves
  <2>3. CASE Goto(w, "top") /\ UNCHANGED <<ctx, asleep>>
    BY <1>12, <2>1, <2>3
  <2> QED BY <1>15, <2>2, <2>3 DEF WThru
<1>16. CASE WWrite(w)
  <2> DEFINE x == [td[w] EXCEPT !.msg = 0, !.pc = IF td[w].ring # 0 THEN "ring" ELSE "thru",
                                !.didwork = IF td[w].ring # 0 THEN @ ELSE TRUE]
  <2>1. td' = [td EXCEPT ![w] = x]
    BY <1>0, <1>16 DEF WWrite, Table
  <2>2. /\ x \in ThreadData /\ x.ring = td[w].ring /\ x.msg = 0
        /\ x.terminate = td[w].terminate
        /\ x.pc = IF td[w].ring # 0 THEN "ring" ELSE "thru"
    BY <1>0 DEF ThreadData, WriterPc
  <2> HIDE DEF x
  <2>3. UNCHANGED <<ctx, lost, sent, held, dangling, global, enable, asleep>>
    BY <1>16 DEF WWrite, userVars
  <2> QED BY <1>4, <2>1, <2>2, <2>3, WriterStays
<1> QED BY <1>7, <1>9, <1>10, <1>11, <1>13, <1>14, <1>15, <1>16 DEF Writer

-----------------------------------------------------------------------------
(* The places of the rings, counted                                        *)

Distinct(s) == \A i, j \in DOMAIN s : s[i] = s[j] => i = j

LEMMA ConcatDistinct ==
    ASSUME NEW S, NEW s \in Seq(S), NEW u \in Seq(S), Distinct(s), Distinct(u),
           Elems(s) \cap Elems(u) = {}
    PROVE  s \o u \in Seq(S) /\ Distinct(s \o u) /\ Elems(s \o u) = Elems(s) \cup Elems(u)
<1>1. /\ s \o u \in Seq(S) /\ DOMAIN (s \o u) = 1..(Len(s) + Len(u))
      /\ DOMAIN s = 1..Len(s) /\ DOMAIN u = 1..Len(u) /\ Len(s) \in Nat /\ Len(u) \in Nat
  OBVIOUS
<1>2. \A i \in DOMAIN (s \o u) :
         \/ i \in DOMAIN s /\ (s \o u)[i] = s[i]
         \/ i \notin DOMAIN s /\ i - Len(s) \in DOMAIN u /\ (s \o u)[i] = u[i - Len(s)]
  BY <1>1
<1>3. /\ \A i \in DOMAIN s : i \in DOMAIN (s \o u) /\ (s \o u)[i] = s[i]
      /\ \A i \in DOMAIN u : i + Len(s) \in DOMAIN (s \o u) /\ (s \o u)[i + Len(s)] = u[i]
  BY <1>1
<1>4. Elems(s \o u) \subseteq Elems(s) \cup Elems(u)
  BY <1>2 DEF Elems
<1>5. Elems(s) \subseteq Elems(s \o u) /\ Elems(u) \subseteq Elems(s \o u)
  BY <1>3 DEF Elems
<1>6. ASSUME NEW i \in DOMAIN (s \o u), NEW j \in DOMAIN (s \o u), (s \o u)[i] = (s \o u)[j]
      PROVE  i = j
  <2>1. CASE i \in DOMAIN s /\ j \in DOMAIN s
    BY <1>3, <1>6, <2>1 DEF Distinct
  <2>2. CASE i \notin DOMAIN s /\ j \notin DOMAIN s
    <3>1. i - Len(s) = j - Len(s)
      BY <1>2, <1>6, <2>2 DEF Distinct
    <3> QED BY <1>1, <3>1
  <2>3. CASE ~ (i \in DOMAIN s <=> j \in DOMAIN s)
    BY <1>2, <1>6, <2>3 DEF Elems
  <2> QED BY <2>1, <2>2, <2>3
<1> QED BY <1>1, <1>4, <1>5, <1>6 DEF Distinct

LEMMA DistinctCardinality ==
    ASSUME NEW S, NEW s \in Seq(S), Distinct(s)
    PROVE  Cardinality(Elems(s)) = Len(s)
<1>1. s \in [1..Len(s) -> Elems(s)] /\ Len(s) \in Nat /\ DOMAIN s = 1..Len(s)
  BY DEF Elems
<1>2. \A x \in Elems(s) : \E i \in 1..Len(s) : s[i] = x
  BY <1>1 DEF Elems
<1>3. \A i, j \in 1..Len(s) : s[i] = s[j] => i = j
  BY <1>1 DEF Distinct
<1>4. s \in Bijection(1..Len(s), Elems(s))
  BY <1>1, <1>2, <1>3 DEF Bijection, Injection, Surjection, IsInjective
<1>5. ExistsBijection(1..Len(s), Elems(s))
  BY <1>4 DEF ExistsBijection
<1> QED BY <1>1, <1>5, FS_CountingElements

Counted(idle, lock, act, hand, gone) ==
    LET seq == idle \o lock \o (IF act # 0 THEN <<act>> ELSE <<>>)
                            \o (IF hand # 0 THEN <<hand>> ELSE <<>>)
    IN  /\ Elems(seq) \cup gone = Rings /\ Elems(seq) \cap gone = {}
        /\ Cardinality(Elems(seq)) = Len(seq)

LEMMA PlacedCounts ==
    ASSUME NEW idle \in Seq(Rings), NEW lock \in Seq(Rings), NEW act \in 0..NumRings,
           NEW hand \in 0..NumRings, NEW gone \in SUBSET Rings,
           Placed(idle, lock, act, hand, gone)
    PROVE  Counted(idle, lock, act, hand, gone)
<1> DEFINE One(x) == IF x # 0 THEN <<x>> ELSE <<>>
           a == One(act)
           h == One(hand)
<1>1. ASSUME NEW x \in 0..NumRings
      PROVE  /\ One(x) \in Seq(Rings) /\ Distinct(One(x)) /\ Elems(One(x)) = {x} \ {0}
  <2>1. CASE x = 0
    BY <2>1 DEF Distinct, Elems
  <2>2. CASE x # 0
    <3>1. x \in Rings
      BY <2>2, LogAssumption DEF Rings
    <3> QED BY <2>2, <3>1 DEF Distinct, Elems
  <2> QED BY <2>1, <2>2
<1>2. /\ a \in Seq(Rings) /\ Distinct(a) /\ Elems(a) = {act} \ {0}
      /\ h \in Seq(Rings) /\ Distinct(h) /\ Elems(h) = {hand} \ {0}
  BY <1>1
<1> HIDE DEF a, h
<1>3. 0 \notin Rings
  BY DEF Rings
<1>4. Distinct(idle) /\ Distinct(lock) /\ Elems(idle) \subseteq Rings /\ Elems(lock) \subseteq Rings
  BY ElemsSeq DEF Placed, Distinct
<1> DEFINE p == idle \o lock
           q == p \o a
           seq == q \o h
<1>5. p \in Seq(Rings) /\ Distinct(p) /\ Elems(p) = Elems(idle) \cup Elems(lock)
  BY <1>4, ConcatDistinct DEF Placed
<1> HIDE DEF p
<1>6. q \in Seq(Rings) /\ Distinct(q) /\ Elems(q) = Elems(p) \cup Elems(a)
  <2>1. Elems(p) \cap Elems(a) = {}
    BY <1>2, <1>3, <1>5 DEF Placed
  <2> QED BY <1>2, <1>5, <2>1, ConcatDistinct
<1> HIDE DEF q
<1>7. seq \in Seq(Rings) /\ Distinct(seq) /\ Elems(seq) = Elems(q) \cup Elems(h)
  <2>1. Elems(q) \cap Elems(h) = {}
    BY <1>2, <1>3, <1>5, <1>6 DEF Placed
  <2> QED BY <1>2, <1>6, <2>1, ConcatDistinct
<1> HIDE DEF seq
<1>8. Cardinality(Elems(seq)) = Len(seq)
  BY <1>7, DistinctCardinality
<1>9. Elems(seq) \subseteq Rings
  BY <1>7, ElemsSeq
<1>10. Elems(seq) \cup gone = Rings
  BY <1>2, <1>3, <1>5, <1>6, <1>7, <1>9 DEF Placed
<1>11. Elems(seq) \cap gone = {}
  BY <1>2, <1>3, <1>5, <1>6, <1>7 DEF Placed
<1> QED BY <1>8, <1>10, <1>11 DEF Counted, seq, q, p, a, h

-----------------------------------------------------------------------------
(* The theorems                                                            *)

LEMMA LogInit == Init => LogInv
<1> SUFFICES ASSUME Init PROVE LogInv
  OBVIOUS
<1>1. ctx = Freed /\ Freed \in Context /\ InBounds(Freed) /\ ctx.init_count = 0 /\ ctx.wrthread = 0
  <2>1. 0 \in 0..MaxStarts /\ {} \in SUBSET (Debug \cup Trace \cup {"other"})
    BY LogAssumption
  <2> QED BY <2>1, FreshContext DEF Init
<1>2. NoWriter \in ThreadData /\ NoWriter.pc = "none" /\ NoWriter.ring = 0 /\ NoWriter.msg = 0
  <2>1. NewWriter \in ThreadData /\ NewWriter.ring = 0 /\ NewWriter.msg = 0
    BY LogAssumption DEF NewWriter, ThreadData, WriterPc
  <2>2. "none" \in WriterPc
    BY DEF WriterPc
  <2> QED BY <2>1, <2>2 DEF ThreadData, NoWriter
<1>3. td \in Table /\ \A w \in Writers : td[w] = NoWriter
  BY <1>2 DEF Init, Table
<1>4. LogType
  <2>1. sent \in Seq(Sent)
    BY DEF Init
  <2> QED BY <1>1, <1>3, <2>1 DEF Init, LogType
<1>5. ThreadInv /\ RingsInv
  BY <1>1, <1>2, <1>3 DEF Init, ThreadInv, RingsInv, Running, Shape
<1> QED BY <1>4, <1>5 DEF LogInv

LEMMA LogNext == LogInv /\ [Next]_vars => LogInv'
<1> SUFFICES ASSUME LogInv, [Next]_vars PROVE LogInv'
  OBVIOUS
<1>1. CASE Next
  BY <1>1, CallStep, ResumeStep, WriterStep DEF Next
<1>2. CASE UNCHANGED vars
  <2>1. LogType'
    BY <1>2 DEF vars, LogInv, LogType, InBounds
  <2> QED BY <1>2, <2>1, QuietStep DEF vars
<1> QED BY <1>1, <1>2

\* The context and its write threads have their types, and no ring ever holds
\* more than fits into it (_mtx_putmessage, pmlog_message_ctx).
THEOREM LogTypeCorrect == Spec => []TypeOK
<1>1. LogInv => TypeOK
  <2> SUFFICES ASSUME LogInv PROVE TypeOK
    OBVIOUS
  <2>1. \A s \in Seq(Message) : s \in Seq(Nat)
    BY DEF Message
  <2>2. Context \subseteq [init_count : Nat, wrthread : 0..MaxStarts,
              rings : [Rings -> Seq(Nat)], idleqp : Seq(Rings), lockqp : Seq(Rings),
              activering : 0..NumRings, wrthru : Seq(Nat),
              stderr_mask : SUBSET (Debug \cup Trace \cup {"other"})]
    BY <2>1 DEF Context
  <2> QED BY <2>2 DEF LogInv, LogType, TypeOK, InBounds
<1> QED BY LogInit, LogNext, <1>1, PTL DEF Spec

\* Whatever the threads call, in any number and in any order, balanced or not,
\* and also in the child of a fork: every ring of a running log is in exactly
\* one of the idle queue, the lock queue, the active place and the hand of the
\* write thread, or was in that hand at a fork.
THEOREM RingsAlwaysConserved == Spec => []RingsConserved
<1>1. LogInv => RingsConserved
  <2> SUFFICES ASSUME LogInv, Running PROVE RingsConserved
    BY DEF RingsConserved
  <2>1. /\ ctx.idleqp \in Seq(Rings) /\ ctx.lockqp \in Seq(Rings)
        /\ ctx.activering \in 0..NumRings /\ lost \in SUBSET Rings
    BY DEF LogInv, LogType, Context
  <2>2. td[ctx.wrthread].ring \in 0..NumRings
    <3>1. ctx.wrthread \in Writers
      BY WriterType DEF LogInv
    <3> QED BY <3>1 DEF LogInv, LogType, Table, ThreadData
  <2>3. Placed(ctx.idleqp, ctx.lockqp, ctx.activering, td[ctx.wrthread].ring, lost)
    BY DEF LogInv, RingsInv
  <2>4. Counted(ctx.idleqp, ctx.lockqp, ctx.activering, td[ctx.wrthread].ring, lost)
    BY <2>1, <2>2, <2>3, PlacedCounts
  <2> QED BY <2>4 DEF Counted, RingsConserved
<1> QED BY LogInit, LogNext, <1>1, PTL DEF Spec

-----------------------------------------------------------------------------
(* Users that log between their own init and their own term                *)

\* The functions that only a thread with a reference is in.
Inner == {"message", "flush", "clear", "autoflush", "rotate", "logwrt", "level", "sync",
          "fork", "child"}

CallOps  == Inner \cup {"none", "init", "term", "term_all", "disable"}
Stages   == {"none", "sync", "thru", "active", "rotate", "join"}
CallArgs == {"none", "thru", "flush", "ring", "clear", "off"}
CallRec  == [op : CallOps, stage : Stages, arg : CallArgs, join : 0..MaxStarts,
             owed : SUBSET Nat, level : [D : Int, T : Int]]

\* The call x waits in _mtx_sync, on behalf of the function op.
Waits(x, op) == x.op = op /\ x.stage = "sync"

Leaving(t)  == Waits(call[t], "term")
Stopping(t) == Waits(call[t], "term_all") \/ Waits(call[t], "disable")
Alone(t)    == held = {} /\ global = t /\ \A u \in Threads \ {t} : call[u] = NoCall

\* What the thread t may do with the call x while H have a reference.
Proper(t, x, H) ==
    /\ x.op \in Inner \/ Waits(x, "term") => t \in H
    /\ x.op = "message" => x.stage \in {"thru", "active"}
    /\ Waits(x, "init") => t \notin H
    /\ x.stage \in {"thru", "active", "rotate"} => x.op \in Inner

\* The threads that have a reference or are about to get one.
Users == held \cup {t \in Threads : Waits(call[t], "init")}

UserInv ==
    /\ call \in [Threads -> CallRec]
    /\ \A t \in Threads : Proper(t, call[t], held) /\ (Stopping(t) => Alone(t))
    /\ Cardinality(Users) <= ctx.init_count

LEMMA NoCallType == NoCall \in CallRec /\ NoCall.op = "none" /\ NoCall.stage = "none"
BY LogAssumption DEF NoCall, CallRec, CallOps, Stages, CallArgs, Inner

\* Counting users.
LEMMA CountUsers ==
    ASSUME NEW U \in SUBSET Threads, NEW n \in Nat, Cardinality(U) <= n, NEW t \in Threads
    PROVE  /\ \A V \in SUBSET U : Cardinality(V) <= n
           /\ \A V \in SUBSET (U \cup {t}) : Cardinality(V) <= n + 1
           /\ t \in U => /\ n # 0 /\ (n = 1 => U = {t})
                         /\ \A V \in SUBSET (U \ {t}) : Cardinality(V) <= n - 1
<1>1. IsFiniteSet(Threads) /\ IsFiniteSet(U) /\ Cardinality(U) \in Nat
  BY LogAssumption, FS_Subset, FS_CardinalityType
<1>2. ASSUME NEW W, IsFiniteSet(W), NEW V \in SUBSET W
      PROVE  Cardinality(V) <= Cardinality(W) /\ Cardinality(V) \in Nat /\ Cardinality(W) \in Nat
  BY <1>2, FS_Subset, FS_CardinalityType
<1>3. ASSUME NEW V \in SUBSET U PROVE Cardinality(V) <= n
  BY <1>1, <1>2
<1>4. ASSUME NEW V \in SUBSET (U \cup {t}) PROVE Cardinality(V) <= n + 1
  <2>1. /\ IsFiniteSet(U \cup {t})
        /\ Cardinality(U \cup {t}) = IF t \in U THEN Cardinality(U) ELSE Cardinality(U) + 1
    BY <1>1, FS_AddElement
  <2>2. Cardinality(V) <= Cardinality(U \cup {t}) /\ Cardinality(V) \in Nat
    BY <1>2, <2>1
  <2> QED BY <1>1, <2>1, <2>2
<1>5. ASSUME t \in U
      PROVE  /\ n # 0 /\ (n = 1 => U = {t})
             /\ \A V \in SUBSET (U \ {t}) : Cardinality(V) <= n - 1
  <2>1. /\ IsFiniteSet(U \ {t}) /\ Cardinality(U \ {t}) = Cardinality(U) - 1
        /\ Cardinality(U \ {t}) \in Nat
    BY <1>1, <1>5, FS_RemoveElement, FS_CardinalityType
  <2>2. n # 0
    BY <1>1, <2>1
  <2>3. ASSUME n = 1 PROVE U = {t}
    <3>1. Cardinality(U \ {t}) = 0
      BY <1>1, <2>1, <2>3
    <3>2. U \ {t} = {}
      BY <2>1, <3>1, FS_EmptySet
    <3> QED BY <1>5, <3>2
  <2>4. ASSUME NEW V \in SUBSET (U \ {t}) PROVE Cardinality(V) <= n - 1
    <3>1. Cardinality(V) <= Cardinality(U \ {t}) /\ Cardinality(V) \in Nat
      BY <1>2, <2>1
    <3> QED BY <1>1, <2>1, <3>1
  <2> QED BY <2>2, <2>3, <2>4
<1> QED BY <1>3, <1>4, <1>5

\* Who has a reference finds a running log.
LEMMA HeldRuns ==
    ASSUME LogInv, UserInv, NEW t \in Users
    PROVE  t \in Threads /\ Running /\ ctx.wrthread \in Writers /\ ctx.init_count \in Nat \ {0}
<1>1. Users \in SUBSET Threads /\ t \in Threads /\ ctx.init_count \in Nat
  BY DEF Users, LogInv, LogType, Context
<1>2. ctx.init_count # 0
  BY <1>1, CountUsers DEF UserInv
<1>3. Running
  BY <1>2 DEF LogInv, ThreadInv
<1> QED BY <1>1, <1>2, <1>3, WriterType DEF LogInv

\* Nobody acts while another thread stops the log.
LEMMA NobodyStops ==
    ASSUME UserInv, NEW t \in Threads, global = 0 \/ call[t] # NoCall,
           NEW u \in Threads, u # t
    PROVE  ~ Stopping(u)
BY LogAssumption DEF UserInv, Alone

\* The call of one thread changes.
LEMMA UserChange ==
    ASSUME LogInv, UserInv, NEW t \in Threads, global = 0 \/ call[t] # NoCall,
           NEW x \in CallRec, call' = [call EXCEPT ![t] = x],
           held' \in {held, held \cup {t}, held \ {t}},
           Proper(t, x, held'), ~ Waits(x, "term_all"), ~ Waits(x, "disable"),
           Cardinality(Users') <= ctx'.init_count
    PROVE  UserInv'
<1>1. /\ call' \in [Threads -> CallRec] /\ call'[t] = x
      /\ \A u \in Threads \ {t} : call'[u] = call[u]
  BY DEF UserInv
<1>2. ASSUME NEW u \in Threads \ {t}
      PROVE  Proper(u, call'[u], held') /\ ~ Stopping(u)'
  <2>1. Proper(u, call[u], held) /\ ~ Stopping(u)
    BY NobodyStops DEF UserInv
  <2>2. u \in held' <=> u \in held
    OBVIOUS
  <2> QED BY <1>1, <2>1, <2>2 DEF Proper, Stopping
<1>3. ~ Stopping(t)'
  BY <1>1 DEF Stopping
<1> QED BY <1>1, <1>2, <1>3 DEF UserInv

LEMMA UsersChange ==
    ASSUME LogInv, UserInv, NEW t \in Threads, NEW x \in CallRec, call' = [call EXCEPT ![t] = x],
           held' \in {held, held \cup {t}, held \ {t}}
    PROVE  /\ Users \in SUBSET Threads /\ Users' \in SUBSET (Users \cup {t})
           /\ Users \in SUBSET (Users' \cup {t})
           /\ t \in Users <=> t \in held \/ Waits(call[t], "init")
           /\ t \in Users' <=> t \in held' \/ Waits(x, "init")
<1>1. call'[t] = x /\ \A u \in Threads \ {t} : call'[u] = call[u]
  BY DEF UserInv
<1> QED BY <1>1 DEF Users, LogInv, LogType

-----------------------------------------------------------------------------
(* What is flushed and not yet written                                     *)

\* The messages of the locked rings, of the write-through ring and of the ring
\* in the hand of the write thread; the messages in the hands of the writers.
Stored(c, hand) == (UNION {Elems(c.rings[r]) : r \in Elems(c.lockqp)}) \cup Elems(c.wrthru)
                   \cup (IF hand # 0 THEN Elems(c.rings[hand]) ELSE {})
Carried(f) == {f[v].msg : v \in {u \in Writers : f[u].msg # 0}}
HandOf(c, f) == IF c.wrthread # 0 THEN f[c.wrthread].ring ELSE 0
Hand == HandOf(ctx, td)

LEMMA InFlightIs ==
    ASSUME NEW c, NEW f
    PROVE  InFlight(c, f) = Stored(c, HandOf(c, f)) \cup Carried(f)
<1> DEFINE h == HandOf(c, f)
           A == (UNION {Elems(c.rings[r]) : r \in Elems(c.lockqp)}) \cup Elems(c.wrthru)
           C == IF c.wrthread # 0 /\ f[c.wrthread].ring # 0
                THEN Elems(c.rings[f[c.wrthread].ring]) ELSE {}
           D == IF h # 0 THEN Elems(c.rings[h]) ELSE {}
<1>1. InFlight(c, f) = A \cup C \cup Carried(f)
  BY DEF InFlight, Carried
<1>2. Stored(c, h) = A \cup D
  BY DEF Stored
<1>3. C = D
  BY DEF HandOf
<1> HIDE DEF A, C, D
<1> QED BY <1>1, <1>2, <1>3

\* The write thread has nothing to do.
Idle == LET w == ctx.wrthread
        IN  td[w].ring = 0 /\ td[w].msg = 0 /\ ctx.lockqp = <<>> /\ ctx.wrthru = <<>>

\* Either the write thread is through with everything, or a sync waits for it,
\* or somebody is going to ask for one: that is why pmlog_term does not free
\* what the write thread has in its hands.
Drained == Idle \/ td[ctx.wrthread].sync \/ \E u \in held : ~ Leaving(u)

\* A pass without work has found nothing.
PassInv(c, x) == /\ x.pc = "thru" /\ ~ x.didwork => c.lockqp = <<>>
                 /\ x.pc = "top" /\ ~ x.didwork => c.lockqp = <<>> /\ c.wrthru = <<>>

DrainInv ==
    /\ \A v \in Writers : td[v].terminate => td[v].ring = 0 /\ td[v].msg = 0
    /\ Running => Drained /\ PassInv(ctx, td[ctx.wrthread])
    /\ ~ Running => ctx.lockqp = <<>> /\ ctx.wrthru = <<>>
    /\ ~ dangling

Accounted == taken \cup InFlight(ctx, td)
KeptInv ==
    /\ flushed \subseteq Accounted
    /\ \A t \in Threads : call[t].op = "sync" =>
          /\ call[t].owed \subseteq Accounted
          /\ td[ctx.wrthread].sync \/ call[t].owed \subseteq taken

BalancedInv == UserInv /\ DrainInv /\ KeptInv

LEMMA NothingInFlight ==
    ASSUME LogInv, DrainInv, Running => Idle
    PROVE  InFlight(ctx, td) = {}
<1>1. ASSUME NEW v \in Writers PROVE td[v].msg = 0
  <2>1. CASE v = ctx.wrthread
    BY <2>1 DEF Idle, Running, Writers
  <2>2. CASE v # ctx.wrthread
    BY <2>2 DEF LogInv, ThreadInv, Shape, DrainInv
  <2> QED BY <2>1, <2>2
<1>2. Carried(td) = {}
  BY <1>1 DEF Carried
<1>3. Hand = 0 /\ ctx.lockqp = <<>> /\ ctx.wrthru = <<>>
  BY DEF Hand, HandOf, Running, Idle, DrainInv
<1>4. Elems(<<>>) = {}
  BY DEF Elems
<1>5. Stored(ctx, Hand) = {}
  BY <1>3, <1>4 DEF Stored
<1> QED BY <1>2, <1>5, InFlightIs DEF Hand

LEMMA InFlightType ==
    ASSUME LogInv
    PROVE  InFlight(ctx, td) \in SUBSET Nat
<1>0. ctx \in Context /\ td \in Table /\ Message \subseteq Nat
  BY DEF LogInv, LogType, Message
<1>1. \A r \in Rings : Elems(ctx.rings[r]) \subseteq Nat
  BY <1>0, ElemsSeq DEF Context
<1>2. Elems(ctx.wrthru) \subseteq Nat /\ Elems(ctx.lockqp) \subseteq Rings
  BY <1>0, ElemsSeq DEF Context
<1>3. Hand # 0 => Hand \in Rings
  <2>1. CASE Running
    <3>1. td[ctx.wrthread].ring \in 0..NumRings
      BY <1>0, <2>1, WriterType DEF LogInv, Table, ThreadData
    <3> QED BY <2>1, <3>1, LogAssumption DEF Hand, HandOf, Running, Rings
  <2>2. CASE ~ Running
    BY <2>2 DEF Hand, HandOf, Running
  <2> QED BY <2>1, <2>2
<1>4. Carried(td) \subseteq Nat
  <2>1. \A v \in Writers : td[v].msg \in Nat
    BY <1>0 DEF Table, ThreadData
  <2> QED BY <2>1 DEF Carried
<1>5. Stored(ctx, Hand) \subseteq Nat
  <2> HIDE DEF Hand
  <2>1. UNION {Elems(ctx.rings[r]) : r \in Elems(ctx.lockqp)} \subseteq Nat
    BY <1>1, <1>2
  <2>2. (IF Hand # 0 THEN Elems(ctx.rings[Hand]) ELSE {}) \subseteq Nat
    BY <1>1, <1>3
  <2> QED BY <1>2, <2>1, <2>2 DEF Stored
<1> QED BY <1>4, <1>5, InFlightIs DEF Hand

\* What goes on with the context leaves the flushed messages alone, or adds some.
LEMMA ActiveStores ==
    ASSUME NEW c \in Context, ActiveAvailable(c), NEW hand
    PROVE  Stored(GetActiveRing(c), hand) = Stored(c, hand)
<1>1. /\ GetActiveRing(c).rings = c.rings /\ GetActiveRing(c).lockqp = c.lockqp
      /\ GetActiveRing(c).wrthru = c.wrthru
  BY DEF GetActiveRing, Context
<1> HIDE DEF GetActiveRing
<1> QED BY <1>1 DEF Stored

LEMMA PutStores ==
    ASSUME NEW c \in Context, NEW hand \in 0..NumRings, NEW gone, NEW s \in Seq(Message),
           c.activering \in Rings, Placed(c.idleqp, c.lockqp, c.activering, hand, gone)
    PROVE  Stored([c EXCEPT !.rings[c.activering] = s], hand) = Stored(c, hand)
<1> DEFINE d == [c EXCEPT !.rings[c.activering] = s]
<1>1. /\ d.rings = [c.rings EXCEPT ![c.activering] = s] /\ d.lockqp = c.lockqp
      /\ d.wrthru = c.wrthru /\ c.rings \in [Rings -> Seq(Message)] /\ c.lockqp \in Seq(Rings)
  BY DEF Context
<1>2. c.activering # 0 /\ c.activering # hand /\ c.activering \notin Elems(c.lockqp)
  BY DEF Placed, Rings
<1>3. Elems(c.lockqp) \subseteq Rings /\ (hand # 0 => hand \in Rings)
  BY <1>1, ElemsSeq, LogAssumption DEF Rings
<1> HIDE DEF d
<1>4. /\ \A r \in Elems(c.lockqp) : d.rings[r] = c.rings[r]
      /\ hand # 0 => d.rings[hand] = c.rings[hand]
  BY <1>1, <1>2, <1>3
<1>5. Stored(d, hand) = Stored(c, hand)
  BY <1>1, <1>4 DEF Stored
<1> QED BY <1>5 DEF d

LEMMA FlushStores ==
    ASSUME NEW c \in Context, c.activering \in Rings, NEW hand
    PROVE  /\ Stored(c, hand) \subseteq Stored(FlushRing(c), hand)
           /\ Elems(c.rings[c.activering]) \subseteq Stored(FlushRing(c), hand)
<1> DEFINE d == FlushRing(c)
<1>1. /\ d.rings = c.rings /\ d.lockqp = Append(c.lockqp, c.activering)
      /\ d.wrthru = c.wrthru /\ c.lockqp \in Seq(Rings)
  BY DEF FlushRing, Context
<1>2. Elems(d.lockqp) = Elems(c.lockqp) \cup {c.activering}
  BY <1>1, ElemsSeq
<1> HIDE DEF d
<1>3. Stored(c, hand) \subseteq Stored(d, hand) /\ Elems(c.rings[c.activering]) \subseteq Stored(d, hand)
  BY <1>1, <1>2 DEF Stored
<1> QED BY <1>3 DEF d

\* A step that drops no flushed message, and flushes none that it drops.
Saves == Accounted \subseteq Accounted' /\ flushed' \subseteq flushed \cup Accounted'

LEMMA PlainSaves ==
    ASSUME LogInv, Plain, taken' = taken, Stored(ctx, Hand) \subseteq Stored(ctx', Hand),
           flushed' \subseteq flushed \cup Stored(ctx', Hand)
    PROVE  Saves
<1>1. \A v \in Writers : td'[v].msg = td[v].msg /\ td'[v].ring = td[v].ring
  BY DEF Plain, Pings
<1>2. Carried(td') = Carried(td)
  BY <1>1 DEF Carried
<1>3. Hand' = Hand
  <2>1. ctx'.wrthread = ctx.wrthread /\ (Running => ctx.wrthread \in Writers)
    BY WriterType DEF LogInv, Plain, Shifts
  <2> QED BY <1>1, <2>1 DEF Hand, HandOf, Running
<1>4. /\ InFlight(ctx, td) = Stored(ctx, Hand) \cup Carried(td)
      /\ InFlight(ctx, td)' = Stored(ctx', Hand) \cup Carried(td)
  <2>1. InFlight(ctx, td)' = Stored(ctx', Hand') \cup Carried(td')
    BY InFlightIs DEF Hand
  <2> QED BY <1>2, <1>3, <2>1, InFlightIs DEF Hand
<1>5. Accounted \subseteq Accounted' /\ Stored(ctx', Hand) \subseteq Accounted'
  BY <1>4 DEF Accounted
<1> QED BY <1>5 DEF Saves

LEMMA HandType ==
    ASSUME LogInv, Running
    PROVE  /\ Hand \in 0..NumRings /\ Hand = td[ctx.wrthread].ring
           /\ Placed(ctx.idleqp, ctx.lockqp, ctx.activering, Hand, lost)
BY WriterType DEF LogInv, LogType, RingsInv, Table, ThreadData, Hand, HandOf, Running

LEMMA DeliverSaves ==
    ASSUME LogInv, Running, NEW t \in Threads, NEW c, Deliver(t, c), UNCHANGED <<global, enable>>
    PROVE  Saves
<1> DEFINE m == Len(sent) + 1
           a == GetActiveRing(ctx)
           put == [a EXCEPT !.rings[a.activering] = PutMessage(@, m)]
<1>0. LogType /\ ctx \in Context /\ InBounds(ctx) /\ m \in Message
  BY DEF LogInv, LogType, Message
<1>1. Plain /\ taken' = taken
  BY DeliverStep DEF Deliver
<1>2. CASE UNCHANGED <<ctx, flushed>>
  BY <1>1, <1>2, PlainSaves
<1>3. CASE ctx' = [ctx EXCEPT !.wrthru = Append(@, m)] /\ flushed' = flushed \cup {m}
  <2> HIDE DEF m
  <2>1. ctx.wrthru \in Seq(Message)
    BY <1>0 DEF Context
  <2>2. ctx'.wrthru = Append(ctx.wrthru, m) /\ ctx'.rings = ctx.rings /\ ctx'.lockqp = ctx.lockqp
    BY <1>0, <1>3 DEF Context
  <2>3. Elems(ctx'.wrthru) = Elems(ctx.wrthru) \cup {m}
    BY <1>0, <2>1, <2>2, ElemsSeq
  <2>4. Stored(ctx, Hand) \subseteq Stored(ctx', Hand) /\ m \in Stored(ctx', Hand)
    BY <2>2, <2>3 DEF Stored
  <2> QED BY <1>1, <1>3, <2>4, PlainSaves
<1>4. CASE /\ NumRings # 0 /\ ActiveAvailable(ctx)
           /\ ctx' = (IF c.arg = "flush" THEN FlushRing(put) ELSE put)
           /\ flushed' = IF c.arg = "flush" THEN flushed \cup Elems(put.rings[a.activering])
                         ELSE flushed
  <2>1. /\ a \in Context /\ InBounds(a) /\ a.activering \in Rings /\ Moves(ctx, a)
        /\ Stored(a, Hand) = Stored(ctx, Hand)
    BY <1>0, <1>4, ActiveMoves, ActiveStores
  <2>2. Placed(a.idleqp, a.lockqp, a.activering, Hand, lost) /\ Hand \in 0..NumRings
    BY <2>1, HandType DEF Moves, Shifts
  <2> HIDE DEF a, m
  <2>3. a.rings[a.activering] \in Seq(Message) /\ Len(a.rings[a.activering]) <= RingCap
    BY <2>1 DEF Context, InBounds
  <2> DEFINE s == PutMessage(a.rings[a.activering], m)
  <2>4. s \in Seq(Message) /\ Len(s) <= RingCap
    BY <1>0, <2>3, PutType
  <2>5. put = [a EXCEPT !.rings[a.activering] = s]
    BY <2>1 DEF Context
  <2> HIDE DEF s, put
  <2>6. put \in Context /\ put.activering = a.activering
    BY <2>1, <2>4, <2>5, RingMoves
  <2>7. Stored(put, Hand) = Stored(a, Hand)
    BY <2>1, <2>2, <2>4, <2>5, PutStores
  <2>8. /\ Stored(put, Hand) \subseteq Stored(FlushRing(put), Hand)
        /\ Elems(put.rings[a.activering]) \subseteq Stored(FlushRing(put), Hand)
    BY <2>1, <2>6, FlushStores
  <2>9. CASE c.arg = "flush"
    <3>1. ctx' = FlushRing(put) /\ flushed' = flushed \cup Elems(put.rings[a.activering])
      BY <1>4, <2>9
    <3> QED BY <1>1, <2>1, <2>7, <2>8, <3>1, PlainSaves
  <2>10. CASE c.arg # "flush"
    <3>1. ctx' = put /\ flushed' = flushed
      BY <1>4, <2>10
    <3> QED BY <1>1, <2>1, <2>7, <3>1, PlainSaves
  <2> QED BY <2>9, <2>10
<1> QED BY <1>2, <1>3, <1>4 DEF Deliver

LEMMA UseActiveSaves ==
    ASSUME LogInv, Running, NEW t \in Threads, NEW c, UseActive(t, c), UNCHANGED <<global, enable>>
    PROVE  Saves
<1> DEFINE a == GetActiveRing(ctx)
           flush == c.op = "flush" \/ (c.op = "autoflush" /\ c.arg = "flush")
<1>0. LogType /\ ctx \in Context /\ InBounds(ctx)
  BY DEF LogInv, LogType
<1>1. Plain /\ taken' = taken
  BY UseActiveStep DEF UseActive
<1>2. CASE UNCHANGED <<ctx, flushed>>
  BY <1>1, <1>2, PlainSaves
<1>3. CASE /\ NumRings # 0 /\ ActiveAvailable(ctx)
           /\ ctx' = (IF flush THEN FlushRing(a) ELSE ClearRing(a))
           /\ flushed' = IF flush THEN flushed \cup Elems(a.rings[a.activering]) ELSE flushed
  <2>1. /\ a \in Context /\ InBounds(a) /\ a.activering \in Rings /\ Moves(ctx, a)
        /\ Stored(a, Hand) = Stored(ctx, Hand)
    BY <1>0, <1>3, ActiveMoves, ActiveStores
  <2>2. Placed(a.idleqp, a.lockqp, a.activering, Hand, lost) /\ Hand \in 0..NumRings
    BY <2>1, HandType DEF Moves, Shifts
  <2> HIDE DEF a
  <2>3. CASE flush
    <3>1. ctx' = FlushRing(a) /\ flushed' = flushed \cup Elems(a.rings[a.activering])
      BY <1>3, <2>3
    <3>2. /\ Stored(a, Hand) \subseteq Stored(FlushRing(a), Hand)
          /\ Elems(a.rings[a.activering]) \subseteq Stored(FlushRing(a), Hand)
      BY <2>1, FlushStores
    <3> QED BY <1>1, <2>1, <3>1, <3>2, PlainSaves
  <2>4. CASE ~ flush
    <3>1. ctx' = ClearRing(a) /\ flushed' = flushed
      BY <1>3, <2>4
    <3>2. Stored(ClearRing(a), Hand) = Stored(a, Hand)
      <4>1. <<>> \in Seq(Message)
        OBVIOUS
      <4> QED BY <2>1, <2>2, <4>1, PutStores DEF ClearRing
    <3> QED BY <1>1, <2>1, <3>1, <3>2, PlainSaves
  <2> QED BY <2>3, <2>4
<1>4. CASE NumRings = 0 /\ UNCHANGED <<ctx, flushed>>
  BY <1>2, <1>4
<1> QED BY <1>2, <1>3, <1>4 DEF UseActive

-----------------------------------------------------------------------------
(* The steps of the users, once more                                       *)

LEMMA NothingChanges ==
    ASSUME BalancedInv, UNCHANGED <<ctx, td, call, held, global, flushed, taken, dangling>>
    PROVE  BalancedInv'
<1>1. UserInv'
  BY DEF BalancedInv, UserInv, Users, Stopping, Alone
<1>2. DrainInv'
  BY DEF BalancedInv, DrainInv, Running, Drained, Idle, Leaving
<1>3. KeptInv'
  BY DEF BalancedInv, KeptInv, Accounted
<1> QED BY <1>1, <1>2, <1>3 DEF BalancedInv

LEMMA PlainDrains ==
    ASSUME LogInv, DrainInv, Plain, MutexFree \/ UNCHANGED <<ctx, td>>, dangling' = dangling,
           ~ Running => ctx'.lockqp = ctx.lockqp /\ ctx'.wrthru = ctx.wrthru,
           Running => Drained'
    PROVE  DrainInv'
<1>1. /\ ctx'.wrthread = ctx.wrthread /\ (Running' <=> Running)
      /\ Running => ctx.wrthread \in Writers
  BY WriterType DEF LogInv, Plain, Shifts, Running
<1>2. ASSUME NEW v \in Writers
      PROVE  /\ td'[v].ring = td[v].ring /\ td'[v].msg = td[v].msg
             /\ td'[v].terminate = td[v].terminate
             /\ td'[v].pc = td[v].pc \/ td'[v].pc = "woken"
  BY DEF Plain, Pings
<1>3. ASSUME Running PROVE PassInv(ctx', td'[ctx'.wrthread])
  <2>1. CASE MutexFree
    <3>1. td'[ctx'.wrthread].pc \notin {"thru", "top"}
      BY <1>1, <1>2, <1>3, <2>1 DEF MutexFree, HoldsMutex
    <3> QED BY <3>1 DEF PassInv
  <2>2. CASE UNCHANGED <<ctx, td>>
    BY <1>3, <2>2 DEF DrainInv
  <2> QED BY <2>1, <2>2
<1> QED BY <1>1, <1>2, <1>3 DEF DrainInv

LEMMA KeptKeeps ==
    ASSUME KeptInv, Saves, taken \subseteq taken',
           \A u \in Threads : call'[u].op = "sync" =>
              \/ /\ call[u].op = "sync" /\ call'[u].owed = call[u].owed
                 /\ td[ctx.wrthread].sync => \/ td'[ctx'.wrthread].sync
                                             \/ Accounted' \subseteq taken'
              \/ call'[u].owed \subseteq Accounted' /\ td'[ctx'.wrthread].sync
    PROVE  KeptInv'
<1>1. flushed' \subseteq Accounted'
  BY DEF KeptInv, Saves
<1>2. ASSUME NEW u \in Threads, call'[u].op = "sync"
      PROVE  /\ call'[u].owed \subseteq Accounted'
             /\ td'[ctx'.wrthread].sync \/ call'[u].owed \subseteq taken'
  <2>1. CASE call'[u].owed \subseteq Accounted' /\ td'[ctx'.wrthread].sync
    BY <2>1
  <2>2. CASE /\ call[u].op = "sync" /\ call'[u].owed = call[u].owed
             /\ td[ctx.wrthread].sync => td'[ctx'.wrthread].sync \/ Accounted' \subseteq taken'
    <3>1. /\ call[u].owed \subseteq Accounted
          /\ td[ctx.wrthread].sync \/ call[u].owed \subseteq taken
      BY <2>2 DEF KeptInv
    <3>2. call'[u].owed \subseteq Accounted'
      BY <2>2, <3>1 DEF Saves
    <3> QED BY <2>2, <3>1, <3>2
  <2> QED BY <1>2, <2>1, <2>2
<1> QED BY <1>1, <1>2 DEF KeptInv

\* The thread t goes on with the call x, and leaves the write thread running
\* as it was.
LEMMA PlainStep ==
    ASSUME LogInv, BalancedInv, Plain, MutexFree \/ UNCHANGED <<ctx, td>>, Saves,
           UNCHANGED <<taken, dangling>>, NEW t \in Threads, NEW x \in CallRec,
           call' = [call EXCEPT ![t] = x], UserInv',
           x.op = "sync" => \/ call[t].op = "sync" /\ x.owed = call[t].owed
                            \/ x.owed \subseteq Accounted /\ td'[ctx'.wrthread].sync,
           ~ Running => ctx'.lockqp = ctx.lockqp /\ ctx'.wrthru = ctx.wrthru,
           Running => Drained'
    PROVE  BalancedInv'
<1>1. DrainInv'
  BY PlainDrains DEF BalancedInv
<1>2. ASSUME NEW u \in Threads, call[u].op = "sync", td[ctx.wrthread].sync
      PROVE  td'[ctx'.wrthread].sync
  <2>1. u \in Users
    BY <1>2 DEF BalancedInv, UserInv, Proper, Users, Inner
  <2>2. ctx.wrthread \in Writers
    BY <2>1, HeldRuns DEF BalancedInv
  <2> QED BY <1>2, <2>2 DEF Plain, Pings, Shifts
<1>3. call'[t] = x /\ \A u \in Threads \ {t} : call'[u] = call[u]
  BY DEF BalancedInv, UserInv
<1>4. ASSUME NEW u \in Threads, call'[u].op = "sync"
      PROVE  \/ /\ call[u].op = "sync" /\ call'[u].owed = call[u].owed
                /\ td[ctx.wrthread].sync => td'[ctx'.wrthread].sync
             \/ call'[u].owed \subseteq Accounted' /\ td'[ctx'.wrthread].sync
  <2>1. CASE u = t
    <3>1. Accounted \subseteq Accounted'
      BY DEF Saves
    <3> QED BY <1>2, <1>3, <1>4, <2>1, <3>1
  <2>2. CASE u # t
    BY <1>2, <1>3, <1>4, <2>2
  <2> QED BY <2>1, <2>2
<1>5. KeptInv'
  BY <1>4, KeptKeeps DEF BalancedInv
<1> QED BY <1>1, <1>5 DEF BalancedInv

\* A thread with a reference enters, goes on with or leaves a function.
LEMMA LogsStep ==
    ASSUME LogInv, BalancedInv, Plain, MutexFree, Saves, UNCHANGED <<taken, dangling, held>>,
           ctx'.init_count = ctx.init_count, NEW t \in Threads, t \in held,
           global = 0 \/ call[t] # NoCall, NEW x \in CallRec, call' = [call EXCEPT ![t] = x],
           x.op \in Inner \cup {"none"}, x.op = "none" => x.stage = "none",
           x.op = "message" => x.stage \in {"thru", "active"},
           x.op = "sync" => \/ call[t].op = "sync" /\ x.owed = call[t].owed
                            \/ x.owed \subseteq Accounted /\ td'[ctx'.wrthread].sync
    PROVE  BalancedInv'
<1>1. UserInv /\ Running /\ ctx.init_count \in Nat
  BY HeldRuns DEF BalancedInv, Users
<1>2. /\ ~ Waits(x, "term_all") /\ ~ Waits(x, "disable") /\ ~ Waits(x, "term") /\ ~ Waits(x, "init")
      /\ Proper(t, x, held')
  BY DEF Waits, Inner, Proper
<1>3. Cardinality(Users') <= ctx'.init_count
  <2>1. Users \in SUBSET Threads /\ Users' \in SUBSET (Users \cup {t})
    BY <1>1, UsersChange
  <2>2. Users' \in SUBSET Users
    BY <2>1 DEF Users
  <2> QED BY <1>1, <2>1, <2>2, CountUsers DEF UserInv
<1>4. UserInv'
  BY <1>1, <1>2, <1>3, UserChange
<1>5. Drained'
  <2>1. call'[t] = x
    BY <1>1 DEF UserInv
  <2>2. t \in held' /\ ~ Leaving(t)'
    BY <1>2, <2>1 DEF Leaving
  <2> QED BY <2>2 DEF Drained
<1> QED BY <1>1, <1>4, <1>5, PlainStep

LEMMA StageType ==
    ASSUME NEW c \in CallRec, NEW s \in Stages
    PROVE  LET x == [c EXCEPT !.stage = s]
           IN  x \in CallRec /\ x.op = c.op /\ x.stage = s /\ x.arg = c.arg /\ x.owed = c.owed
BY DEF CallRec

LEMMA EnteredType ==
    ASSUME LogInv, NEW t, NEW op \in CallOps, NEW a \in CallArgs
    PROVE  /\ Entered(t, op, a) \in CallRec /\ Entered(t, op, a).op = op
           /\ Entered(t, op, a).stage = "sync" /\ Entered(t, op, a).arg = a
           /\ Entered(t, op, a).owed \subseteq InFlight(ctx, td)
<1> DEFINE o == IF op = "sync" THEN InFlight(ctx, td) ELSE {}
<1>1. o \in SUBSET Nat /\ o \subseteq InFlight(ctx, td)
  BY InFlightType
<1>2. Entered(t, op, a) = [NoCall EXCEPT !.op = op, !.stage = "sync", !.arg = a, !.owed = o]
  BY DEF Entered
<1> HIDE DEF o
<1>3. Entered(t, op, a) = [op |-> op, stage |-> "sync", arg |-> a, join |-> 0, owed |-> o,
                           level |-> [D |-> 0, T |-> 0]]
  BY <1>2 DEF NoCall
<1>4. "sync" \in Stages /\ 0 \in 0..MaxStarts
  BY LogAssumption DEF Stages
<1> QED BY <1>1, <1>3, <1>4 DEF CallRec

\* The write thread is asked to sync, and nothing else.
LEMMA KickStep ==
    ASSUME LogInv, Running, UNCHANGED <<ctx, lost, taken, flushed>>, td' = Kick(td, ctx)
    PROVE  Plain /\ Saves /\ td'[ctx'.wrthread].sync
<1>1. ctx.wrthread \in Writers /\ td \in Table
  BY WriterType DEF LogInv, LogType
<1>2. Pings(td, td') /\ td'[ctx'.wrthread].sync
  BY <1>1, KickPings
<1>3. Plain
  BY <1>2 DEF Plain, Shifts
<1> QED BY <1>2, <1>3, PlainSaves

\* A step that leaves the context and the write threads alone.
LEMMA CalmStep ==
    ASSUME LogInv, UNCHANGED <<ctx, td, lost, taken, flushed>>
    PROVE  Plain /\ Saves
<1>1. Pings(td, td')
  BY DEF Pings, LogInv, LogType
<1>2. Plain
  BY <1>1 DEF Plain, Shifts
<1> QED BY <1>2, PlainSaves

LEMMA StillDrained ==
    ASSUME Drained, NEW t \in Threads, ctx'.wrthread = ctx.wrthread, ctx'.lockqp = ctx.lockqp,
           ctx'.wrthru = ctx.wrthru, UNCHANGED td, UserInv, NEW x, call' = [call EXCEPT ![t] = x],
           held \ {t} \subseteq held', held \subseteq Threads,
           t \in held /\ ~ Leaving(t) => t \in held' /\ ~ Waits(x, "term")
    PROVE  Drained'
<1>1. call'[t] = x /\ \A u \in Threads \ {t} : call'[u] = call[u]
  BY DEF UserInv
<1>2. ASSUME NEW u \in held, ~ Leaving(u) PROVE u \in held' /\ ~ Leaving(u)'
  BY <1>1, <1>2 DEF Leaving
<1>3. CASE \E u \in held : ~ Leaving(u)
  BY <1>2, <1>3 DEF Drained
<1>4. CASE Idle \/ td[ctx.wrthread].sync
  BY <1>4 DEF Drained, Idle
<1> QED BY <1>3, <1>4 DEF Drained

\* pmlog_message_ctx of a thread with a reference.
LEMMA DeliverLogs ==
    ASSUME LogInv, BalancedInv, MutexFree, NEW t \in Threads, t \in held,
           global = 0 \/ call[t] # NoCall, NEW c \in CallRec, c.op = "message",
           Deliver(t, c), UNCHANGED <<global, enable>>
    PROVE  BalancedInv'
<1>1. Running
  BY HeldRuns DEF BalancedInv, Users
<1>2. Plain /\ ctx'.init_count = ctx.init_count /\ Saves
  BY <1>1, DeliverStep, DeliverSaves
<1>3. UNCHANGED <<taken, dangling, held>>
  BY DEF Deliver
<1>4. PICK x \in CallRec :
         /\ call' = [call EXCEPT ![t] = x]
         /\ x = NoCall \/ (x.op = "message" /\ x.stage \in {"thru", "active"})
  <2>1. CASE Return(t)
    BY <2>1, NoCallType DEF Return
  <2>2. CASE Sleep(t, c, "active")
    <3> DEFINE y == [c EXCEPT !.stage = "active"]
    <3>1. "active" \in Stages
      BY DEF Stages
    <3>2. y \in CallRec /\ y.op = "message" /\ y.stage = "active"
      BY <3>1, StageType
    <3>3. call' = [call EXCEPT ![t] = y]
      BY <2>2 DEF Sleep
    <3> HIDE DEF y
    <3> QED BY <3>2, <3>3
  <2>3. CASE Sleep(t, [c EXCEPT !.arg = "thru"], "thru")
    <3> DEFINE d == [c EXCEPT !.arg = "thru"]
    <3>1. d \in CallRec /\ d.op = c.op
      BY DEF CallRec, CallArgs
    <3>2. "thru" \in Stages
      BY DEF Stages
    <3>3. call' = [call EXCEPT ![t] = [d EXCEPT !.stage = "thru"]]
      BY <2>3 DEF Sleep
    <3> HIDE DEF d
    <3> DEFINE y == [d EXCEPT !.stage = "thru"]
    <3>4. y \in CallRec /\ y.op = "message" /\ y.stage = "thru"
      BY <3>1, <3>2, StageType
    <3> HIDE DEF y
    <3> QED BY <3>3, <3>4 DEF y
  <2> QED BY <2>1, <2>2, <2>3 DEF Deliver
<1>5. /\ x.op \in Inner \cup {"none"} /\ (x.op = "none" => x.stage = "none")
      /\ x.op = "message" => x.stage \in {"thru", "active"}
      /\ x.op # "sync"
  BY <1>4, NoCallType DEF Inner
<1> QED BY <1>2, <1>3, <1>4, <1>5, LogsStep

\* The functions that use the active ring.
LEMMA UseActiveLogs ==
    ASSUME LogInv, BalancedInv, MutexFree, NEW t \in Threads, t \in held,
           global = 0 \/ call[t] # NoCall, NEW c \in CallRec, c.op \in Inner \ {"message"},
           c.op = "sync" => c = call[t],
           UseActive(t, c), UNCHANGED <<global, enable>>
    PROVE  BalancedInv'
<1>1. Running
  BY HeldRuns DEF BalancedInv, Users
<1>2. Plain /\ ctx'.init_count = ctx.init_count /\ Saves
  BY <1>1, UseActiveStep, UseActiveSaves
<1>3. UNCHANGED <<taken, dangling, held>>
  BY DEF UseActive
<1>4. PICK x \in CallRec :
         /\ call' = [call EXCEPT ![t] = x]
         /\ x = NoCall \/ (x.op = c.op /\ x.owed = c.owed)
  <2>1. CASE Return(t)
    BY <2>1, NoCallType DEF Return
  <2>2. CASE Sleep(t, c, "active")
    <3>1. "active" \in Stages
      BY DEF Stages
    <3> QED BY <2>2, <3>1, StageType DEF Sleep
  <2> QED BY <2>1, <2>2 DEF UseActive
<1>5. /\ x.op \in Inner \cup {"none"} /\ (x.op = "none" => x.stage = "none")
      /\ x.op # "message"
      /\ x.op = "sync" => call[t].op = "sync" /\ x.owed = call[t].owed
  BY <1>4, NoCallType DEF Inner
<1> QED BY <1>2, <1>3, <1>4, <1>5, LogsStep

\* pmlog_term_ctx, pmlog_term_all, pmlog_enable(LOG_ENABLE_NONE) and a failed
\* pmlog_init_ctx, after their sync.  When the write thread is told to stop it
\* has nothing in its hands.
LEMMA StopsIdle ==
    ASSUME LogInv, BalancedInv, NEW t \in Threads, NEW force \in BOOLEAN,
           IF force THEN Stopping(t) ELSE Waits(call[t], "init") \/ Waits(call[t], "term"),
           ~ (Running /\ td[ctx.wrthread].sync), TermJoins(force)
    PROVE  (Running => Idle) /\ held \subseteq {t} /\ (Waits(call[t], "init") => held = {})
<1>0. UserInv /\ Proper(t, call[t], held) /\ held \subseteq Threads
  BY DEF BalancedInv, UserInv, LogInv, LogType
<1>1. CASE force
  <2>1. held = {}
    BY <1>0, <1>1 DEF UserInv, Alone
  <2> QED BY <2>1 DEF BalancedInv, DrainInv, Drained
<1>2. CASE ~ force
  <2>1. t \in Users
    BY <1>0, <1>2 DEF Users, Proper
  <2>2. ctx.init_count = 1
    BY <1>2, <2>1, <1>0, HeldRuns DEF TermJoins
  <2>3. Users = {t}
    <3>1. Users \in SUBSET Threads
      BY <1>0 DEF Users
    <3>2. Cardinality(Users) <= 1
      BY <1>0, <2>2 DEF UserInv
    <3> QED BY <2>1, <3>1, <3>2, CountUsers
  <2>4. held \subseteq {t}
    BY <2>3 DEF Users
  <2>5. Waits(call[t], "init") => held = {}
    BY <1>0, <2>4 DEF Proper
  <2>6. \A u \in held : Leaving(u)
    BY <1>2, <2>4, <2>5 DEF Leaving
  <2> QED BY <2>4, <2>5, <2>6 DEF BalancedInv, DrainInv, Drained
<1> QED BY <1>1, <1>2

LEMMA TermBalanced ==
    ASSUME LogInv, BalancedInv, MutexFree, NEW t \in Threads, NEW force \in BOOLEAN,
           IF force THEN Stopping(t) ELSE Waits(call[t], "init") \/ Waits(call[t], "term"),
           ~ (Running /\ td[ctx.wrthread].sync), MtxTerm(t, call[t], force),
           UNCHANGED <<asleep, global>>
    PROVE  BalancedInv'
<1> DEFINE c == call[t]
<1>0. /\ UserInv /\ DrainInv /\ KeptInv /\ Proper(t, c, held) /\ held \subseteq Threads
      /\ c \in CallRec /\ ctx \in Context /\ td \in Table /\ ThreadInv
  BY DEF BalancedInv, UserInv, LogInv, LogType
<1>1. /\ UNCHANGED <<flushed, taken, dangling>>
      /\ held' = IF force THEN {} ELSE IF c.op = "term" THEN held \ {t} ELSE held
  BY DEF MtxTerm
<1>2. c.op \in {"init", "term", "term_all", "disable"} /\ c # NoCall
  BY NoCallType DEF Stopping, Waits
<1>3. ctx.wrthread \in 0..MaxStarts /\ ctx.init_count \in Nat
  BY <1>0 DEF Context
<1>4. ASSUME NEW x \in CallRec, x.op = c.op, x.stage = "join", call' = [call EXCEPT ![t] = x],
             held' \in {held, held \ {t}}, Cardinality(Users') <= ctx'.init_count
      PROVE  UserInv'
  <2>1. /\ ~ Waits(x, "term_all") /\ ~ Waits(x, "disable")
        /\ Proper(t, x, held')
    BY <1>2, <1>4 DEF Waits, Proper, Inner
  <2> QED BY <1>0, <1>2, <1>4, <2>1, UserChange
<1>5. ASSUME NEW x \in CallRec, x.op = c.op, x.stage = "join", call' = [call EXCEPT ![t] = x],
             held' \in {held, held \ {t}}
      PROVE  /\ Users \in SUBSET Threads /\ Users' \in SUBSET (Users \cup {t})
             /\ (t \in Users' <=> t \in held')
  <2>1. ~ Waits(x, "init")
    BY <1>5 DEF Waits
  <2> QED BY <1>0, <1>5, <2>1, UsersChange
<1>6. CASE TermJoins(force)
  <2>1. (Running => Idle) /\ held \subseteq {t} /\ (Waits(c, "init") => held = {})
    BY <1>6, StopsIdle
  <2>2. /\ ctx' = [Freed EXCEPT !.stderr_mask = ctx.stderr_mask]
        /\ td' = IF ctx.wrthread # 0 THEN Signal([td EXCEPT ![ctx.wrthread].terminate = TRUE])
                                     ELSE td
        /\ call' = [call EXCEPT ![t] = [c EXCEPT !.stage = "join", !.join = ctx.wrthread]]
    BY <1>6 DEF MtxTerm
  <2>3. PICK x \in CallRec : x.op = c.op /\ x.stage = "join" /\ call' = [call EXCEPT ![t] = x]
    <3> HIDE DEF c
    <3> DEFINE y == [c EXCEPT !.stage = "join", !.join = ctx.wrthread]
    <3>1. y \in CallRec /\ y.op = c.op /\ y.stage = "join"
      BY <1>0, <1>3 DEF CallRec, Stages
    <3>2. call' = [call EXCEPT ![t] = y]
      BY <2>2
    <3> HIDE DEF y
    <3> QED BY <3>1, <3>2
  <2>4. held' = {} /\ held' \in {held, held \ {t}}
    <3>1. CASE force
      <4>1. held = {}
        BY <1>0, <3>1 DEF UserInv, Alone
      <4> QED BY <1>1, <3>1, <4>1
    <3>2. CASE ~ force /\ c.op = "term"
      BY <1>1, <2>1, <3>2
    <3>3. CASE ~ force /\ c.op # "term"
      <4>1. held = {}
        BY <2>1, <3>3 DEF Waits
      <4> QED BY <1>1, <3>3, <4>1
    <3> QED BY <3>1, <3>2, <3>3
  <2>5. ctx'.init_count = 0 /\ ctx'.wrthread = 0 /\ ctx'.lockqp = <<>> /\ ctx'.wrthru = <<>>
    BY <2>2 DEF Freed
  <2>6. Users' = {}
    <3>1. call'[t] = x /\ \A u \in Threads \ {t} : call'[u] = call[u]
      BY <1>0, <2>3 DEF UserInv
    <3>2. ASSUME NEW u \in Threads PROVE ~ Waits(call'[u], "init")
      <4>1. CASE u = t
        BY <2>3, <3>1, <4>1 DEF Waits
      <4>2. CASE u # t /\ force
        <5>1. call[u] = NoCall
          BY <1>0, <4>2 DEF UserInv, Alone
        <5> QED BY <3>1, <4>2, <5>1, NoCallType DEF Waits
      <4>3. CASE u # t /\ ~ force
        <5>1. t \in Users /\ ctx.init_count = 1
          <6>1. t \in Users
            BY <1>0, <4>3 DEF Users, Proper
          <6> QED BY <1>0, <1>6, <4>3, <6>1, HeldRuns DEF TermJoins
        <5>2. Users \in SUBSET Threads /\ Cardinality(Users) <= 1
          BY <1>0, <5>1 DEF UserInv, Users
        <5>3. Users = {t}
          BY <5>1, <5>2, CountUsers
        <5> QED BY <3>1, <4>3, <5>3 DEF Users
      <4> QED BY <4>1, <4>2, <4>3
    <3> QED BY <2>4, <3>2 DEF Users
  <2>7. UserInv'
    <3>1. Cardinality(Users') <= ctx'.init_count
      BY <2>5, <2>6, FS_EmptySet
    <3> QED BY <1>4, <2>3, <2>4, <3>1
  <2>8. DrainInv'
    <3>1. ASSUME NEW v \in Writers, td'[v].terminate PROVE td'[v].ring = 0 /\ td'[v].msg = 0
      <4>1. td'[v].ring = td[v].ring /\ td'[v].msg = td[v].msg
            /\ (v # ctx.wrthread => td'[v].terminate = td[v].terminate)
        <5>1. CASE ctx.wrthread = 0
          BY <2>2, <5>1
        <5>2. CASE ctx.wrthread # 0
          <6> DEFINE f == [td EXCEPT ![ctx.wrthread].terminate = TRUE]
          <6>1. ctx.wrthread \in Writers
            BY <1>3, <5>2, LogAssumption DEF Writers
          <6>2. /\ f \in Table /\ f[v].ring = td[v].ring /\ f[v].msg = td[v].msg
                /\ v # ctx.wrthread => f[v].terminate = td[v].terminate
            <7>1. td[ctx.wrthread] \in ThreadData
              BY <1>0, <6>1 DEF Table
            <7> DEFINE y == [td[ctx.wrthread] EXCEPT !.terminate = TRUE]
            <7>2. /\ y \in ThreadData /\ y.ring = td[ctx.wrthread].ring
                  /\ y.msg = td[ctx.wrthread].msg
              BY <7>1 DEF ThreadData
            <7> HIDE DEF y
            <7>3. f = [td EXCEPT ![ctx.wrthread] = y]
              BY DEF y
            <7> HIDE DEF f
            <7> QED BY <1>0, <6>1, <7>2, <7>3 DEF Table
          <6>3. td' = Signal(f)
            BY <2>2, <5>2
          <6> HIDE DEF f
          <6>4. Pings(f, f)
            BY <6>2 DEF Pings
          <6>5. Pings(f, td')
            BY <6>2, <6>3, <6>4, SignalPings
          <6> QED BY <6>2, <6>5 DEF Pings
        <5> QED BY <5>1, <5>2
      <4>2. CASE v = ctx.wrthread
        <5>1. Running
          BY <4>2 DEF Running, Writers
        <5> QED BY <2>1, <4>1, <4>2, <5>1 DEF Idle
      <4>3. CASE v # ctx.wrthread
        BY <1>0, <3>1, <4>1, <4>3 DEF DrainInv
      <4> QED BY <4>2, <4>3
    <3> QED BY <1>0, <1>1, <2>5, <3>1 DEF DrainInv, Running
  <2>9. KeptInv'
    <3>1. flushed' \subseteq Accounted'
      <4>1. InFlight(ctx, td) = {}
        BY <1>0, <2>1, NothingInFlight
      <4> QED BY <1>0, <1>1, <4>1 DEF KeptInv, Accounted
    <3>2. \A u \in Threads : call'[u].op # "sync"
      BY <2>4, <2>7 DEF UserInv, Proper, Inner
    <3> QED BY <3>1, <3>2 DEF KeptInv
  <2> QED BY <2>7, <2>8, <2>9 DEF BalancedInv
<1>7. CASE ~ TermJoins(force)
  <2>1. /\ ctx' = [ctx EXCEPT !.init_count = ctx.init_count - 1] /\ UNCHANGED <<td, lost>>
        /\ call' = [call EXCEPT ![t] = [c EXCEPT !.stage = "join"]]
        /\ ~ force /\ ~ ctx.init_count <= 1
    BY <1>7 DEF MtxTerm, TermJoins
  <2>2. /\ ctx'.init_count = ctx.init_count - 1 /\ ctx'.wrthread = ctx.wrthread
        /\ ctx'.idleqp = ctx.idleqp /\ ctx'.activering = ctx.activering
        /\ ctx'.lockqp = ctx.lockqp /\ ctx'.wrthru = ctx.wrthru /\ ctx'.rings = ctx.rings
    BY <1>0, <2>1 DEF Context
  <2>3. PICK x \in CallRec : x.op = c.op /\ x.stage = "join" /\ call' = [call EXCEPT ![t] = x]
    <3> HIDE DEF c
    <3> DEFINE y == [c EXCEPT !.stage = "join"]
    <3>1. y \in CallRec /\ y.op = c.op /\ y.stage = "join"
      BY <1>0, <1>3 DEF CallRec, Stages
    <3>2. call' = [call EXCEPT ![t] = y]
      BY <2>1
    <3> HIDE DEF y
    <3> QED BY <3>1, <3>2
  <2>4. held' \in {held, held \ {t}} /\ t \notin held' /\ held \ {t} \subseteq held'
    BY <1>0, <1>1, <2>1 DEF Proper, Waits
  <2>5. Cardinality(Users') <= ctx'.init_count
    <3>1. t \in Users
      BY <1>0, <2>1 DEF Users, Proper
    <3>2. Users \in SUBSET Threads /\ Users' \in SUBSET (Users \ {t})
      BY <1>5, <2>3, <2>4
    <3> QED BY <1>0, <1>3, <2>2, <3>1, <3>2, CountUsers DEF UserInv
  <2>6. UserInv'
    BY <1>4, <2>3, <2>4, <2>5
  <2>7. Plain
    <3>1. ctx'.init_count # 0 /\ ctx.init_count # 0
      BY <1>3, <2>1, <2>2
    <3>2. Pings(td, td')
      BY <1>0, <2>1 DEF Pings
    <3> QED BY <2>1, <2>2, <3>1, <3>2 DEF Plain, Shifts
  <2>8. Saves
    <3>1. Stored(ctx', Hand) = Stored(ctx, Hand)
      BY <2>2 DEF Stored
    <3> QED BY <1>1, <2>7, <3>1, PlainSaves
  <2>9. ASSUME Running PROVE Drained'
    <3>1. Drained
      BY <1>0, <2>9 DEF DrainInv
    <3>2. t \in held => Leaving(t)
      BY <1>0, <2>1 DEF Proper, Leaving
    <3> QED BY <1>0, <2>1, <2>2, <2>3, <2>4, <3>1, <3>2, StillDrained
  <2> QED BY <1>1, <1>2, <2>2, <2>3, <2>6, <2>7, <2>8, <2>9, PlainStep
<1> QED BY <1>6, <1>7

\* pmlog_init_ctx up to its sync.
LEMMA InitBalanced ==
    ASSUME LogInv, BalancedInv, MutexFree, NEW t \in Threads, call[t] = NoCall, global = 0,
           t \notin held, MtxInit(t, Entered(t, "init", "none")), UNCHANGED <<global, enable>>
    PROVE  BalancedInv'
<1> DEFINE w == Cardinality(Started) + 1
           n == [Freed EXCEPT !.init_count = 1, !.wrthread = w, !.idleqp = [i \in Rings |-> i]]
           c == Entered(t, "init", "none")
<1>0. /\ UserInv /\ DrainInv /\ KeptInv /\ held \subseteq Threads
      /\ ctx \in Context /\ td \in Table /\ ThreadInv /\ ctx.init_count \in Nat
  BY DEF BalancedInv, LogInv, LogType, Context
<1>1. UNCHANGED <<held, flushed, taken, lost, dangling>>
  BY DEF MtxInit, histVars
<1>2. c \in CallRec /\ c.op = "init" /\ c.stage = "sync"
  <2>1. "init" \in CallOps /\ "none" \in CallArgs
    BY DEF CallOps, CallArgs
  <2> QED BY <2>1, EnteredType
<1>3. ASSUME NEW x \in CallRec, x.op = "init", x.stage = "sync", call' = [call EXCEPT ![t] = x],
             ctx'.init_count = ctx.init_count + 1
      PROVE  UserInv'
  <2>1. Users \in SUBSET Threads /\ Users' \in SUBSET (Users \cup {t})
    BY <1>0, <1>1, <1>3, UsersChange
  <2>2. Cardinality(Users') <= ctx'.init_count
    BY <1>0, <1>3, <2>1, CountUsers DEF UserInv
  <2>3. Proper(t, x, held') /\ ~ Waits(x, "term_all") /\ ~ Waits(x, "disable")
    BY <1>1, <1>3 DEF Proper, Waits, Inner
  <2> QED BY <1>0, <1>1, <1>3, <2>2, <2>3, UserChange
<1>4. ASSUME Sleep(t, c, "sync")
      PROVE  \E x \in CallRec : x.op = "init" /\ x.stage = "sync" /\ call' = [call EXCEPT ![t] = x]
  <2> DEFINE y == [c EXCEPT !.stage = "sync"]
  <2> HIDE DEF c
  <2>1. y \in CallRec /\ y.op = "init" /\ y.stage = "sync"
    BY <1>2 DEF CallRec, Stages
  <2>2. call' = [call EXCEPT ![t] = y]
    BY <1>4 DEF Sleep
  <2> HIDE DEF y
  <2> QED BY <2>1, <2>2
<1>5. CASE /\ ctx.init_count # 0 /\ ctx' = [ctx EXCEPT !.init_count = @ + 1]
           /\ td' = (IF Running THEN Kick(td, ctx) ELSE td) /\ Sleep(t, c, "sync")
  <2>1. /\ ctx'.init_count = ctx.init_count + 1 /\ ctx'.wrthread = ctx.wrthread
        /\ ctx'.idleqp = ctx.idleqp /\ ctx'.activering = ctx.activering
        /\ ctx'.lockqp = ctx.lockqp /\ ctx'.wrthru = ctx.wrthru /\ ctx'.rings = ctx.rings
    BY <1>0, <1>5 DEF Context
  <2>2. Running /\ ctx.wrthread \in Writers
    BY <1>0, <1>5, WriterType DEF ThreadInv, LogInv
  <2>3. Pings(td, td') /\ td'[ctx'.wrthread].sync
    BY <1>0, <1>5, <2>1, <2>2, KickPings
  <2>4. PICK x \in CallRec : x.op = "init" /\ x.stage = "sync" /\ call' = [call EXCEPT ![t] = x]
    BY <1>4, <1>5
  <2>5. UserInv'
    BY <1>3, <2>1, <2>4
  <2>6. Plain
    BY <1>0, <1>1, <1>5, <2>1, <2>3 DEF Plain, Shifts
  <2>7. Saves
    <3>1. Stored(ctx', Hand) = Stored(ctx, Hand)
      BY <2>1 DEF Stored
    <3> QED BY <1>1, <2>6, <3>1, PlainSaves
  <2>8. Drained'
    BY <2>3 DEF Drained
  <2> QED BY <1>1, <2>2, <2>4, <2>5, <2>6, <2>7, <2>8, PlainStep
<1>6. CASE /\ ctx.init_count = 0 /\ w \in Writers
           /\ ctx' = n /\ td' = Kick([td EXCEPT ![w] = NewWriter], n) /\ Sleep(t, c, "sync")
  <2>1. PICK v \in Writers : v = w
    BY <1>6
  <2>2. ctx'.init_count = 1 /\ ctx'.wrthread = v /\ n.wrthread = v /\ ~ Running
    BY <1>0, <1>6, <2>1 DEF Freed, ThreadInv
  <2> DEFINE f == [td EXCEPT ![v] = NewWriter]
  <2>3. f \in Table /\ f[v] = NewWriter /\ \A u \in Writers \ {v} : f[u] = td[u]
    <3>1. NewWriter \in ThreadData
      BY LogAssumption DEF NewWriter, ThreadData, WriterPc
    <3> QED BY <1>0, <3>1 DEF Table
  <2>4. td' = Kick(f, n)
    BY <1>6, <2>1
  <2> HIDE DEF f, n, w
  <2>5. Pings(f, td') /\ td'[v].sync
    BY <2>2, <2>3, <2>4, KickPings
  <2>6. td'[v].pc = "open" /\ ~ td'[v].terminate
    BY <2>3, <2>5 DEF Pings, NewWriter
  <2>7. PICK x \in CallRec : x.op = "init" /\ x.stage = "sync" /\ call' = [call EXCEPT ![t] = x]
    BY <1>4, <1>6
  <2>8. UserInv'
    <3>1. ctx'.init_count = ctx.init_count + 1
      BY <1>6, <2>2
    <3> QED BY <1>3, <2>7, <3>1
  <2>9. DrainInv'
    <3>1. ASSUME NEW u \in Writers, td'[u].terminate PROVE td'[u].ring = 0 /\ td'[u].msg = 0
      <4>1. u # v
        BY <2>6, <3>1
      <4>2. /\ td'[u].ring = td[u].ring /\ td'[u].msg = td[u].msg
            /\ td'[u].terminate = td[u].terminate
        BY <2>3, <2>5, <4>1 DEF Pings
      <4> QED BY <1>0, <3>1, <4>2 DEF DrainInv
    <3>2. Drained' /\ PassInv(ctx', td'[ctx'.wrthread])
      BY <2>2, <2>5, <2>6 DEF Drained, PassInv
    <3>3. Running'
      BY <2>2 DEF Running, Writers
    <3> QED BY <1>0, <1>1, <3>1, <3>2, <3>3 DEF DrainInv
  <2>10. KeptInv'
    <3>1. InFlight(ctx, td) = {}
      BY <1>0, <2>2, NothingInFlight
    <3>2. flushed' \subseteq Accounted'
      BY <1>0, <1>1, <3>1 DEF KeptInv, Accounted
    <3>3. held = {}
      BY <1>0, <2>2, HeldRuns DEF Users
    <3>4. \A u \in Threads : call'[u].op # "sync"
      BY <1>1, <2>8, <3>3 DEF UserInv, Proper, Inner
    <3> QED BY <3>2, <3>4 DEF KeptInv
  <2> QED BY <2>8, <2>9, <2>10 DEF BalancedInv
<1>7. CASE Return(t) /\ UNCHANGED <<ctx, td>>
  <2>1. call' = call
    BY <1>0, <1>7 DEF Return, UserInv
  <2> QED BY <1>1, <1>7, <2>1, NothingChanges
<1> QED BY <1>5, <1>6, <1>7 DEF MtxInit

\* The child of a fork.
LEMMA ForkBalanced ==
    ASSUME LogInv, BalancedInv, NEW t \in Threads, call[t].op = "fork", ForkChild(t)
    PROVE  BalancedInv'
<1>0. /\ UserInv /\ DrainInv /\ t \in held /\ call[t] \in CallRec /\ ctx \in Context /\ td \in Table
      /\ ctx.init_count \in Nat
  BY DEF BalancedInv, UserInv, Proper, Inner, LogInv, LogType, Context
<1>1. LogInv'
  BY ForkStep
<1>2. PICK w \in Writers : w = ctx.wrthread
  <2>1. Running
    BY Zenon DEF ForkChild
  <2> QED BY <2>1, WriterType DEF LogInv
<1>3. UNCHANGED <<ctx, taken, dangling>> /\ held' = {t} /\ Running
  <2>1. UNCHANGED <<ctx, taken, dangling>> /\ held' = held \cap {t} /\ Running
    BY Zenon DEF ForkChild
  <2> QED BY <1>0, <2>1
<1>10. td' = [v \in Writers |->
                  IF v = w THEN [td[v] EXCEPT !.pc = "open", !.sync = TRUE,
                                   !.logfd = FALSE, !.ring = 0, !.msg = 0]
                  ELSE IF td[v].pc = "none" THEN td[v]
                  ELSE [NewWriter EXCEPT !.pc = "done"]]
  BY <1>2, Zenon DEF ForkChild
<1>4. PICK x \in CallRec : /\ x.op = "child" /\ x.stage = "sync"
                           /\ call' = [u \in Threads |-> IF u = t THEN x ELSE NoCall]
  <2> DEFINE y == [call[t] EXCEPT !.op = "child", !.stage = "sync"]
  <2>1. y \in CallRec /\ y.op = "child" /\ y.stage = "sync"
    BY <1>0 DEF CallRec, CallOps, Stages, Inner
  <2>2. call' = [u \in Threads |-> IF u = t THEN y ELSE NoCall]
    BY Zenon DEF ForkChild
  <2> HIDE DEF y
  <2> QED BY <2>1, <2>2
<1>5. call'[t] = x /\ \A u \in Threads \ {t} : call'[u] = NoCall
  BY <1>4
<1>6. UserInv'
  <2>1. call' \in [Threads -> CallRec]
    BY <1>4, NoCallType
  <2>2. ASSUME NEW u \in Threads PROVE Proper(u, call'[u], held') /\ ~ Stopping(u)'
    <3>1. CASE u = t
      BY <1>3, <1>4, <1>5, <3>1 DEF Proper, Stopping, Waits
    <3>2. CASE u # t
      BY <1>5, <3>2, NoCallType DEF Proper, Stopping, Waits, Inner
    <3> QED BY <3>1, <3>2
  <2>3. Users' = {t}
    <3>1. \A u \in Threads : ~ Waits(call'[u], "init")
      BY <1>4, <1>5, NoCallType DEF Waits
    <3> QED BY <1>3, <3>1 DEF Users
  <2>4. Cardinality({t}) <= ctx'.init_count
    <3>1. Users \in SUBSET Threads /\ {t} \in SUBSET Users
      BY <1>0 DEF Users, LogInv, LogType
    <3> QED BY <1>0, <1>3, <3>1, CountUsers DEF UserInv
  <2> QED BY <2>1, <2>2, <2>3, <2>4 DEF UserInv
<1>7. /\ td'[w].pc = "open" /\ td'[w].sync
      /\ \A v \in Writers : td'[v].pc \in {"open", "none", "done"}
  <2>1. td'[w].pc = "open" /\ td'[w].sync
    <3>1. td'[w] = [td[w] EXCEPT !.pc = "open", !.sync = TRUE, !.logfd = FALSE, !.ring = 0,
                                 !.msg = 0]
      BY <1>10, Zenon
    <3>2. td[w] \in ThreadData
      BY <1>0 DEF Table
    <3> QED BY <3>1, <3>2 DEF ThreadData
  <2>2. ASSUME NEW v \in Writers, v # w PROVE td'[v].pc \in {"none", "done"}
    <3>1. td'[v] = IF td[v].pc = "none" THEN td[v] ELSE [NewWriter EXCEPT !.pc = "done"]
      BY <1>10, <2>2, Zenon
    <3> QED BY <3>1, DoneType
  <2> QED BY <2>1, <2>2
<1>8. DrainInv'
  <2>1. \A v \in Writers : td'[v].ring = 0 /\ td'[v].msg = 0
    BY <1>1, <1>7 DEF LogInv, ThreadInv, Shape
  <2>2. Drained' /\ PassInv(ctx', td'[ctx'.wrthread])
    BY <1>2, <1>3, <1>7 DEF Drained, PassInv
  <2>3. Running'
    BY <1>3 DEF Running
  <2> QED BY <1>0, <1>3, <2>1, <2>2, <2>3 DEF DrainInv
<1>9. KeptInv'
  <2>1. flushed' \subseteq Accounted'
    <3>1. flushed' = flushed \cap (taken \cup InFlight(ctx, td'))
      BY Zenon DEF ForkChild
    <3> HIDE DEF ForkChild
    <3> QED BY <1>3, <3>1 DEF Accounted
  <2>2. \A u \in Threads : call'[u].op # "sync"
    BY <1>4, <1>5, NoCallType
  <2> QED BY <2>1, <2>2 DEF KeptInv
<1> QED BY <1>6, <1>8, <1>9 DEF BalancedInv

\* What follows the sync, in every function.
LEMMA AfterSyncBalanced ==
    ASSUME LogInv, BalancedInv, MutexFree, NEW t \in Threads, call[t].stage = "sync",
           ~ (Running /\ td[ctx.wrthread].sync), AfterSync(t, call[t])
    PROVE  BalancedInv'
<1> DEFINE c == call[t]
<1>0. /\ UserInv /\ DrainInv /\ Proper(t, c, held) /\ c \in CallRec /\ c # NoCall
      /\ ctx \in Context /\ td \in Table /\ held \subseteq Threads /\ ctx.init_count \in Nat
  BY NoCallType DEF BalancedInv, UserInv, LogInv, LogType, Context
<1>1. c.op # "message"
  BY <1>0 DEF Proper
<1>2. ASSUME c.op \in Inner PROVE t \in held /\ Running
  <2>1. t \in held
    BY <1>0, <1>2 DEF Proper
  <2> QED BY <1>0, <2>1, HeldRuns DEF Users
\* The call of a thread with a reference returns.
<1>3. ASSUME c.op \in Inner, Plain, Saves, Return(t), ctx'.init_count = ctx.init_count,
             UNCHANGED <<taken, dangling, held>>
      PROVE  BalancedInv'
  <2>1. NoCall \in CallRec /\ NoCall.op = "none" /\ NoCall.stage = "none"
    BY NoCallType
  <2>2. call' = [call EXCEPT ![t] = NoCall]
    BY <1>3 DEF Return
  <2> HIDE DEF c
  <2> QED BY <1>0, <1>2, <1>3, <2>1, <2>2, LogsStep DEF c
<1>4. CASE c.op \in {"init", "message"} /\ MtxTerm(t, c, FALSE) /\ UNCHANGED <<asleep, global>>
  <2>1. Waits(c, "init") /\ FALSE \in BOOLEAN
    BY <1>1, <1>4 DEF Waits
  <2> QED BY <1>4, <2>1, TermBalanced
<1>5. CASE /\ c.op = "init" /\ held' = held \cup {t} /\ Return(t)
           /\ UNCHANGED <<ctx, td, asleep, global, enable, sent, flushed, taken, log,
                          lost, nforks, dangling>>
  <2>1. Plain /\ Saves
    BY <1>5, CalmStep
  <2>2. NoCall \in CallRec /\ NoCall.op = "none" /\ NoCall.stage = "none"
        /\ call' = [call EXCEPT ![t] = NoCall]
    BY <1>5, NoCallType DEF Return
  <2>3. UserInv'
    <3>1. Users \in SUBSET Threads /\ Users' \in SUBSET (Users \cup {t})
      BY <1>0, <1>5, <2>2, UsersChange
    <3>2. t \in Users
      BY <1>5 DEF Users, Waits
    <3>3. Cardinality(Users') <= ctx'.init_count
      BY <1>0, <1>5, <3>1, <3>2, CountUsers DEF UserInv
    <3>4. /\ Proper(t, NoCall, held') /\ ~ Waits(NoCall, "term_all")
          /\ ~ Waits(NoCall, "disable")
      BY <2>2 DEF Proper, Waits, Inner
    <3> QED BY <1>0, <1>5, <2>2, <3>3, <3>4, UserChange
  <2>4. ASSUME Running PROVE Drained'
    <3>1. Drained
      BY <1>0, <2>4 DEF DrainInv
    <3>2. ~ Waits(NoCall, "term")
      BY <2>2 DEF Waits
    <3> QED BY <1>0, <1>5, <2>2, <3>1, <3>2, StillDrained
  <2> QED BY <1>5, <2>1, <2>2, <2>3, <2>4, PlainStep
<1>6. CASE /\ c.op \in {"term", "term_all", "disable"}
           /\ MtxTerm(t, c, c.op # "term") /\ UNCHANGED <<asleep, global>>
  <2>1. CASE c.op = "term"
    <3>1. Waits(c, "term") /\ FALSE \in BOOLEAN /\ MtxTerm(t, c, FALSE)
      BY <1>6, <2>1 DEF Waits
    <3> QED BY <1>6, <3>1, TermBalanced
  <2>2. CASE c.op # "term"
    <3>1. Stopping(t) /\ TRUE \in BOOLEAN /\ MtxTerm(t, c, TRUE)
      BY <1>6, <2>2 DEF Waits, Stopping
    <3> QED BY <1>6, <3>1, TermBalanced
  <2> QED BY <2>1, <2>2
<1>7. CASE c.op = "autoflush" /\ UseActive(t, c) /\ UNCHANGED <<global, enable>>
  <2>1. c.op \in Inner \ {"message"} /\ c.op # "sync"
    BY <1>7 DEF Inner
  <2> QED BY <1>0, <1>2, <1>7, <2>1, UseActiveLogs
<1>8. CASE /\ c.op \in {"autoflush", "logwrt"}
           /\ td' = IF ~Running THEN td
                    ELSE IF c.op = "logwrt" THEN [td EXCEPT ![ctx.wrthread].logwrt = ~@]
                    ELSE [td EXCEPT ![ctx.wrthread].autoflush = FALSE]
           /\ Return(t) /\ UNCHANGED <<ctx, asleep, global, enable, histVars>>
  <2>1. Pings(td, td')
    BY <1>8, SwitchPings DEF LogInv
  <2>2. UNCHANGED <<ctx, lost, flushed, taken, dangling, held>> /\ c.op \in Inner
    BY <1>8 DEF histVars, Inner
  <2>3. Plain
    BY <2>1, <2>2 DEF Plain, Shifts
  <2>4. Saves
    BY <2>2, <2>3, PlainSaves
  <2> QED BY <1>3, <1>8, <2>2, <2>3, <2>4
<1>9. CASE /\ c.op = "level" /\ Return(t)
           /\ ctx' = [ctx EXCEPT !.stderr_mask = LevelToMask(@, c.level.D, c.level.T)]
           /\ UNCHANGED <<td, asleep, global, enable, histVars>>
  <2>1. /\ ctx'.wrthru = ctx.wrthru /\ ctx'.rings = ctx.rings
        /\ ctx'.idleqp = ctx.idleqp /\ ctx'.lockqp = ctx.lockqp
        /\ ctx'.activering = ctx.activering /\ ctx'.wrthread = ctx.wrthread
        /\ ctx'.init_count = ctx.init_count
    BY <1>0, <1>9 DEF Context
  <2>2. UNCHANGED <<td, lost, flushed, taken, dangling, held>> /\ c.op \in Inner
    BY <1>9 DEF histVars, Inner
  <2>3. Plain
    BY <1>0, <2>1, <2>2 DEF Plain, Shifts, Pings
  <2>4. Stored(ctx', Hand) = Stored(ctx, Hand)
    BY <2>1 DEF Stored
  <2>5. Saves
    BY <2>2, <2>3, <2>4, PlainSaves
  <2> QED BY <1>3, <1>9, <2>1, <2>2, <2>3, <2>5
<1>10. CASE /\ c.op \in {"sync", "child", "fork"} /\ Return(t)
            /\ UNCHANGED <<ctx, td, asleep, enable, histVars>>
  <2>1. UNCHANGED <<ctx, td, lost, flushed, taken, dangling, held>> /\ c.op \in Inner
    BY <1>10 DEF histVars, Inner
  <2>2. Plain /\ Saves
    BY <2>1, CalmStep
  <2> QED BY <1>3, <1>10, <2>1, <2>2
<1>11. CASE c.op = "fork" /\ ForkChild(t)
  BY <1>11, ForkBalanced
<1> QED BY <1>1, <1>4, <1>5, <1>6, <1>7, <1>8, <1>9, <1>10, <1>11 DEF AfterSync, ForkParent

LEMMA CallBalanced ==
    ASSUME Balanced, LogInv, BalancedInv, NEW t \in Threads, Call(t)
    PROVE  BalancedInv'
<1>0. /\ UserInv /\ DrainInv /\ ctx \in Context /\ td \in Table /\ held \subseteq Threads
      /\ ctx.init_count \in Nat
  BY DEF BalancedInv, LogInv, LogType, Context
\* A thread with a reference calls a function and sleeps in it.
<1>1. ASSUME t \in held, MutexFree, global = 0, NEW c \in CallRec, NEW s \in Stages,
             c.op \in Inner \ {"message"}, c.owed \subseteq Accounted, Sleep(t, c, s), Plain, Saves,
             UNCHANGED <<taken, dangling, held>>, ctx'.init_count = ctx.init_count,
             c.op = "sync" => td'[ctx'.wrthread].sync
      PROVE  BalancedInv'
  <2> DEFINE x == [c EXCEPT !.stage = s]
  <2>1. x \in CallRec /\ x.op = c.op /\ x.owed = c.owed
    BY <1>1 DEF CallRec
  <2>2. call' = [call EXCEPT ![t] = x]
    BY <1>1 DEF Sleep
  <2> HIDE DEF x
  <2>3. x.op \in Inner \cup {"none"} /\ x.op # "none" /\ x.op # "message"
    BY <1>1, <2>1 DEF Inner
  <2> QED BY <1>1, <2>1, <2>2, <2>3, LogsStep
<1>2. ASSUME NEW op, MayCall(t, op)
      PROVE  /\ MutexFree /\ global = 0 /\ call[t] = NoCall
             /\ op \notin {"init", "term_all", "disable", "enable"} => t \in held /\ Running
             /\ op = "init" => t \notin held
             /\ op \in {"term_all", "disable"} => /\ held = {}
                                                  /\ \A u \in Threads : call[u] = NoCall
  <2>1. /\ MutexFree /\ global = 0 /\ call[t] = NoCall
        /\ op \notin {"init", "term_all", "disable", "enable"} => t \in held
        /\ op = "init" => t \notin held
        /\ op \in {"term_all", "disable"} => held = {} /\ \A u \in Threads : call[u] = NoCall
    BY <1>2 DEF MayCall
  <2>2. t \in held => Running
    BY <1>0, HeldRuns DEF Users
  <2> QED BY <2>1, <2>2
<1>3. InFlight(ctx, td) \subseteq Accounted
  BY DEF Accounted
<1>4. "sync" \in Stages /\ "rotate" \in Stages /\ "none" \in CallArgs
  BY DEF Stages, CallArgs
<1>5. CASE CallSync(t)
  <2>0. PICK op \in Syncing : \E a \in Args(op) :
           /\ MayCall(t, op)
           /\ global' = IF op \in {"term_all", "disable", "fork"} THEN t ELSE global
           /\ IF Running
              THEN /\ td' = Kick(td, ctx) /\ Sleep(t, Entered(t, op, a), "sync")
                   /\ UNCHANGED <<ctx, histVars>>
              ELSE /\ call' = [call EXCEPT ![t] =
                        IF op \in {"term", "term_all", "disable"}
                        THEN [Entered(t, op, a) EXCEPT !.stage = "join"] ELSE NoCall]
                   /\ UNCHANGED <<ctx, td, asleep, histVars>>
    BY <1>5 DEF CallSync
  <2>1. PICK a \in Args(op) :
           /\ MayCall(t, op)
           /\ global' = IF op \in {"term_all", "disable", "fork"} THEN t ELSE global
           /\ IF Running
              THEN /\ td' = Kick(td, ctx) /\ Sleep(t, Entered(t, op, a), "sync")
                   /\ UNCHANGED <<ctx, histVars>>
              ELSE /\ call' = [call EXCEPT ![t] =
                        IF op \in {"term", "term_all", "disable"}
                        THEN [Entered(t, op, a) EXCEPT !.stage = "join"] ELSE NoCall]
                   /\ UNCHANGED <<ctx, td, asleep, histVars>>
    BY <2>0
  <2> DEFINE c == Entered(t, op, a)
  <2>2. op \in CallOps /\ a \in CallArgs
    <3>1. op \in CallOps
      BY DEF Syncing, CallOps, Inner
    <3>2. Args(op) \subseteq CallArgs
      BY DEF Args, CallArgs, Syncing
    <3> QED BY <3>1, <3>2
  <2>3. /\ c \in CallRec /\ c.op = op /\ c.stage = "sync" /\ c.owed \subseteq Accounted
    BY <1>3, <2>2, EnteredType
  <2> HIDE DEF c
  <2>4. UNCHANGED <<ctx, lost, taken, flushed, dangling, held>>
    BY <2>1 DEF histVars
  <2>5. MutexFree /\ global = 0 /\ call[t] = NoCall
    BY <1>2, <2>1
  <2>6. CASE op \in {"autoflush", "logwrt", "sync", "fork"}
    <3>1. t \in held /\ Running
      BY <1>2, <2>1, <2>6
    <3>2. td' = Kick(td, ctx) /\ Sleep(t, c, "sync")
      BY <2>1, <3>1 DEF c
    <3>3. Plain /\ Saves /\ td'[ctx'.wrthread].sync
      BY <2>4, <3>1, <3>2, KickStep
    <3>4. c.op \in Inner \ {"message"}
      BY <2>3, <2>6 DEF Inner
    <3> QED BY <1>1, <1>4, <2>3, <2>4, <2>5, <3>1, <3>2, <3>3, <3>4
  <2>7. CASE op \in {"term", "term_all", "disable"} /\ Running
    <3> DEFINE x == [c EXCEPT !.stage = "sync"]
    <3>1. x \in CallRec /\ x.op = op /\ x.stage = "sync"
      BY <1>4, <2>3 DEF CallRec
    <3>2. td' = Kick(td, ctx) /\ call' = [call EXCEPT ![t] = x]
      BY <2>1, <2>7 DEF c, Sleep
    <3> HIDE DEF x
    <3>3. Plain /\ Saves /\ td'[ctx'.wrthread].sync
      BY <2>4, <2>7, <3>2, KickStep
    <3>4. Drained'
      BY <3>3 DEF Drained
    <3>5. Cardinality(Users') <= ctx'.init_count
      <4>1. Users \in SUBSET Threads /\ Users' \in SUBSET (Users \cup {t})
            /\ (t \in Users' <=> t \in held' \/ Waits(x, "init"))
        BY <1>0, <2>4, <3>1, <3>2, UsersChange
      <4>2. Users' \in SUBSET Users
        BY <2>4, <2>7, <3>1, <4>1 DEF Users, Waits
      <4> QED BY <1>0, <2>4, <4>1, <4>2, CountUsers DEF UserInv
    <3>6. CASE op = "term"
      <4>1. t \in held
        BY <1>2, <2>1, <3>6
      <4>2. Proper(t, x, held') /\ ~ Waits(x, "term_all") /\ ~ Waits(x, "disable")
        BY <2>4, <3>1, <3>6, <4>1 DEF Proper, Waits, Inner
      <4>3. UserInv'
        BY <1>0, <2>4, <2>5, <3>1, <3>2, <3>5, <4>2, UserChange
      <4> QED BY <2>4, <2>5, <2>7, <3>1, <3>2, <3>3, <3>4, <4>3, PlainStep
    <3>7. CASE op \in {"term_all", "disable"}
      <4>1. held = {} /\ (\A u \in Threads : call[u] = NoCall) /\ global' = t
        BY <1>2, <2>1, <3>7
      <4>2. /\ call' \in [Threads -> CallRec] /\ call'[t] = x
            /\ \A u \in Threads \ {t} : call'[u] = NoCall
        BY <1>0, <3>1, <3>2, <4>1 DEF UserInv
      <4>3. Alone(t)'
        BY <2>4, <4>1, <4>2 DEF Alone
      <4>4. \A u \in Threads \ {t} : Proper(u, call'[u], held') /\ ~ Stopping(u)'
        BY <4>2, NoCallType DEF Proper, Stopping, Waits, Inner
      <4>5. Proper(t, x, held')
        BY <3>1, <3>7 DEF Proper, Waits, Inner
      <4>6. UserInv'
        BY <3>5, <4>2, <4>3, <4>4, <4>5 DEF UserInv
      <4> QED BY <2>4, <2>5, <2>7, <3>1, <3>2, <3>3, <3>4, <3>7, <4>6, PlainStep
    <3> QED BY <2>7, <3>6, <3>7
  <2>8. CASE op \in {"term_all", "disable"} /\ ~ Running
    <3> DEFINE x == [c EXCEPT !.stage = "join"]
    <3>1. x \in CallRec /\ x.op = op /\ x.stage = "join"
      BY <2>3 DEF CallRec, Stages
    <3>2. td' = td /\ call' = [call EXCEPT ![t] = x]
      BY <2>1, <2>8 DEF c
    <3> HIDE DEF x
    <3>3. Plain /\ Saves
      BY <2>4, <3>2, CalmStep
    <3>4. /\ Proper(t, x, held') /\ ~ Waits(x, "term_all") /\ ~ Waits(x, "disable")
          /\ ~ Waits(x, "init")
      BY <2>8, <3>1 DEF Proper, Waits, Inner
    <3>5. Cardinality(Users') <= ctx'.init_count
      <4>1. Users \in SUBSET Threads /\ Users' \in SUBSET (Users \cup {t})
            /\ (t \in Users' <=> t \in held' \/ Waits(x, "init"))
        BY <1>0, <2>4, <3>1, <3>2, UsersChange
      <4>2. Users' \in SUBSET Users
        BY <2>4, <3>4, <4>1 DEF Users
      <4> QED BY <1>0, <2>4, <4>1, <4>2, CountUsers DEF UserInv
    <3>6. UserInv'
      BY <1>0, <2>4, <2>5, <3>1, <3>2, <3>4, <3>5, UserChange
    <3> QED BY <2>4, <2>5, <2>8, <3>1, <3>2, <3>3, <3>6, PlainStep
  <2>9. op = "term" => Running
    BY <1>2, <2>1
  <2> QED BY <2>6, <2>7, <2>8, <2>9 DEF Syncing
<1>6. CASE CallLevel(t)
  <2>1. PICK D \in -1..2, T \in -1..3 :
           /\ MayCall(t, "level")
           /\ IF Running
              THEN /\ td' = Kick(td, ctx)
                   /\ Sleep(t, [Entered(t, "level", "none") EXCEPT !.level = [D |-> D, T |-> T]],
                            "sync")
                   /\ UNCHANGED <<ctx, global, enable, histVars>>
              ELSE AfterSync(t, [Entered(t, "level", "none") EXCEPT !.level = [D |-> D, T |-> T]])
    BY <1>6 DEF CallLevel
  <2>2. t \in held /\ Running /\ MutexFree /\ global = 0
    BY <1>2, <2>1
  <2> DEFINE e == Entered(t, "level", "none")
             c == [e EXCEPT !.level = [D |-> D, T |-> T]]
  <2>3. e \in CallRec /\ e.op = "level" /\ e.owed \subseteq Accounted
    <3>1. "level" \in CallOps
      BY DEF CallOps, Inner
    <3> QED BY <1>3, <1>4, <3>1, EnteredType
  <2>4. /\ td' = Kick(td, ctx) /\ Sleep(t, c, "sync")
        /\ UNCHANGED <<ctx, lost, taken, flushed, dangling, held>>
    BY <2>1, <2>2 DEF histVars
  <2> HIDE DEF e
  <2>5. c \in CallRec /\ c.op = "level" /\ c.owed \subseteq Accounted
    <3>1. [D |-> D, T |-> T] \in [D : Int, T : Int]
      OBVIOUS
    <3> QED BY <2>3, <3>1 DEF CallRec
  <2> HIDE DEF c
  <2>6. Plain /\ Saves
    BY <2>2, <2>4, KickStep
  <2>7. c.op \in Inner \ {"message"} /\ c.op # "sync"
    BY <2>5 DEF Inner
  <2> QED BY <1>1, <1>4, <2>2, <2>4, <2>5, <2>6, <2>7
<1>7. CASE CallInit(t)
  <2>1. MutexFree /\ global = 0 /\ call[t] = NoCall /\ t \notin held
    BY <1>2, <1>7 DEF CallInit
  <2> QED BY <1>7, <2>1, InitBalanced DEF CallInit
<1>8. CASE CallMessage(t)
  <2>1. t \in held /\ Running /\ MutexFree /\ global = 0
    BY <1>2, <1>8 DEF CallMessage
  <2>2. PICK k \in Kinds :
           Deliver(t, Entered(t, "message", IF k = "verbose" THEN "ring" ELSE k))
    BY <1>8, <2>1 DEF CallMessage
  <2> DEFINE a == IF k = "verbose" THEN "ring" ELSE k
             c == Entered(t, "message", a)
  <2>3. a \in CallArgs /\ "message" \in CallOps
    BY LogAssumption DEF CallArgs, CallOps, Inner
  <2> HIDE DEF a
  <2>4. c \in CallRec /\ c.op = "message"
    BY <2>3, EnteredType
  <2>5. Deliver(t, c) /\ UNCHANGED <<global, enable>>
    BY <1>8, <2>2 DEF a, CallMessage
  <2> HIDE DEF c
  <2> QED BY <2>1, <2>4, <2>5, DeliverLogs
<1>9. CASE CallRing(t)
  <2>1. PICK op \in {"flush", "clear"} : /\ MayCall(t, op) /\ UseActive(t, Entered(t, op, "none"))
                                         /\ UNCHANGED <<global, enable>>
    BY <1>9 DEF CallRing
  <2>2. t \in held /\ MutexFree /\ global = 0
    BY <1>2, <2>1
  <2> DEFINE c == Entered(t, op, "none")
  <2>3. op \in CallOps
    BY DEF CallOps, Inner
  <2>4. c \in CallRec /\ c.op = op
    BY <1>4, <2>3, EnteredType
  <2> HIDE DEF c
  <2>5. c.op \in Inner \ {"message"} /\ c.op # "sync"
    BY <2>4 DEF Inner
  <2> QED BY <2>1, <2>2, <2>4, <2>5, UseActiveLogs DEF c
<1>10. CASE CallRotate(t)
  <2> DEFINE c == Entered(t, "rotate", "none")
  <2>1. t \in held /\ Running /\ MutexFree /\ global = 0
    BY <1>2, <1>10 DEF CallRotate
  <2>2. "rotate" \in CallOps
    BY DEF CallOps, Inner
  <2>3. c \in CallRec /\ c.op = "rotate" /\ c.owed \subseteq Accounted
    BY <1>3, <1>4, <2>2, EnteredType
  <2>4. /\ td' = Signal([td EXCEPT ![ctx.wrthread].rotate = TRUE]) /\ Sleep(t, c, "rotate")
        /\ UNCHANGED <<ctx, lost, taken, flushed, dangling, held>>
    BY <1>10 DEF CallRotate, histVars
  <2> HIDE DEF c
  <2>5. Plain
    <3>1. Pings(td, td')
      BY <1>0, <2>1, <2>4, WriterType, FlagPings, SignalPings DEF LogInv
    <3> QED BY <2>4, <3>1 DEF Plain, Shifts
  <2>6. Saves
    BY <2>4, <2>5, PlainSaves
  <2>7. c.op \in Inner \ {"message"} /\ c.op # "sync"
    BY <2>3 DEF Inner
  <2> QED BY <1>1, <1>4, <2>1, <2>3, <2>4, <2>5, <2>6, <2>7
<1>11. CASE CallEnable(t)
  BY <1>11, NothingChanges DEF CallEnable, histVars
<1> QED BY <1>5, <1>6, <1>7, <1>8, <1>9, <1>10, <1>11 DEF Call

LEMMA ResumeBalanced ==
    ASSUME LogInv, BalancedInv, NEW t \in Threads, Resume(t)
    PROVE  BalancedInv'
<1>0. /\ UserInv /\ DrainInv /\ Proper(t, call[t], held) /\ call[t] \in CallRec
      /\ held \subseteq Threads /\ ctx.init_count \in Nat
  BY DEF BalancedInv, UserInv, LogInv, LogType, Context
<1>1. ASSUME call[t].stage \in {"thru", "active", "rotate"}
      PROVE  call[t].op \in Inner /\ t \in held /\ Running /\ call[t] # NoCall
  <2>1. call[t].op \in Inner /\ t \in held
    BY <1>0, <1>1 DEF Proper
  <2> QED BY <1>0, <1>1, <2>1, HeldRuns, NoCallType DEF Users
<1>2. NoCall \in CallRec /\ NoCall.op = "none" /\ NoCall.stage = "none"
  BY NoCallType
<1>3. CASE ResumeSync(t)
  <2>1. CASE /\ ~ (Running /\ td[ctx.wrthread].sync) /\ AfterSync(t, call[t])
    BY <1>3, <2>1, AfterSyncBalanced DEF ResumeSync
  <2>2. CASE UNCHANGED <<ctx, td, call, global, enable, histVars>>
    BY <2>2, NothingChanges DEF histVars
  <2> QED BY <1>3, <2>1, <2>2 DEF ResumeSync
<1>4. CASE ResumeRing(t)
  <2>1. MutexFree /\ call[t].op \in Inner /\ t \in held /\ Running /\ call[t] # NoCall
    BY <1>1, <1>4 DEF ResumeRing
  <2>2. CASE call[t].op = "message"
    BY <1>0, <1>4, <2>1, <2>2, DeliverLogs DEF ResumeRing
  <2>3. CASE call[t].op # "message"
    BY <1>0, <1>4, <2>1, <2>3, UseActiveLogs DEF ResumeRing
  <2> QED BY <2>2, <2>3
<1>5. CASE ResumeRotate(t)
  <2>1. MutexFree /\ call[t].op \in Inner /\ t \in held /\ Running /\ call[t] # NoCall
    BY <1>1, <1>5 DEF ResumeRotate
  <2>2. UNCHANGED <<ctx, td, global, held, flushed, taken, lost, dangling>>
    <3>1. dangling \in BOOLEAN
      BY DEF LogInv, LogType
    <3> QED BY <1>5, <2>1, <3>1 DEF ResumeRotate
  <2>3. CASE call' = call
    BY <2>2, <2>3, NothingChanges
  <2>4. CASE Return(t)
    <3>1. call' = [call EXCEPT ![t] = NoCall] /\ Plain /\ Saves
      BY <2>2, <2>4, CalmStep DEF Return
    <3> QED BY <1>2, <2>1, <2>2, <3>1, LogsStep
  <2> QED BY <1>5, <2>3, <2>4 DEF ResumeRotate
<1>6. CASE Join(t)
  <2>1. /\ call[t].stage = "join" /\ call' = [call EXCEPT ![t] = NoCall]
        /\ UNCHANGED <<ctx, td, held, flushed, taken, lost, dangling>>
    BY <1>6 DEF Join, Return, histVars
  <2>2. call[t] # NoCall /\ Plain /\ Saves
    BY <1>2, <2>1, CalmStep
  <2>3. /\ Proper(t, NoCall, held') /\ ~ Waits(NoCall, "term_all") /\ ~ Waits(NoCall, "disable")
        /\ ~ Waits(NoCall, "init") /\ ~ Waits(NoCall, "term")
    BY <1>2 DEF Proper, Waits, Inner
  <2>4. Cardinality(Users') <= ctx'.init_count
    <3>1. Users \in SUBSET Threads /\ Users' \in SUBSET (Users \cup {t})
          /\ (t \in Users' <=> t \in held' \/ Waits(NoCall, "init"))
      BY <1>0, <1>2, <2>1, UsersChange
    <3>2. Users' \in SUBSET Users
      BY <2>1, <2>3, <3>1 DEF Users
    <3> QED BY <1>0, <2>1, <3>1, <3>2, CountUsers DEF UserInv
  <2>5. UserInv'
    BY <1>0, <1>2, <2>1, <2>2, <2>3, <2>4, UserChange
  <2>6. Running => Drained'
    <3>1. Running => Drained
      BY <1>0 DEF DrainInv
    <3> QED BY <1>0, <2>1, <2>3, <3>1, StillDrained
  <2> QED BY <1>2, <2>1, <2>2, <2>5, <2>6, PlainStep
<1> QED BY <1>3, <1>4, <1>5, <1>6 DEF Resume

-----------------------------------------------------------------------------
(* The steps of the write threads, once more                               *)

\* The data of the write thread w becomes x.  What was in flight is in flight
\* after the step, or has been taken.
LEMMA WriterSaves ==
    ASSUME LogInv, NEW w \in Writers, NEW x \in ThreadData, td' = [td EXCEPT ![w] = x],
           ctx'.wrthread = ctx.wrthread, taken \subseteq taken', flushed' = flushed,
           w = ctx.wrthread => \A m \in Stored(ctx, td[w].ring) :
                                  m \in Stored(ctx', x.ring) \/ (x.msg # 0 /\ m = x.msg),
           w # ctx.wrthread => ctx' = ctx,
           td[w].msg # 0 => td[w].msg = x.msg \/ td[w].msg \in taken'
    PROVE  Saves
<1>0. td \in Table
  BY DEF LogInv, LogType
<1>1. td'[w] = x /\ \A v \in Writers \ {w} : td'[v] = td[v]
  BY <1>0 DEF Table
<1>2. ASSUME NEW m \in Carried(td) PROVE m \in Carried(td') \/ m \in taken'
  <2>1. PICK v \in Writers : td[v].msg # 0 /\ m = td[v].msg
    BY DEF Carried
  <2>2. CASE v # w
    BY <1>1, <2>1, <2>2 DEF Carried
  <2>3. CASE v = w
    BY <1>1, <2>1, <2>3 DEF Carried
  <2> QED BY <2>2, <2>3
<1>3. x.msg # 0 => x.msg \in Carried(td')
  BY <1>1 DEF Carried
<1>4. ASSUME NEW m \in Stored(ctx, Hand) PROVE m \in Stored(ctx', Hand') \cup Carried(td')
  <2>1. CASE w = ctx.wrthread
    <3>1. w # 0
      BY DEF Writers
    <3>2. Hand = td[w].ring /\ Hand' = x.ring
      BY <1>1, <2>1, <3>1 DEF Hand, HandOf
    <3> QED BY <1>3, <2>1, <3>2
  <2>2. CASE w # ctx.wrthread
    <3>1. Running => ctx.wrthread \in Writers
      BY WriterType DEF LogInv
    <3>2. Hand' = Hand
      BY <1>1, <2>2, <3>1 DEF Hand, HandOf, Running
    <3> QED BY <2>2, <3>2
  <2> QED BY <2>1, <2>2
<1>5. /\ InFlight(ctx, td) = Stored(ctx, Hand) \cup Carried(td)
      /\ InFlight(ctx, td)' = Stored(ctx', Hand') \cup Carried(td')
  BY InFlightIs DEF Hand
<1>6. Accounted \subseteq Accounted'
  BY <1>2, <1>4, <1>5 DEF Accounted
<1> QED BY <1>6 DEF Saves

\* And it goes on with an empty hand when it has nothing to do, and ends a sync
\* only then.
LEMMA WriterKeeps ==
    ASSUME LogInv, BalancedInv, NEW w \in Writers, NEW x \in ThreadData,
           td' = [td EXCEPT ![w] = x], ctx'.wrthread = ctx.wrthread,
           ctx'.init_count = ctx.init_count, UNCHANGED <<call, held, global, dangling>>,
           taken \subseteq taken', Saves, x.terminate => x.ring = 0 /\ x.msg = 0,
           w = ctx.wrthread =>
              /\ PassInv(ctx', x) /\ (Idle => Idle')
              /\ td[w].sync => x.sync \/ (Idle' /\ Accounted' \subseteq taken'),
           w # ctx.wrthread => ctx' = ctx
    PROVE  BalancedInv'
<1>0. td \in Table /\ UserInv /\ DrainInv /\ KeptInv
  BY DEF LogInv, LogType, BalancedInv
<1>1. td'[w] = x /\ \A v \in Writers \ {w} : td'[v] = td[v]
  BY <1>0 DEF Table
<1>2. Running => ctx.wrthread \in Writers
  BY WriterType DEF LogInv
<1>3. UserInv'
  BY <1>0 DEF UserInv, Users, Stopping, Alone
<1>4. w # 0 /\ (Running' <=> Running)
  BY DEF Running, Writers
<1>5. ASSUME Running, w # ctx.wrthread
      PROVE  ctx' = ctx /\ td'[ctx'.wrthread] = td[ctx.wrthread]
  BY <1>1, <1>2, <1>5
<1>6. DrainInv'
  <2>1. \A v \in Writers : td'[v].terminate => td'[v].ring = 0 /\ td'[v].msg = 0
    BY <1>0, <1>1 DEF DrainInv
  <2>2. ASSUME Running PROVE PassInv(ctx', td'[ctx'.wrthread])
    BY <1>0, <1>1, <1>5, <2>2 DEF DrainInv
  <2>3. ASSUME Running PROVE Drained'
    <3>1. CASE \E u \in held : ~ Leaving(u)
      BY <3>1 DEF Drained, Leaving
    <3>2. CASE w = ctx.wrthread /\ (Idle \/ td[w].sync)
      BY <1>1, <3>2 DEF Drained
    <3>3. CASE w # ctx.wrthread /\ (Idle \/ td[ctx.wrthread].sync)
      <4>1. ctx' = ctx /\ td'[ctx'.wrthread] = td[ctx.wrthread]
        BY <1>5, <2>3, <3>3
      <4>2. Idle => Idle'
        BY <4>1 DEF Idle
      <4> QED BY <3>3, <4>1, <4>2 DEF Drained
    <3> QED BY <1>0, <2>3, <3>1, <3>2, <3>3 DEF DrainInv, Drained
  <2>4. ~ Running => ctx' = ctx
    BY <1>4 DEF Running
  <2> QED BY <1>0, <1>4, <2>1, <2>2, <2>3, <2>4 DEF DrainInv
<1>7. ASSUME NEW u \in Threads, call'[u].op = "sync"
      PROVE  /\ call[u].op = "sync" /\ call'[u].owed = call[u].owed
             /\ td[ctx.wrthread].sync => td'[ctx'.wrthread].sync \/ Accounted' \subseteq taken'
  <2>1. u \in Users
    BY <1>0, <1>7 DEF UserInv, Proper, Users, Inner
  <2>2. Running
    BY <1>0, <2>1, HeldRuns
  <2> QED BY <1>1, <1>5, <1>7, <2>2
<1>8. KeptInv'
  BY <1>0, <1>7, KeptKeeps
<1> QED BY <1>3, <1>6, <1>8 DEF BalancedInv

LEMMA WriterBalanced ==
    ASSUME LogInv, BalancedInv, NEW w \in Writers, Writer(w)
    PROVE  BalancedInv'
<1>0. /\ ctx \in Context /\ td \in Table /\ td[w] \in ThreadData /\ Shape(w) /\ DrainInv
      /\ w # 0
  BY DEF LogInv, LogType, ThreadInv, Table, BalancedInv, Writers
<1>1. td[w].pc \in {"open", "top", "woken", "rotate", "rings", "ring", "thru", "write"}
  BY DEF Writer, WOpen, WTop, WWake, WRotate, WRings, WRing, WThru, WWrite
<1>2. td[w].terminate <=> w # ctx.wrthread
  BY <1>1, ToldToStop
<1>3. td[w].terminate => td[w].ring = 0 /\ td[w].msg = 0
  BY <1>0 DEF DrainInv
<1>4. w = ctx.wrthread => PassInv(ctx, td[w])
  BY <1>0 DEF DrainInv, Running
<1>5. td[w].pc \in {"open", "top", "woken", "rotate", "rings", "thru"}
      => td[w].ring = 0 /\ td[w].msg = 0
  BY <1>0 DEF Shape
<1>6. UNCHANGED <<call, held, global, flushed>>
  BY DEF Writer, WOpen, WTop, WWake, WRotate, WRings, WRing, WThru, WWrite, userVars, histVars
\* Only flags and the place of the write thread change.
<1>7. ASSUME NEW x \in ThreadData, td' = [td EXCEPT ![w] = x], x.ring = td[w].ring,
             x.msg = td[w].msg, x.terminate => td[w].terminate,
             td[w].sync => x.sync \/ w # ctx.wrthread,
             UNCHANGED <<ctx, taken, dangling>>, w = ctx.wrthread => PassInv(ctx, x)
      PROVE  BalancedInv'
  <2>1. Saves
    BY <1>6, <1>7, WriterSaves
  <2>2. w = ctx.wrthread /\ Idle => Idle'
    BY <1>0, <1>7 DEF Idle, Table
  <2>3. x.terminate => x.ring = 0 /\ x.msg = 0
    BY <1>3, <1>7
  <2> QED BY <1>6, <1>7, <2>1, <2>2, <2>3, WriterKeeps
<1>8. ASSUME StartPass(w), UNCHANGED <<ctx, taken, dangling>>
      PROVE  BalancedInv'
  <2> DEFINE x == [td[w] EXCEPT !.didwork = FALSE,
                                !.pc = IF td[w].rotate THEN "rotate" ELSE "rings"]
  <2>1. td' = [td EXCEPT ![w] = x]
    BY <1>0, <1>8 DEF StartPass, Table
  <2>2. /\ x \in ThreadData /\ x.ring = td[w].ring /\ x.msg = td[w].msg
        /\ x.terminate = td[w].terminate /\ x.sync = td[w].sync /\ x.pc \in {"rotate", "rings"}
    BY <1>0 DEF ThreadData, WriterPc
  <2> HIDE DEF x
  <2>3. PassInv(ctx, x)
    BY <2>2 DEF PassInv
  <2> QED BY <1>7, <1>8, <2>1, <2>2, <2>3
<1>9. CASE WOpen(w)
  <2>0. PICK ok \in BOOLEAN :
           td' = [td EXCEPT ![w].pc = "top", ![w].logfd = ok, ![w].didwork = TRUE]
    BY <1>9, LogAssumption DEF WOpen
  <2>1. td' = [td EXCEPT ![w] = [td[w] EXCEPT !.pc = "top", !.logfd = ok, !.didwork = TRUE]]
    BY <1>0, <2>0 DEF Table
  <2> DEFINE x == [td[w] EXCEPT !.pc = "top", !.logfd = ok, !.didwork = TRUE]
  <2>2. /\ x \in ThreadData /\ x.ring = td[w].ring /\ x.msg = td[w].msg
        /\ x.terminate = td[w].terminate /\ x.sync = td[w].sync /\ x.didwork
    BY <1>0 DEF ThreadData, WriterPc
  <2> HIDE DEF x
  <2>3. PassInv(ctx, x)
    BY <2>2 DEF PassInv
  <2> QED BY <1>7, <1>9, <2>1, <2>2, <2>3 DEF WOpen, histVars, x
<1>10. CASE WTop(w)
  <2>1. UNCHANGED <<ctx, taken, dangling>> /\ td[w].ring = 0 /\ td[w].msg = 0
    BY <1>5, <1>10 DEF WTop, histVars
  <2>2. CASE StartPass(w)
    BY <1>8, <2>1, <2>2
  <2>3. CASE td[w].terminate /\ td' = [td EXCEPT ![w] = [NewWriter EXCEPT !.pc = "done"]]
    <3> DEFINE x == [NewWriter EXCEPT !.pc = "done"]
    <3>1. x \in ThreadData /\ x.pc = "done" /\ x.ring = 0 /\ x.msg = 0
      BY DoneType
    <3> HIDE DEF x
    <3>2. td' = [td EXCEPT ![w] = x]
      BY <2>3 DEF x
    <3> QED BY <1>2, <1>7, <2>1, <2>3, <3>1, <3>2
  \* The end of a pass that has found nothing: whoever waits for a sync is told.
  <2>4. CASE /\ ~ td[w].terminate /\ ~ td[w].didwork
             /\ td' = [td EXCEPT ![w].pc = "wait", ![w].sync = FALSE]
    <3> DEFINE x == [td[w] EXCEPT !.pc = "wait", !.sync = FALSE]
    <3>1. td' = [td EXCEPT ![w] = x]
      BY <1>0, <2>4 DEF Table
    <3>2. /\ x \in ThreadData /\ x.ring = td[w].ring /\ x.msg = td[w].msg
          /\ x.terminate = td[w].terminate /\ x.pc = "wait"
      BY <1>0 DEF ThreadData, WriterPc
    <3> HIDE DEF x
    <3>3. w = ctx.wrthread /\ ctx.lockqp = <<>> /\ ctx.wrthru = <<>>
      BY <1>2, <1>4, <1>10, <2>4 DEF PassInv, WTop
    <3>4. td'[w] = x /\ \A v \in Writers \ {w} : td'[v] = td[v]
      BY <1>0, <3>1 DEF Table
    <3>5. Idle /\ Idle'
      BY <2>1, <3>2, <3>3, <3>4 DEF Idle
    <3>6. InFlight(ctx, td) = {}
      BY <1>0, <3>5, NothingInFlight
    <3>7. InFlight(ctx, td)' = {}
      <4>1. Carried(td') = Carried(td)
        <5>1. \A v \in Writers : td'[v].msg = td[v].msg
          BY <3>2, <3>4
        <5> QED BY <5>1 DEF Carried
      <4>2. Hand' = Hand
        BY <2>1, <3>2, <3>3, <3>4 DEF Hand, HandOf
      <4>3. /\ InFlight(ctx, td) = Stored(ctx, Hand) \cup Carried(td)
            /\ InFlight(ctx, td)' = Stored(ctx', Hand') \cup Carried(td')
        BY InFlightIs DEF Hand
      <4> QED BY <2>1, <3>6, <4>1, <4>2, <4>3
    <3>8. Accounted' \subseteq taken'
      BY <3>7 DEF Accounted
    <3>9. Saves
      BY <1>6, <2>1, <3>1, <3>2, WriterSaves
    <3>10. PassInv(ctx', x)
      BY <3>2 DEF PassInv
    <3> QED BY <1>6, <2>1, <2>4, <3>1, <3>2, <3>3, <3>5, <3>8, <3>9, <3>10, WriterKeeps
  <2>5. td[w].didwork \in BOOLEAN /\ td[w].terminate \in BOOLEAN
    BY <1>0 DEF ThreadData
  <2> QED BY <1>10, <2>2, <2>3, <2>4, <2>5 DEF WTop
<1>11. CASE WWake(w)
  BY <1>8, <1>11 DEF WWake, histVars
<1>12. CASE WRotate(w)
  <2>1. td[w].logfd \in BOOLEAN
    BY <1>0 DEF ThreadData
  <2>2. PICK ok \in BOOLEAN :
           td' = [td EXCEPT ![w].pc = "rings", ![w].logfd = ok,
                            ![w].rotate = FALSE, ![w].didwork = TRUE]
    BY <1>12, <2>1 DEF WRotate
  <2> DEFINE x == [td[w] EXCEPT !.pc = "rings", !.logfd = ok, !.rotate = FALSE, !.didwork = TRUE]
  <2>3. /\ x \in ThreadData /\ x.ring = td[w].ring /\ x.msg = td[w].msg
        /\ x.terminate = td[w].terminate /\ x.sync = td[w].sync /\ x.didwork
    BY <1>0 DEF ThreadData, WriterPc
  <2>4. td' = [td EXCEPT ![w] = x]
    BY <1>0, <2>2 DEF Table
  <2> HIDE DEF x
  <2>5. PassInv(ctx, x)
    BY <2>3 DEF PassInv
  <2> QED BY <1>7, <1>12, <2>3, <2>4, <2>5 DEF WRotate, histVars
<1>13. ASSUME NEW p \in WriterPc, Goto(w, p), UNCHANGED <<ctx, taken, dangling>>,
              w = ctx.wrthread => (p = "thru" => ctx.lockqp = <<>>)
                                  /\ (p = "top" /\ ~ td[w].didwork => ctx.lockqp = <<>>
                                                                     /\ ctx.wrthru = <<>>)
       PROVE  BalancedInv'
  <2> DEFINE x == [td[w] EXCEPT !.pc = p]
  <2>1. td' = [td EXCEPT ![w] = x]
    BY <1>0, <1>13 DEF Goto, Table
  <2>2. /\ x \in ThreadData /\ x.ring = td[w].ring /\ x.msg = td[w].msg
        /\ x.terminate = td[w].terminate /\ x.sync = td[w].sync /\ x.pc = p
        /\ x.didwork = td[w].didwork
    BY <1>0 DEF ThreadData
  <2> HIDE DEF x
  <2>3. w = ctx.wrthread => PassInv(ctx, x)
    BY <1>13, <2>2 DEF PassInv
  <2> QED BY <1>7, <1>13, <2>1, <2>2, <2>3
<1>14. "thru" \in WriterPc /\ "top" \in WriterPc
  BY DEF WriterPc
<1>15. CASE WRings(w)
  <2>1. /\ td[w].ring = 0 /\ td[w].msg = 0 /\ UNCHANGED <<taken, dangling>>
    BY <1>5, <1>15 DEF WRings, histVars
  <2>2. CASE /\ ~ td[w].terminate /\ ctx.lockqp # <<>>
             /\ td' = [td EXCEPT ![w].ring = Head(ctx.lockqp), ![w].pc = "ring"]
             /\ ctx' = [ctx EXCEPT !.lockqp = Tail(@)]
    <3>1. ctx.lockqp \in Seq(Rings)
      BY <1>0 DEF Context
    <3>2. /\ Head(ctx.lockqp) \in Rings
          /\ \A r \in Elems(ctx.lockqp) : r = Head(ctx.lockqp) \/ r \in Elems(Tail(ctx.lockqp))
      BY <2>2, <3>1, ElemsSeq
    <3>3. Head(ctx.lockqp) \in 0..NumRings /\ Head(ctx.lockqp) # 0
      BY <3>2, LogAssumption DEF Rings
    <3> DEFINE x == [td[w] EXCEPT !.ring = Head(ctx.lockqp), !.pc = "ring"]
    <3>4. td' = [td EXCEPT ![w] = x]
      BY <1>0, <2>2 DEF Table
    <3>5. /\ x \in ThreadData /\ x.ring = Head(ctx.lockqp) /\ x.msg = 0
          /\ x.terminate = td[w].terminate /\ x.pc = "ring" /\ x.sync = td[w].sync
      BY <1>0, <2>1, <3>3 DEF ThreadData, WriterPc
    <3> HIDE DEF x
    <3>6. /\ ctx'.wrthru = ctx.wrthru /\ ctx'.rings = ctx.rings
          /\ ctx'.lockqp = Tail(ctx.lockqp) /\ ctx'.wrthread = ctx.wrthread
          /\ ctx'.init_count = ctx.init_count
      BY <1>0, <2>2 DEF Context
    <3>7. \A m \in Stored(ctx, td[w].ring) : m \in Stored(ctx', x.ring)
      BY <2>1, <3>2, <3>3, <3>5, <3>6 DEF Stored
    <3>8. Saves
      BY <1>2, <1>6, <2>1, <2>2, <3>4, <3>5, <3>6, <3>7, WriterSaves
    <3>9. PassInv(ctx', x) /\ ~ Idle
      BY <2>2, <3>5 DEF PassInv, Idle
    <3> QED BY <1>2, <1>6, <2>1, <2>2, <3>4, <3>5, <3>6, <3>8, <3>9, WriterKeeps
  <2>3. CASE ~ (~ td[w].terminate /\ ctx.lockqp # <<>>) /\ Goto(w, "thru") /\ UNCHANGED ctx
    BY <1>2, <1>13, <1>14, <2>1, <2>3
  <2> QED BY <1>15, <2>2, <2>3 DEF WRings
<1>16. CASE WRing(w)
  <2> DEFINE r == td[w].ring
  <2>1. /\ r # 0 /\ r \in Rings /\ UNCHANGED taken /\ td[w].msg = 0
        /\ ~ td[w].terminate /\ w = ctx.wrthread
    <3>1. r \in 0..NumRings /\ r # 0 /\ td[w].msg = 0
      BY <1>0, <1>16 DEF WRing, Shape, ThreadData
    <3> QED BY <1>2, <1>3, <1>16, <3>1, LogAssumption DEF WRing, Rings
  <2>2. ctx.rings \in [Rings -> Seq(Message)] /\ ctx.rings[r] \in Seq(Message)
    BY <1>0, <2>1 DEF Context
  <2>3. ~ Idle
    BY <2>1 DEF Idle
  <2>4. CASE /\ ctx.rings[r] # <<>>
             /\ td' = [td EXCEPT ![w].msg = Head(ctx.rings[r]), ![w].pc = "write"]
             /\ ctx' = [ctx EXCEPT !.rings[r] = Tail(@)] /\ UNCHANGED dangling
    <3>1. /\ Head(ctx.rings[r]) \in Message
          /\ \A m \in Elems(ctx.rings[r]) : m = Head(ctx.rings[r]) \/ m \in Elems(Tail(ctx.rings[r]))
      BY <2>2, <2>4, ElemsSeq
    <3>2. /\ ctx'.rings = [ctx.rings EXCEPT ![r] = Tail(ctx.rings[r])] /\ ctx'.wrthru = ctx.wrthru
          /\ ctx'.lockqp = ctx.lockqp /\ ctx'.wrthread = ctx.wrthread
          /\ ctx'.init_count = ctx.init_count
      BY <1>0, <2>1, <2>4 DEF Context
    <3> DEFINE x == [td[w] EXCEPT !.msg = Head(ctx.rings[r]), !.pc = "write"]
    <3>3. td' = [td EXCEPT ![w] = x]
      BY <1>0, <2>4 DEF Table
    <3>4. /\ x \in ThreadData /\ x.ring = r /\ x.msg = Head(ctx.rings[r]) /\ x.msg # 0
          /\ x.terminate = td[w].terminate /\ x.pc = "write" /\ x.sync = td[w].sync
      BY <1>0, <3>1 DEF ThreadData, WriterPc, Message
    <3> HIDE DEF x
    <3>5. \A m \in Stored(ctx, r) : m \in Stored(ctx', x.ring) \/ m = x.msg
      <4>1. Elems(ctx.lockqp) \subseteq Rings
        BY <1>0, ElemsSeq DEF Context
      <4>2. \A q \in Rings : \A m \in Elems(ctx.rings[q]) : m \in Elems(ctx'.rings[q]) \/ m = x.msg
        BY <2>1, <2>2, <3>1, <3>2, <3>4
      <4> HIDE DEF r
      <4>3. ASSUME NEW q \in Elems(ctx.lockqp), NEW m \in Elems(ctx.rings[q])
            PROVE  m \in Stored(ctx', x.ring) \/ m = x.msg
        BY <3>2, <4>1, <4>2 DEF Stored
      <4>4. ASSUME NEW m \in Elems(ctx.rings[r])
            PROVE  m \in Stored(ctx', x.ring) \/ m = x.msg
        BY <2>1, <3>4, <4>2 DEF Stored
      <4>5. \A m \in Elems(ctx.wrthru) : m \in Stored(ctx', x.ring)
        BY <3>2 DEF Stored
      <4> QED BY <2>1, <4>3, <4>4, <4>5 DEF Stored
    <3>6. Saves
      BY <1>6, <2>1, <3>2, <3>3, <3>4, <3>5, WriterSaves
    <3>7. PassInv(ctx', x)
      BY <3>4 DEF PassInv
    <3>8. dangling' = dangling /\ taken \subseteq taken' /\ ~ x.terminate
      BY <2>1, <2>4, <3>4
    <3> HIDE DEF r
    <3> QED BY <1>6, <2>1, <2>3, <3>2, <3>3, <3>4, <3>6, <3>7, <3>8, WriterKeeps
  <2>5. CASE /\ ctx.rings[r] = <<>>
             /\ td' = [td EXCEPT ![w].ring = 0, ![w].pc = "rings", ![w].didwork = TRUE]
             /\ ctx' = [ctx EXCEPT !.idleqp = Append(@, r)] /\ UNCHANGED dangling
    <3> DEFINE x == [td[w] EXCEPT !.ring = 0, !.pc = "rings", !.didwork = TRUE]
    <3>1. /\ x \in ThreadData /\ x.ring = 0 /\ x.msg = 0
          /\ x.terminate = td[w].terminate /\ x.pc = "rings" /\ x.sync = td[w].sync
      <4>1. 0 \in 0..NumRings
        BY LogAssumption
      <4> HIDE DEF r
      <4> QED BY <1>0, <2>1, <4>1 DEF ThreadData, WriterPc
    <3>2. td' = [td EXCEPT ![w] = x]
      BY <1>0, <2>5 DEF Table
    <3> HIDE DEF x
    <3>3. /\ ctx'.wrthru = ctx.wrthru /\ ctx'.rings = ctx.rings
          /\ ctx'.lockqp = ctx.lockqp /\ ctx'.wrthread = ctx.wrthread
          /\ ctx'.init_count = ctx.init_count
      BY <1>0, <2>5 DEF Context
    <3>4. Elems(ctx.rings[r]) = {}
      BY <2>5 DEF Elems
    <3>5. \A m \in Stored(ctx, r) : m \in Stored(ctx', x.ring)
      BY <2>1, <3>1, <3>3, <3>4 DEF Stored
    <3>6. Saves
      BY <1>6, <2>1, <3>1, <3>2, <3>3, <3>5, WriterSaves
    <3>7. PassInv(ctx', x)
      BY <3>1 DEF PassInv
    <3>8. dangling' = dangling /\ taken \subseteq taken' /\ ~ x.terminate
      BY <2>1, <2>5, <3>1
    <3> HIDE DEF r
    <3> QED BY <1>6, <2>1, <2>3, <3>1, <3>2, <3>3, <3>6, <3>7, <3>8, WriterKeeps
  <2> QED BY <1>16, <2>1, <2>4, <2>5 DEF WRing
<1>17. CASE WThru(w)
  <2>1. /\ td[w].ring = 0 /\ td[w].msg = 0 /\ UNCHANGED <<taken, dangling>>
    BY <1>5, <1>17 DEF WThru, histVars
  <2>2. CASE /\ ~ td[w].terminate /\ ctx.wrthru # <<>>
             /\ td' = [td EXCEPT ![w].msg = Head(ctx.wrthru), ![w].pc = "write"]
             /\ ctx' = [ctx EXCEPT !.wrthru = Tail(@)]
    <3>1. ctx.wrthru \in Seq(Message)
      BY <1>0 DEF Context
    <3>2. /\ Head(ctx.wrthru) \in Message
          /\ \A m \in Elems(ctx.wrthru) : m = Head(ctx.wrthru) \/ m \in Elems(Tail(ctx.wrthru))
      BY <2>2, <3>1, ElemsSeq
    <3>3. /\ ctx'.wrthru = Tail(ctx.wrthru) /\ ctx'.rings = ctx.rings
          /\ ctx'.lockqp = ctx.lockqp /\ ctx'.wrthread = ctx.wrthread
          /\ ctx'.init_count = ctx.init_count
      BY <1>0, <2>2 DEF Context
    <3> DEFINE x == [td[w] EXCEPT !.msg = Head(ctx.wrthru), !.pc = "write"]
    <3>4. td' = [td EXCEPT ![w] = x]
      BY <1>0, <2>2 DEF Table
    <3>5. /\ x \in ThreadData /\ x.ring = 0 /\ x.msg = Head(ctx.wrthru) /\ x.msg # 0
          /\ x.terminate = td[w].terminate /\ x.pc = "write" /\ x.sync = td[w].sync
      BY <1>0, <2>1, <3>2 DEF ThreadData, WriterPc, Message
    <3> HIDE DEF x
    <3>6. \A m \in Stored(ctx, td[w].ring) : m \in Stored(ctx', x.ring) \/ m = x.msg
      BY <2>1, <3>2, <3>3, <3>5 DEF Stored
    <3>7. Saves
      BY <1>2, <1>6, <2>1, <2>2, <3>3, <3>4, <3>5, <3>6, WriterSaves
    <3>8. PassInv(ctx', x) /\ ~ Idle
      BY <2>2, <3>5 DEF PassInv, Idle
    <3> QED BY <1>2, <1>6, <2>1, <2>2, <3>3, <3>4, <3>5, <3>7, <3>8, WriterKeeps
  <2>3. CASE ~ (~ td[w].terminate /\ ctx.wrthru # <<>>) /\ Goto(w, "top") /\ UNCHANGED ctx
    <3>1. w = ctx.wrthread /\ ~ td[w].didwork => ctx.lockqp = <<>> /\ ctx.wrthru = <<>>
      BY <1>2, <1>4, <1>17, <2>3 DEF PassInv, WThru
    <3> QED BY <1>13, <1>14, <2>1, <2>3, <3>1
  <2> QED BY <1>17, <2>2, <2>3 DEF WThru
<1>18. CASE WWrite(w)
  <2> DEFINE x == [td[w] EXCEPT !.msg = 0, !.pc = IF td[w].ring # 0 THEN "ring" ELSE "thru",
                                !.didwork = IF td[w].ring # 0 THEN @ ELSE TRUE]
  <2>1. td' = [td EXCEPT ![w] = x]
    BY <1>0, <1>18 DEF WWrite, Table
  <2>2. /\ x \in ThreadData /\ x.ring = td[w].ring /\ x.msg = 0
        /\ x.terminate = td[w].terminate /\ x.sync = td[w].sync
        /\ x.pc = (IF td[w].ring # 0 THEN "ring" ELSE "thru")
        /\ td[w].ring = 0 => x.didwork
    BY <1>0 DEF ThreadData, WriterPc
  <2> HIDE DEF x
  <2>3. UNCHANGED <<ctx, dangling>> /\ taken' = taken \cup {td[w].msg}
    BY <1>18 DEF WWrite
  <2>4. td[w].msg # 0
    BY <1>0, <1>18 DEF WWrite, Shape
  <2>5. Saves
    BY <1>6, <2>1, <2>2, <2>3, WriterSaves
  <2>6. PassInv(ctx', x)
    BY <2>2 DEF PassInv
  <2>7. w = ctx.wrthread => ~ Idle
    BY <2>4 DEF Idle
  <2> QED BY <1>3, <1>6, <2>1, <2>2, <2>3, <2>5, <2>6, <2>7, WriterKeeps
<1> QED BY <1>9, <1>10, <1>11, <1>12, <1>15, <1>16, <1>17, <1>18 DEF Writer

-----------------------------------------------------------------------------
(* When pmlog_sync_ctx returns                                             *)

\* A call of pmlog_sync_ctx waits in _mtx_sync until it returns.
SyncInv == nforks \in Nat /\ \A t \in Threads : call[t].op = "sync" => call[t].stage = "sync"

\* The thread t, and no other, goes on with its call, or returns.
OnlyCall(t) == /\ nforks' = nforks
               /\ \E x : /\ call' = [call EXCEPT ![t] = x]
                         /\ x.op = "sync" => x.stage = "sync"

LEMMA OtherCalls ==
    ASSUME NEW t \in Threads, NEW c \in CallRec, c.op # "sync",
           \/ Deliver(t, c) \/ UseActive(t, c) \/ MtxInit(t, c)
           \/ \E force \in BOOLEAN : MtxTerm(t, c, force)
    PROVE  OnlyCall(t)
<1>1. nforks' = nforks
  BY DEF Deliver, UseActive, MtxInit, MtxTerm, histVars
<1>2. ASSUME NEW d \in CallRec, d.op = c.op, NEW s, Sleep(t, d, s)
      PROVE  OnlyCall(t)
  <2> DEFINE x == [d EXCEPT !.stage = s]
  <2>1. x.op = d.op
    BY DEF CallRec
  <2>2. call' = [call EXCEPT ![t] = x]
    BY <1>2 DEF Sleep
  <2> HIDE DEF x
  <2> QED BY <1>1, <1>2, <2>1, <2>2 DEF OnlyCall
<1>3. CASE Return(t)
  BY <1>1, <1>3, NoCallType DEF Return, OnlyCall
<1>4. CASE Deliver(t, c)
  <2>1. [c EXCEPT !.arg = "thru"] \in CallRec /\ [c EXCEPT !.arg = "thru"].op = c.op
    BY DEF CallRec, CallArgs
  <2> QED BY <1>2, <1>3, <1>4, <2>1 DEF Deliver
<1>5. CASE UseActive(t, c)
  BY <1>2, <1>3, <1>5 DEF UseActive
<1>6. CASE MtxInit(t, c)
  BY <1>2, <1>3, <1>6 DEF MtxInit
<1>7. ASSUME NEW force \in BOOLEAN, MtxTerm(t, c, force)
      PROVE  OnlyCall(t)
  <2> DEFINE x == [c EXCEPT !.stage = "join", !.join = ctx.wrthread]
             y == [c EXCEPT !.stage = "join"]
  <2>1. x.op = c.op /\ y.op = c.op
    BY DEF CallRec
  <2>2. \/ call' = [call EXCEPT ![t] = x]
        \/ call' = [call EXCEPT ![t] = y]
    BY <1>7 DEF MtxTerm
  <2> HIDE DEF x, y
  <2> QED BY <1>1, <2>1, <2>2 DEF OnlyCall
<1> QED BY <1>4, <1>5, <1>6, <1>7

LEMMA CallTouches ==
    ASSUME LogInv, NEW t \in Threads, Call(t)
    PROVE  OnlyCall(t) \/ UNCHANGED <<call, nforks>>
<1>1. ASSUME NEW op \in CallOps, NEW a \in CallArgs
      PROVE  Entered(t, op, a) \in CallRec /\ Entered(t, op, a).op = op
  BY EnteredType
<1>2. ASSUME NEW d \in CallRec, NEW s, s = "sync" \/ d.op # "sync", Sleep(t, d, s), nforks' = nforks
      PROVE  OnlyCall(t)
  <2> DEFINE x == [d EXCEPT !.stage = s]
  <2>1. x.op = d.op /\ x.stage = s
    BY DEF CallRec
  <2>2. call' = [call EXCEPT ![t] = x]
    BY <1>2 DEF Sleep
  <2> HIDE DEF x
  <2> QED BY <1>2, <2>1, <2>2 DEF OnlyCall
<1>3. "none" \in CallArgs /\ {"level", "init", "flush", "clear", "rotate", "message"} \subseteq CallOps
  BY DEF CallArgs, CallOps, Inner
<1>4. CASE CallSync(t)
  <2>1. PICK op \in Syncing : \E a \in Args(op) :
           /\ nforks' = nforks
           /\ \/ Sleep(t, Entered(t, op, a), "sync")
              \/ /\ op \in {"term", "term_all", "disable"}
                 /\ call' = [call EXCEPT ![t] = [Entered(t, op, a) EXCEPT !.stage = "join"]]
              \/ call' = [call EXCEPT ![t] = NoCall]
    BY <1>4 DEF CallSync, histVars
  <2>2. op \in CallOps /\ Args(op) \subseteq CallArgs
    <3>1. op \in CallOps
      BY DEF Syncing, CallOps, Inner
    <3>2. Args(op) \subseteq CallArgs
      BY DEF Args, CallArgs, Syncing
    <3> QED BY <3>1, <3>2
  <2>3. PICK a \in CallArgs :
           /\ nforks' = nforks
           /\ \/ Sleep(t, Entered(t, op, a), "sync")
              \/ /\ op \in {"term", "term_all", "disable"}
                 /\ call' = [call EXCEPT ![t] = [Entered(t, op, a) EXCEPT !.stage = "join"]]
              \/ call' = [call EXCEPT ![t] = NoCall]
    BY <2>1, <2>2
  <2> DEFINE c == Entered(t, op, a)
  <2>4. c \in CallRec /\ c.op = op
    BY <1>1, <2>2
  <2> HIDE DEF c
  <2>5. CASE Sleep(t, c, "sync")
    BY <1>2, <2>3, <2>4, <2>5
  <2>6. CASE /\ op \in {"term", "term_all", "disable"}
             /\ call' = [call EXCEPT ![t] = [c EXCEPT !.stage = "join"]]
    <3> DEFINE x == [c EXCEPT !.stage = "join"]
    <3>1. x.op = op /\ op # "sync" /\ call' = [call EXCEPT ![t] = x]
      BY <2>4, <2>6 DEF CallRec
    <3> HIDE DEF x
    <3> QED BY <2>3, <3>1 DEF OnlyCall
  <2>7. CASE call' = [call EXCEPT ![t] = NoCall]
    BY <2>3, <2>7, NoCallType DEF OnlyCall
  <2> QED BY <2>3, <2>5, <2>6, <2>7 DEF c
<1>5. CASE CallLevel(t)
  <2>1. PICK D \in -1..2, T \in -1..3 :
           LET c == [Entered(t, "level", "none") EXCEPT !.level = [D |-> D, T |-> T]]
           IN  (Sleep(t, c, "sync") /\ nforks' = nforks) \/ AfterSync(t, c)
    BY <1>5 DEF CallLevel, histVars
  <2> DEFINE e == Entered(t, "level", "none")
             c == [e EXCEPT !.level = [D |-> D, T |-> T]]
  <2>2. e \in CallRec /\ e.op = "level"
    BY <1>1, <1>3
  <2>3. (Sleep(t, c, "sync") /\ nforks' = nforks) \/ AfterSync(t, c)
    BY <2>1
  <2> HIDE DEF e
  <2>4. c \in CallRec /\ c.op = "level"
    <3>1. [D |-> D, T |-> T] \in [D : Int, T : Int]
      OBVIOUS
    <3> QED BY <2>2, <3>1 DEF CallRec
  <2> HIDE DEF c
  <2>5. AfterSync(t, c) => Return(t) /\ nforks' = nforks
    BY <2>4 DEF AfterSync, histVars
  <2> QED BY <1>2, <2>3, <2>4, <2>5, NoCallType DEF OnlyCall, Return
<1>6. CASE CallInit(t)
  BY <1>1, <1>3, <1>6, OtherCalls DEF CallInit
<1>7. CASE CallMessage(t)
  <2>1. PICK k \in Kinds :
           \/ Deliver(t, Entered(t, "message", IF k = "verbose" THEN "ring" ELSE k))
           \/ MtxInit(t, Entered(t, "message", IF k = "verbose" THEN "ring" ELSE k))
    BY <1>7 DEF CallMessage
  <2> DEFINE a == IF k = "verbose" THEN "ring" ELSE k
             c == Entered(t, "message", a)
  <2>2. a \in CallArgs
    BY LogAssumption DEF CallArgs
  <2> HIDE DEF a
  <2>3. c \in CallRec /\ c.op = "message"
    BY <1>1, <1>3, <2>2
  <2> HIDE DEF c
  <2>4. Deliver(t, c) \/ MtxInit(t, c)
    BY <2>1 DEF a, c
  <2> QED BY <2>3, <2>4, OtherCalls
<1>8. CASE CallRing(t)
  <2>1. PICK op \in {"flush", "clear"} : UseActive(t, Entered(t, op, "none"))
    BY <1>8 DEF CallRing
  <2>2. Entered(t, op, "none") \in CallRec /\ Entered(t, op, "none").op = op
    BY <1>1, <1>3
  <2> QED BY <2>1, <2>2, OtherCalls
<1>9. CASE CallRotate(t)
  <2>1. Sleep(t, Entered(t, "rotate", "none"), "rotate") /\ nforks' = nforks
    BY <1>9 DEF CallRotate, histVars
  <2> QED BY <1>1, <1>2, <1>3, <2>1
<1>10. CASE CallEnable(t)
  BY <1>10 DEF CallEnable, histVars
<1> QED BY <1>4, <1>5, <1>6, <1>7, <1>8, <1>9, <1>10 DEF Call

LEMMA ResumeTouches ==
    ASSUME LogInv, UserInv, SyncInv, NEW t \in Threads, Resume(t)
    PROVE  \/ OnlyCall(t) \/ UNCHANGED <<call, nforks>>
           \/ ForkChild(t)
<1>0. call[t] \in CallRec /\ (call[t].op = "sync" => call[t].stage = "sync")
  BY DEF UserInv, SyncInv
<1>1. ASSUME Return(t), nforks' = nforks PROVE OnlyCall(t)
  BY <1>1, NoCallType DEF OnlyCall, Return
<1>2. CASE ResumeSync(t)
  <2>1. CASE AfterSync(t, call[t])
    <3>1. ASSUME call[t].op # "sync", call[t].op # "fork"
          PROVE  OnlyCall(t)
      BY <1>0, <1>1, <2>1, <3>1, OtherCalls DEF AfterSync, histVars
    <3>2. ASSUME call[t].op = "sync" PROVE OnlyCall(t)
      BY <1>1, <2>1, <3>2 DEF AfterSync, histVars
    <3>3. ASSUME call[t].op = "fork" PROVE OnlyCall(t) \/ ForkChild(t)
      BY <1>1, <2>1, <3>3 DEF AfterSync, ForkParent, histVars
    <3> QED BY <3>1, <3>2, <3>3
  <2> QED BY <1>2, <2>1 DEF ResumeSync, histVars
<1>3. CASE ResumeRing(t)
  <2>1. call[t].op # "sync"
    BY <1>0, <1>3 DEF ResumeRing
  <2> QED BY <1>0, <1>1, <1>3, <2>1, OtherCalls DEF ResumeRing
<1>4. CASE ResumeRotate(t)
  BY <1>1, <1>4 DEF ResumeRotate
<1>5. CASE Join(t)
  BY <1>1, <1>5 DEF Join, histVars
<1> QED BY <1>2, <1>3, <1>4, <1>5 DEF Resume

LEMMA SyncNext ==
    ASSUME LogInv, UserInv, SyncInv, [Next]_vars
    PROVE  SyncInv'
<1>1. ASSUME UNCHANGED <<call, nforks>> PROVE SyncInv'
  BY <1>1 DEF SyncInv
<1>2. ASSUME NEW t \in Threads, OnlyCall(t) PROVE SyncInv'
  <2>1. PICK x : call' = [call EXCEPT ![t] = x] /\ (x.op = "sync" => x.stage = "sync")
    BY <1>2 DEF OnlyCall
  <2>2. call'[t] = x /\ \A u \in Threads \ {t} : call'[u] = call[u]
    BY <2>1 DEF UserInv
  <2> QED BY <1>2, <2>1, <2>2 DEF SyncInv, OnlyCall
<1>3. ASSUME NEW t \in Threads, ForkChild(t) PROVE SyncInv'
  <2>1. nforks' \in Nat
    <3>1. nforks' = nforks + 1
      BY <1>3, Zenon DEF ForkChild
    <3> QED BY <3>1 DEF SyncInv
  <2> DEFINE x == [call[t] EXCEPT !.op = "child", !.stage = "sync"]
  <2>2. x.op = "child"
    BY DEF UserInv, CallRec
  <2>3. call' = [u \in Threads |-> IF u = t THEN x ELSE NoCall]
    BY <1>3 DEF ForkChild
  <2> HIDE DEF x
  <2> QED BY <2>1, <2>2, <2>3, NoCallType DEF SyncInv
<1>4. ASSUME NEW w \in Writers, Writer(w) PROVE UNCHANGED <<call, nforks>>
  BY <1>4 DEF Writer, WOpen, WTop, WWake, WRotate, WRings, WRing, WThru, WWrite, userVars, histVars
<1>5. CASE UNCHANGED vars
  BY <1>1, <1>5 DEF vars
<1>6. ASSUME NEW t \in Threads, Call(t) \/ Resume(t) PROVE SyncInv'
  BY <1>1, <1>2, <1>3, <1>6, CallTouches, ResumeTouches
<1> QED BY <1>1, <1>4, <1>5, <1>6 DEF Next

-----------------------------------------------------------------------------
(* The theorems about balanced use                                         *)

LEMMA BalancedInit == Init => BalancedInv /\ SyncInv
<1> SUFFICES ASSUME Init PROVE BalancedInv /\ SyncInv
  OBVIOUS
<1>1. /\ ctx = Freed /\ ctx.init_count = 0 /\ ctx.wrthread = 0 /\ ctx.lockqp = <<>>
      /\ ctx.wrthru = <<>>
  BY DEF Init, Freed
<1>2. call \in [Threads -> CallRec] /\ \A t \in Threads : call[t] = NoCall
  BY NoCallType DEF Init
<1>3. UserInv
  <2>1. \A t \in Threads : Proper(t, call[t], held) /\ ~ Stopping(t)
    BY <1>2, NoCallType DEF Proper, Stopping, Waits, Inner
  <2>2. Users = {}
    BY <1>2, NoCallType DEF Users, Waits, Init
  <2>3. Cardinality(Users) = 0
    BY <2>2, FS_EmptySet
  <2> QED BY <1>1, <1>2, <2>1, <2>3 DEF UserInv
<1>4. DrainInv
  <2>1. \A v \in Writers : ~ td[v].terminate
    BY DEF Init, NoWriter, NewWriter
  <2> QED BY <1>1, <2>1 DEF Init, DrainInv, Running
<1>5. KeptInv /\ SyncInv
  BY <1>2, NoCallType DEF Init, KeptInv, SyncInv
<1> QED BY <1>3, <1>4, <1>5 DEF BalancedInv

LEMMA BalancedNext ==
    ASSUME Balanced, LogInv, BalancedInv, [Next]_vars
    PROVE  BalancedInv'
<1>1. CASE Next
  BY <1>1, CallBalanced, ResumeBalanced, WriterBalanced DEF Next
<1>2. CASE UNCHANGED vars
  BY <1>2, NothingChanges DEF vars
<1> QED BY <1>1, <1>2

\* Users that log between their own pmlog_init and pmlog_term, in any number
\* and with any functions, forks included, never make the log use a freed ring
\* or queue, or a null pointer: the last pmlog_term has waited until the write
\* thread had nothing in its hands (_mtx_sync before _mtx_pmlog_term).
THEOREM NeverDangling ==
    ASSUME Balanced PROVE Spec => []NoDangling
<1>1. BalancedInv => NoDangling
  BY DEF BalancedInv, DrainInv, NoDangling
<1>2. LogInv /\ BalancedInv /\ [Next]_vars => LogInv' /\ BalancedInv'
  BY LogNext, BalancedNext
<1>3. Init => LogInv /\ BalancedInv
  BY LogInit, BalancedInit
<1> QED BY <1>1, <1>2, <1>3, PTL DEF Spec

\* Under balanced use no message that was flushed is dropped, neither by the
\* rings that move between the queues nor by _mtx_pmlog_term: it is in a locked
\* ring, in the write-through ring or in the hands of the write thread, or the
\* write thread has dealt with it.  (At a fork, what the child starts with.)
THEOREM FlushedNeverLost ==
    ASSUME Balanced PROVE Spec => []FlushedNotLost
<1>1. BalancedInv => FlushedNotLost
  BY DEF BalancedInv, KeptInv, Accounted, FlushedNotLost
<1>2. LogInv /\ BalancedInv /\ [Next]_vars => LogInv' /\ BalancedInv'
  BY LogNext, BalancedNext
<1>3. Init => LogInv /\ BalancedInv
  BY LogInit, BalancedInit
<1> QED BY <1>1, <1>2, <1>3, PTL DEF Spec

\* Under balanced use pmlog_sync_ctx returns only when the write thread has
\* dealt with everything that had been flushed when it was called, whatever
\* the other threads log in the meantime.
THEOREM SyncAlwaysWrites ==
    ASSUME Balanced PROVE Spec => SyncMeansWritten
<1> DEFINE I == LogInv /\ BalancedInv /\ SyncInv
<1>1. Init => I
  BY LogInit, BalancedInit
<1>2. I /\ [Next]_vars => I'
  BY LogNext, BalancedNext, SyncNext DEF BalancedInv
<1>3. I /\ [Next]_vars
      => [\A t \in Threads : call[t].op = "sync" /\ call'[t] = NoCall /\ nforks' = nforks
             => call[t].owed \subseteq taken]_vars
  <2> SUFFICES ASSUME LogInv, BalancedInv, SyncInv, Next, NEW t \in Threads, call[t].op = "sync",
                      call'[t] = NoCall, nforks' = nforks
               PROVE  call[t].owed \subseteq taken
    OBVIOUS
  <2>1. /\ UserInv /\ KeptInv /\ call[t].stage = "sync" /\ call[t] # NoCall /\ call[t] # call'[t]
    BY NoCallType DEF BalancedInv, SyncInv
  <2>2. Running
    <3>1. t \in Users
      BY <2>1 DEF UserInv, Proper, Users, Inner
    <3> QED BY <2>1, <3>1, HeldRuns
  <2>3. ASSUME NEW w \in Writers, Writer(w) PROVE UNCHANGED call
    BY <2>3 DEF Writer, WOpen, WTop, WWake, WRotate, WRings, WRing, WThru, WWrite, userVars
  <2>4. ASSUME NEW u \in Threads, ForkChild(u) PROVE FALSE
    <3>1. nforks' = nforks + 1
      BY <2>4, Zenon DEF ForkChild
    <3> QED BY <3>1 DEF SyncInv
  <2>5. ASSUME NEW u \in Threads, OnlyCall(u) PROVE u = t
    BY <2>1, <2>5 DEF OnlyCall, UserInv
  <2>6. ASSUME NEW u \in Threads, Call(u) PROVE FALSE
    <3>1. CASE u = t
      <4>1. call[u] = NoCall
        BY <2>6 DEF Call, CallSync, CallLevel, CallInit, CallMessage, CallRing, CallRotate,
                    CallEnable, MayCall
      <4> QED BY <2>1, <3>1, <4>1
    <3>2. CASE u # t
      BY <2>1, <2>5, <2>6, <3>2, CallTouches
    <3> QED BY <3>1, <3>2
  <2>7. Resume(t)
    BY <2>1, <2>3, <2>4, <2>5, <2>6, ResumeTouches DEF Next
  <2>8. ~ td[ctx.wrthread].sync
    BY <2>1, <2>2, <2>7 DEF Resume, ResumeSync, ResumeRing, ResumeRotate, Join
  <2> QED BY <2>1, <2>8 DEF KeptInv
<1> QED BY <1>1, <1>2, <1>3, PTL DEF Spec, SyncMeansWritten

=============================================================================
