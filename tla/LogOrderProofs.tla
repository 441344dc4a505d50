---------------------------- MODULE LogOrderProofs ----------------------------
(***************************************************************************)
(* The order of the log file, and the wakeups of its threads, for users    *)
(* that log between their own init and their own term: the messages of the *)
(* rings, and those of the write-through ring, are written in the order in *)
(* which they were sent; and nobody sleeps when the write thread does.     *)
(***************************************************************************)
EXTENDS LogProofs

\* A ring holds its messages in the order in which they were sent.
Rises(s) == \A i, j \in DOMAIN s : i < j => s[i] < s[j]
\* Everything in S was sent before everything in T.
Below(S, T) == \A m \in S, n \in T : m < n
\* The messages of a kind.
Of(k, s) == {m \in 1..Len(s) : s[m] = k}

\* The messages in the ring r; there is no ring 0.
In(c, r) == IF r = 0 THEN {} ELSE Elems(c.rings[r])

\* The rings between the idle queue and the log file hold their messages in the
\* order in which they were sent: that in the hands of the write thread the
\* oldest, the locked ones in the order of the queue, the active ring the newest.
Queued(c, hand, s) ==
    /\ \A r \in Rings : Rises(c.rings[r]) /\ Elems(c.rings[r]) \subseteq Of("ring", s)
    /\ \A r \in Elems(c.idleqp) : In(c, r) = {}
    /\ \A i \in DOMAIN c.lockqp :
          /\ \A j \in DOMAIN c.lockqp : i < j => Below(In(c, c.lockqp[i]), In(c, c.lockqp[j]))
          /\ Below(In(c, c.lockqp[i]), In(c, c.activering))
          /\ Below(In(c, hand), In(c, c.lockqp[i]))
    /\ Below(In(c, hand), In(c, c.activering))
    /\ Rises(c.wrthru) /\ Elems(c.wrthru) \subseteq Of("thru", s)

\* What is still to be written from the rings.
Pending(c, hand) ==
    (UNION {In(c, r) : r \in Elems(c.lockqp)}) \cup In(c, hand) \cup In(c, c.activering)

\* The list l of messages is in order, and older than what is still to be
\* written.
Past(l, c, hand, s) ==
    /\ \A i \in DOMAIN l : l[i] \in 1..Len(s)
    /\ \A i, j \in DOMAIN l : i < j /\ s[l[i]] = s[l[j]] => l[i] < l[j]
    /\ \A i \in DOMAIN l :
          /\ s[l[i]] = "ring" => Below({l[i]}, Pending(c, hand))
          /\ s[l[i]] = "thru" => Below({l[i]}, Elems(c.wrthru))

\* The log file, and the message that the write thread is writing.
MsgOf(c, f) == IF c.wrthread # 0 THEN f[c.wrthread].msg ELSE 0
\* The message that the writer writes, and the file with it.
Msg == MsgOf(ctx, td)
Spoken == IF Msg # 0 THEN Append(log, Msg) ELSE log

\* The file is in order, and what is still to be written is newer.
OrderInv ==
    /\ log \in Seq(Message)
    /\ Queued(ctx, Hand, sent)
    /\ Past(Spoken, ctx, Hand, sent)

-----------------------------------------------------------------------------
(* Lists in order                                                          *)

\* What the rings hold depends on the rings alone.
LEMMA InRing == ASSUME NEW c, NEW d, d.rings = c.rings PROVE \A r : In(d, r) = In(c, r)
BY DEF In

\* A newer message at the end of a ring.
LEMMA RisesAppend ==
    ASSUME NEW u \in Seq(Nat), Rises(u), NEW m \in Nat, \A x \in Elems(u) : x < m
    PROVE  Rises(Append(u, m)) /\ Elems(Append(u, m)) = Elems(u) \cup {m}
<1>1. /\ DOMAIN Append(u, m) = DOMAIN u \cup {Len(u) + 1} /\ DOMAIN u = 1..Len(u)
      /\ \A i \in DOMAIN u : Append(u, m)[i] = u[i] /\ u[i] \in Nat /\ u[i] < m
      /\ Append(u, m)[Len(u) + 1] = m
  BY DEF Elems
<1>2. ASSUME NEW i \in DOMAIN Append(u, m), NEW j \in DOMAIN Append(u, m), i < j
      PROVE  Append(u, m)[i] < Append(u, m)[j]
  <2>1. i \in DOMAIN u /\ i \in Nat /\ j \in Nat
    BY <1>1, <1>2
  <2>2. CASE j \in DOMAIN u
    BY <1>1, <1>2, <2>1, <2>2 DEF Rises
  <2>3. CASE j = Len(u) + 1
    BY <1>1, <2>1, <2>3
  <2> QED BY <1>1, <2>2, <2>3
<1>3. Elems(Append(u, m)) = Elems(u) \cup {m}
  BY ElemsSeq
<1> QED BY <1>2, <1>3 DEF Rises

\* The oldest message leaves the write-through ring.
LEMMA RisesTail ==
    ASSUME NEW u \in Seq(Nat), Rises(u), u # <<>>
    PROVE  /\ Tail(u) \in Seq(Nat) /\ Rises(Tail(u)) /\ Head(u) \in Nat
           /\ Elems(u) = Elems(Tail(u)) \cup {Head(u)}
           /\ Below({Head(u)}, Elems(Tail(u)))
<1>1. /\ \A i \in DOMAIN Tail(u) : /\ i + 1 \in DOMAIN u /\ Tail(u)[i] = u[i + 1]
                                   /\ i \in Nat /\ 1 < i + 1
      /\ 1 \in DOMAIN u /\ Head(u) = u[1]
  OBVIOUS
<1>2. ASSUME NEW i \in DOMAIN Tail(u), NEW j \in DOMAIN Tail(u), i < j
      PROVE  Tail(u)[i] < Tail(u)[j]
  <2>1. i + 1 < j + 1
    BY <1>1, <1>2
  <2> QED BY <1>1, <2>1 DEF Rises
<1>3. ASSUME NEW x \in Elems(Tail(u)) PROVE Head(u) < x
  <2>1. PICK i \in DOMAIN Tail(u) : x = Tail(u)[i]
    BY DEF Elems
  <2> QED BY <1>1, <2>1 DEF Rises
<1>4. Elems(u) = Elems(Tail(u)) \cup {Head(u)}
  BY ElemsSeq
<1> QED BY <1>2, <1>3, <1>4 DEF Rises, Below

\* _mtx_putmessage of a new message.
LEMMA RisesPut ==
    ASSUME NEW u \in Seq(Nat), Rises(u), NEW m \in Nat, \A x \in Elems(u) : x < m,
           Len(u) <= RingCap
    PROVE  Rises(PutMessage(u, m)) /\ Elems(PutMessage(u, m)) \subseteq Elems(u) \cup {m}
<1>1. CASE Len(u) >= RingCap
  <2>1. u # <<>>
    BY <1>1, LogAssumption
  <2>2. Tail(u) \in Seq(Nat) /\ Rises(Tail(u)) /\ Elems(Tail(u)) \subseteq Elems(u)
    BY <2>1, RisesTail
  <2>3. PutMessage(u, m) = Append(Tail(u), m)
    BY <1>1 DEF PutMessage
  <2> QED BY <2>2, <2>3, RisesAppend
<1>2. CASE ~ Len(u) >= RingCap
  BY <1>2, RisesAppend DEF PutMessage
<1> QED BY <1>1, <1>2

\* A longer list of what was sent, and then only newer messages to be written.
Longer(s, t) == Len(s) <= Len(t) /\ \A i \in 1..Len(s) : t[i] = s[i]

\* What is to be written is what was to be written, or newer than s.
Newer(c, h, s, d, g, t) ==
    /\ Longer(s, t)
    /\ \E N \in SUBSET Nat : /\ \A n \in N : Len(s) < n
                            /\ Pending(d, g) \subseteq Pending(c, h) \cup N
                            /\ Elems(d.wrthru) \subseteq Elems(c.wrthru) \cup N

\* From v to u: only newer messages come in.
Adds(v, u, s, t) ==
    /\ Rises(u) /\ Longer(s, t) /\ \A x : Of(x, s) \subseteq Of(x, t)
    /\ \A m \in Elems(u) : m \in Elems(v) \/ (m \in Of("ring", t) /\ Len(s) < m)

\* The active ring of c is u in d.
Puts(c, d, u) ==
    /\ d.rings = [c.rings EXCEPT ![c.activering] = u] /\ d.lockqp = c.lockqp
    /\ d.activering = c.activering /\ d.idleqp = c.idleqp /\ d.wrthru = c.wrthru

\* One message more was sent.
LEMMA OneMore ==
    ASSUME NEW s \in Seq(Sent), NEW k \in Sent
    PROVE  /\ Longer(s, Append(s, k)) /\ Len(s) + 1 \in Of(k, Append(s, k))
           /\ \A x : Of(x, s) \subseteq Of(x, Append(s, k))
<1>1. /\ Len(s) \in Nat /\ Len(Append(s, k)) = Len(s) + 1 /\ Append(s, k)[Len(s) + 1] = k
      /\ \A i \in 1..Len(s) : Append(s, k)[i] = s[i]
  OBVIOUS
<1> QED BY <1>1 DEF Longer, Of

-----------------------------------------------------------------------------
(* How the rings move, in order                                            *)

\* _mtx_getactivering takes an idle ring, which is empty; ...
LEMMA OrderActive ==
    ASSUME NEW c \in Context, NEW hand, NEW s, Queued(c, hand, s), ActiveAvailable(c)
    PROVE  /\ Queued(GetActiveRing(c), hand, s)
           /\ Pending(GetActiveRing(c), hand) \subseteq Pending(c, hand)
           /\ GetActiveRing(c).wrthru = c.wrthru
<1>1. CASE c.activering # 0
  BY <1>1 DEF GetActiveRing
<1>2. CASE c.activering = 0
  <2> DEFINE d == [c EXCEPT !.activering = Head(c.idleqp), !.idleqp = Tail(c.idleqp)]
  <2>1. /\ d.rings = c.rings /\ d.lockqp = c.lockqp /\ d.wrthru = c.wrthru
        /\ d.activering = Head(c.idleqp) /\ d.idleqp = Tail(c.idleqp)
        /\ c.idleqp \in Seq(Rings) /\ c.idleqp # <<>>
    BY <1>2 DEF Context, ActiveAvailable
  <2>2. GetActiveRing(c) = d
    BY <1>2 DEF GetActiveRing
  <2> HIDE DEF d
  <2>3. /\ \A r : In(d, r) = In(c, r)
        /\ Elems(c.idleqp) = Elems(d.idleqp) \cup {d.activering}
    BY <2>1, InRing, ElemsSeq
  <2>4. In(d, d.activering) = {}
    BY <2>3 DEF Queued
  <2>5. Queued(d, hand, s)
    BY <2>1, <2>3, <2>4 DEF Queued, Below
  <2>6. Pending(d, hand) \subseteq Pending(c, hand)
    BY <2>1, <2>3, <2>4 DEF Pending
  <2> QED BY <2>1, <2>2, <2>5, <2>6
<1> QED BY <1>1, <1>2

\* ... the active ring gets new contents, ...
LEMMA OrderPut ==
    ASSUME NEW c \in Context, NEW d, NEW hand \in 0..NumRings, NEW gone,
           NEW s \in Seq(Sent), NEW t, NEW u, Queued(c, hand, s), c.activering \in Rings,
           Placed(c.idleqp, c.lockqp, c.activering, hand, gone), Puts(c, d, u),
           Adds(c.rings[c.activering], u, s, t)
    PROVE  Queued(d, hand, t) /\ Newer(c, hand, s, d, hand, t)
<1> PICK N : N = {m \in Of("ring", t) : Len(s) < m}
  OBVIOUS
<1>a. /\ d.rings = [c.rings EXCEPT ![c.activering] = u] /\ d.lockqp = c.lockqp
      /\ d.activering = c.activering /\ d.idleqp = c.idleqp /\ d.wrthru = c.wrthru
  BY DEF Puts
<1>b. N \in SUBSET Nat /\ N \subseteq Of("ring", t)
  BY DEF Of
<1>c. \A n \in N : Len(s) < n
  OBVIOUS
<1>d. Elems(u) \subseteq Elems(c.rings[c.activering]) \cup N
  BY DEF Adds
<1>e. Rises(u) /\ Longer(s, t) /\ \A x : Of(x, s) \subseteq Of(x, t)
  BY DEF Adds
<1> DEFINE a == c.activering
<1>1. a # 0 /\ a # hand /\ a \notin Elems(c.lockqp) /\ a \notin Elems(c.idleqp)
  BY DEF Placed, Rings
<1>2. /\ c.rings \in [Rings -> Seq(Message)] /\ c.lockqp \in Seq(Rings) /\ c.idleqp \in Seq(Rings)
      /\ Elems(c.lockqp) \subseteq Rings /\ Elems(c.idleqp) \subseteq Rings
      /\ hand # 0 => hand \in Rings
  <2>1. c.rings \in [Rings -> Seq(Message)] /\ c.lockqp \in Seq(Rings) /\ c.idleqp \in Seq(Rings)
    BY DEF Context
  <2>2. Elems(c.lockqp) \subseteq Rings /\ Elems(c.idleqp) \subseteq Rings
    BY <2>1, ElemsSeq
  <2>3. hand # 0 => hand \in Rings
    BY LogAssumption DEF Rings
  <2> QED BY <2>1, <2>2, <2>3
<1>3. /\ \A r \in Rings : r # a => d.rings[r] = c.rings[r]
      /\ d.rings[a] = u
  BY <1>2, <1>a
<1>4. /\ \A r \in Elems(c.lockqp) : In(d, r) = In(c, r)
      /\ \A r \in Elems(c.idleqp) : In(d, r) = In(c, r)
      /\ In(d, hand) = In(c, hand)
      /\ In(d, a) \subseteq In(c, a) \cup N
  BY <1>1, <1>2, <1>3, <1>d DEF In
<1>5. \A i \in DOMAIN c.lockqp : c.lockqp[i] \in Elems(c.lockqp)
  BY DEF Elems
<1>6. ASSUME NEW r \in Rings, NEW m \in In(c, r) PROVE m \in Of("ring", s) /\ \A n \in N : m < n
  <2>1. m \in Of("ring", s)
    BY <1>6 DEF Queued, In
  <2>2. m \in 1..Len(s) /\ Len(s) \in Nat
    BY <2>1 DEF Of
  <2>3. \A n \in N : n \in Nat
    BY <1>b
  <2> QED BY <2>1, <2>2, <2>3, <1>c
<1>7. ASSUME NEW r \in Rings \cup {0}, Below(In(c, r), In(c, a)) PROVE Below(In(c, r), In(d, a))
  <2>1. CASE r = 0
    BY <2>1 DEF In, Below
  <2>2. CASE r \in Rings
    BY <1>4, <1>6, <1>7, <2>2 DEF Below
  <2> QED BY <2>1, <2>2
<1>8. ASSUME NEW r \in Rings
      PROVE  Rises(d.rings[r]) /\ Elems(d.rings[r]) \subseteq Of("ring", t)
  <2>1. Rises(c.rings[r]) /\ Elems(c.rings[r]) \subseteq Of("ring", t)
    BY <1>e DEF Queued
  <2> QED BY <1>3, <1>b, <1>d, <1>e, <2>1
<1>9. ASSUME NEW i \in DOMAIN c.lockqp
      PROVE  /\ \A j \in DOMAIN c.lockqp :
                   i < j => Below(In(d, c.lockqp[i]), In(d, c.lockqp[j]))
             /\ Below(In(d, c.lockqp[i]), In(d, a))
             /\ Below(In(d, hand), In(d, c.lockqp[i]))
  <2>1. /\ In(d, c.lockqp[i]) = In(c, c.lockqp[i]) /\ c.lockqp[i] \in Rings
        /\ \A j \in DOMAIN c.lockqp : In(d, c.lockqp[j]) = In(c, c.lockqp[j])
    BY <1>2, <1>4, <1>5
  <2> QED BY <1>4, <1>7, <1>a, <2>1 DEF Queued
<1>10. Below(In(d, hand), In(d, a))
  BY <1>2, <1>4, <1>7 DEF Queued
<1>11. \A r \in Elems(c.idleqp) : In(d, r) = {}
  BY <1>4 DEF Queued
<1>12. Rises(d.wrthru) /\ Elems(d.wrthru) \subseteq Of("thru", t)
  BY <1>a, <1>e DEF Queued
<1>13. Queued(d, hand, t)
  BY <1>8, <1>9, <1>10, <1>11, <1>12, <1>a DEF Queued
<1>14. Pending(d, hand) \subseteq Pending(c, hand) \cup N
  BY <1>4, <1>a DEF Pending
<1>15. Newer(c, hand, s, d, hand, t)
  BY <1>14, <1>a, <1>b, <1>c, <1>e DEF Newer
<1> QED BY <1>13, <1>15

\* ... _mtx_flushring makes it the last of the locked ones; ...
LEMMA OrderFlush ==
    ASSUME NEW c \in Context, NEW hand, NEW s, Queued(c, hand, s), c.activering \in Rings
    PROVE  /\ Queued(FlushRing(c), hand, s)
           /\ Pending(FlushRing(c), hand) = Pending(c, hand)
           /\ FlushRing(c).wrthru = c.wrthru
<1> DEFINE d == FlushRing(c)
           l == c.lockqp
           a == c.activering
<1>1. /\ d.rings = c.rings /\ d.lockqp = Append(l, a) /\ d.idleqp = c.idleqp
      /\ d.wrthru = c.wrthru /\ d.activering = 0 /\ l \in Seq(Rings)
  BY DEF FlushRing, Context
<1> HIDE DEF d
<1>2. /\ DOMAIN d.lockqp = DOMAIN l \cup {Len(l) + 1} /\ DOMAIN l = 1..Len(l) /\ Len(l) \in Nat
      /\ \A i \in DOMAIN l : d.lockqp[i] = l[i]
      /\ d.lockqp[Len(l) + 1] = a
      /\ Elems(d.lockqp) = Elems(l) \cup {a}
  BY <1>1, ElemsSeq
<1>3. (\A r : In(d, r) = In(c, r)) /\ In(d, 0) = {}
  BY <1>1, InRing DEF In
<1>4. ASSUME NEW i \in DOMAIN d.lockqp
      PROVE  /\ \A j \in DOMAIN d.lockqp :
                   i < j => Below(In(d, d.lockqp[i]), In(d, d.lockqp[j]))
             /\ Below(In(d, d.lockqp[i]), In(d, d.activering))
             /\ Below(In(d, hand), In(d, d.lockqp[i]))
  <2>1. ASSUME NEW j \in DOMAIN d.lockqp, i < j
        PROVE  Below(In(d, d.lockqp[i]), In(d, d.lockqp[j]))
    <3>1. i \in DOMAIN l
      BY <1>2, <2>1
    <3> QED BY <1>2, <1>3, <2>1, <3>1 DEF Queued
  <2>2. Below(In(d, hand), In(d, d.lockqp[i]))
    BY <1>2, <1>3 DEF Queued
  <2>3. Below(In(d, d.lockqp[i]), In(d, d.activering))
    BY <1>1, <1>3 DEF Below
  <2> QED BY <2>1, <2>2, <2>3
<1>5. Queued(d, hand, s)
  BY <1>1, <1>3, <1>4 DEF Queued, Below
<1>6. Pending(d, hand) = Pending(c, hand)
  BY <1>1, <1>2, <1>3 DEF Pending
<1> QED BY <1>1, <1>5, <1>6 DEF d

\* ... and the write thread pops the first of them, ...
LEMMA OrderLocked ==
    ASSUME NEW c, NEW d, NEW s, Queued(c, 0, s), c.lockqp \in Seq(Rings), c.lockqp # <<>>,
           d.rings = c.rings, d.lockqp = Tail(c.lockqp), d.activering = c.activering,
           d.idleqp = c.idleqp, d.wrthru = c.wrthru
    PROVE  /\ Queued(d, Head(c.lockqp), s)
           /\ Pending(d, Head(c.lockqp)) \subseteq Pending(c, 0)
<1> DEFINE l == c.lockqp
<1>1. /\ \A i \in DOMAIN d.lockqp : /\ i + 1 \in DOMAIN l /\ d.lockqp[i] = l[i + 1]
                                    /\ i \in Nat /\ 1 < i + 1
      /\ 1 \in DOMAIN l /\ Head(l) = l[1]
      /\ Elems(l) = Elems(d.lockqp) \cup {Head(l)}
  BY ElemsSeq
<1>2. (\A r : In(d, r) = In(c, r)) /\ In(c, 0) = {}
  BY InRing DEF In
<1>3. ASSUME NEW i \in DOMAIN d.lockqp
      PROVE  /\ \A j \in DOMAIN d.lockqp :
                   i < j => Below(In(d, d.lockqp[i]), In(d, d.lockqp[j]))
             /\ Below(In(d, d.lockqp[i]), In(d, d.activering))
             /\ Below(In(d, Head(l)), In(d, d.lockqp[i]))
  <2>1. ASSUME NEW j \in DOMAIN d.lockqp, i < j
        PROVE  Below(In(d, d.lockqp[i]), In(d, d.lockqp[j]))
    <3>1. i + 1 < j + 1 /\ i + 1 \in DOMAIN l /\ j + 1 \in DOMAIN l
      BY <1>1, <2>1
    <3> QED BY <1>1, <1>2, <3>1 DEF Queued
  <2> QED BY <1>1, <1>2, <2>1 DEF Queued
<1>4. Below(In(d, Head(l)), In(d, d.activering))
  BY <1>1, <1>2 DEF Queued
<1>5. Queued(d, Head(l), s)
  BY <1>2, <1>3, <1>4 DEF Queued
<1>6. Pending(d, Head(l)) \subseteq Pending(c, 0)
  BY <1>1, <1>2 DEF Pending
<1> QED BY <1>5, <1>6

\* ... takes its messages one by one, ...
LEMMA OrderPop ==
    ASSUME NEW c \in Context, NEW d, NEW hand \in Rings, NEW gone, NEW s, Queued(c, hand, s),
           Placed(c.idleqp, c.lockqp, c.activering, hand, gone), c.rings[hand] # <<>>,
           d.rings = [c.rings EXCEPT ![hand] = Tail(@)], d.lockqp = c.lockqp,
           d.activering = c.activering, d.idleqp = c.idleqp, d.wrthru = c.wrthru
    PROVE  LET m == Head(c.rings[hand])
           IN  /\ Queued(d, hand, s) /\ Pending(d, hand) \subseteq Pending(c, hand)
               /\ m \in Of("ring", s) /\ m \in Pending(c, hand)
               /\ Below({m}, Pending(d, hand))
<1> DEFINE m == Head(c.rings[hand])
           a == c.activering
<1>1. /\ hand # 0 /\ a # hand /\ hand \notin Elems(c.lockqp) /\ hand \notin Elems(c.idleqp)
      /\ a \in Rings \cup {0}
  BY LogAssumption DEF Placed, Rings, Context
<1>2. /\ c.rings \in [Rings -> Seq(Message)] /\ c.lockqp \in Seq(Rings) /\ c.idleqp \in Seq(Rings)
  BY DEF Context
<1>3. Elems(c.lockqp) \subseteq Rings /\ Elems(c.idleqp) \subseteq Rings
  BY <1>2, ElemsSeq
<1>4. /\ \A r \in Rings : r # hand => d.rings[r] = c.rings[r]
      /\ d.rings[hand] = Tail(c.rings[hand])
  BY <1>2
<1>5. /\ Rises(Tail(c.rings[hand])) /\ Below({m}, Elems(Tail(c.rings[hand])))
      /\ Elems(c.rings[hand]) = Elems(Tail(c.rings[hand])) \cup {m}
  <2>1. c.rings[hand] \in Seq(Nat) /\ Rises(c.rings[hand])
    BY <1>2 DEF Message, Queued
  <2> QED BY <2>1, RisesTail
<1>6. /\ \A r \in Elems(c.lockqp) : In(d, r) = In(c, r)
      /\ \A r \in Elems(c.idleqp) : In(d, r) = In(c, r)
      /\ In(d, a) = In(c, a)
      /\ In(c, hand) = In(d, hand) \cup {m}
      /\ Below({m}, In(d, hand))
  BY <1>1, <1>3, <1>4, <1>5 DEF In
<1>7. \A i \in DOMAIN c.lockqp : c.lockqp[i] \in Elems(c.lockqp)
  BY DEF Elems
<1> HIDE DEF m
<1>8. ASSUME NEW r \in Rings
      PROVE  Rises(d.rings[r]) /\ Elems(d.rings[r]) \subseteq Of("ring", s)
  <2>1. Rises(c.rings[r]) /\ Elems(c.rings[r]) \subseteq Of("ring", s)
    BY DEF Queued
  <2> QED BY <1>4, <1>5, <2>1
<1>9. ASSUME NEW i \in DOMAIN c.lockqp
      PROVE  /\ \A j \in DOMAIN c.lockqp :
                   i < j => Below(In(d, c.lockqp[i]), In(d, c.lockqp[j]))
             /\ Below(In(d, c.lockqp[i]), In(d, a))
             /\ Below(In(d, hand), In(d, c.lockqp[i]))
             /\ Below({m}, In(d, c.lockqp[i]))
  <2>1. \A j \in DOMAIN c.lockqp : In(d, c.lockqp[j]) = In(c, c.lockqp[j])
    BY <1>6, <1>7
  <2> QED BY <1>6, <2>1 DEF Queued, Below
<1>10. Below(In(d, hand), In(d, a)) /\ Below({m}, In(d, a))
  BY <1>6 DEF Queued, Below
<1>11. \A r \in Elems(c.idleqp) : In(d, r) = {}
  BY <1>6 DEF Queued
<1>12. Rises(d.wrthru) /\ Elems(d.wrthru) \subseteq Of("thru", s)
  BY DEF Queued
<1>13. Queued(d, hand, s)
  BY <1>8, <1>9, <1>10, <1>11, <1>12 DEF Queued
<1>14. Pending(d, hand) \subseteq Pending(c, hand) /\ m \in Pending(c, hand)
  BY <1>6 DEF Pending
<1>15. m \in Of("ring", s)
  BY <1>5 DEF Queued
<1>16. Below({m}, Pending(d, hand))
  <2>1. ASSUME NEW n \in Pending(d, hand) PROVE m < n
    <3>1. CASE n \in In(d, hand) \cup In(d, a)
      BY <1>6, <1>10, <3>1 DEF Below
    <3>2. CASE n \notin In(d, hand) \cup In(d, a)
      <4>1. PICK i \in DOMAIN c.lockqp : n \in In(d, c.lockqp[i])
        BY <3>2, <2>1 DEF Pending, Elems
      <4> QED BY <1>9, <4>1 DEF Below
    <3> QED BY <3>1, <3>2
  <2> QED BY <2>1 DEF Below
<1> QED BY <1>13, <1>14, <1>15, <1>16 DEF m

\* ... and gives the empty ring back.
LEMMA OrderGive ==
    ASSUME NEW c, NEW d, NEW hand \in Rings, NEW s, Queued(c, hand, s),
           c.rings[hand] = <<>>, c.idleqp \in Seq(Rings),
           d.rings = c.rings, d.lockqp = c.lockqp, d.activering = c.activering,
           d.idleqp = Append(c.idleqp, hand), d.wrthru = c.wrthru
    PROVE  Queued(d, 0, s) /\ Pending(d, 0) \subseteq Pending(c, hand)
<1>1. Elems(d.idleqp) = Elems(c.idleqp) \cup {hand}
  BY ElemsSeq
<1>2. (\A r : In(d, r) = In(c, r)) /\ In(c, 0) = {}
  BY InRing DEF In
<1>3. In(c, hand) = {}
  BY LogAssumption DEF In, Elems, Rings
<1>4. Queued(d, 0, s)
  BY <1>1, <1>2, <1>3 DEF Queued, Below
<1>5. Pending(d, 0) \subseteq Pending(c, hand)
  BY <1>2 DEF Pending
<1> QED BY <1>4, <1>5

\* A fork takes the ring of the write thread away.
LEMMA OrderLose ==
    ASSUME NEW c, NEW hand, NEW s, Queued(c, hand, s)
    PROVE  Queued(c, 0, s) /\ Pending(c, 0) \subseteq Pending(c, hand)
BY DEF Queued, Pending, Below, In

\* The write-through ring.
LEMMA OrderThru ==
    ASSUME NEW c \in Context, NEW d, NEW hand, NEW s \in Seq(Sent), Queued(c, hand, s),
           d.rings = c.rings, d.lockqp = c.lockqp, d.activering = c.activering,
           d.idleqp = c.idleqp, d.wrthru = Append(c.wrthru, Len(s) + 1)
    PROVE  /\ Queued(d, hand, Append(s, "thru")) /\ Pending(d, hand) = Pending(c, hand)
           /\ Elems(d.wrthru) = Elems(c.wrthru) \cup {Len(s) + 1}
<1> DEFINE m == Len(s) + 1
           t == Append(s, "thru")
<1>1. \A r : In(d, r) = In(c, r)
  BY InRing
<1>2. m \in Of("thru", t) /\ (\A x : Of(x, s) \subseteq Of(x, t)) /\ m \in Nat
  BY OneMore DEF Sent
<1>3. c.wrthru \in Seq(Nat) /\ Rises(c.wrthru) /\ \A x \in Elems(c.wrthru) : x < m
  BY DEF Context, Message, Queued, Of
<1> HIDE DEF m, t
<1>4. Rises(d.wrthru) /\ Elems(d.wrthru) = Elems(c.wrthru) \cup {m}
  BY <1>2, <1>3, RisesAppend DEF m
<1>5. Elems(d.wrthru) \subseteq Of("thru", t)
  BY <1>2, <1>4 DEF Queued
<1>6. \A r \in Rings : Rises(d.rings[r]) /\ Elems(d.rings[r]) \subseteq Of("ring", t)
  BY <1>2 DEF Queued
<1>7. Queued(d, hand, t)
  BY <1>1, <1>4, <1>5, <1>6 DEF Queued
<1>8. Pending(d, hand) = Pending(c, hand)
  BY <1>1 DEF Pending
<1> QED BY <1>4, <1>7, <1>8 DEF m, t

\* The writer takes a message from the write-through ring.
LEMMA OrderThruPop ==
    ASSUME NEW c \in Context, NEW d, NEW hand, NEW s, Queued(c, hand, s), c.wrthru # <<>>,
           d.rings = c.rings, d.lockqp = c.lockqp, d.activering = c.activering,
           d.idleqp = c.idleqp, d.wrthru = Tail(c.wrthru)
    PROVE  LET m == Head(c.wrthru)
           IN  /\ Queued(d, hand, s) /\ Pending(d, hand) = Pending(c, hand)
               /\ Elems(d.wrthru) \subseteq Elems(c.wrthru)
               /\ m \in Of("thru", s) /\ m \in Elems(c.wrthru)
               /\ Below({m}, Elems(d.wrthru))
<1> DEFINE m == Head(c.wrthru)
<1>1. \A r : In(d, r) = In(c, r)
  BY InRing
<1>2. /\ Rises(d.wrthru) /\ Elems(c.wrthru) = Elems(d.wrthru) \cup {m}
      /\ Below({m}, Elems(d.wrthru))
  <2>1. c.wrthru \in Seq(Nat) /\ Rises(c.wrthru)
    BY DEF Context, Message, Queued
  <2> QED BY <2>1, RisesTail
<1> HIDE DEF m
<1>3. Queued(d, hand, s)
  BY <1>1, <1>2 DEF Queued
<1>4. Pending(d, hand) = Pending(c, hand)
  BY <1>1 DEF Pending
<1>5. m \in Of("thru", s)
  BY <1>2 DEF Queued
<1> QED BY <1>2, <1>3, <1>4, <1>5 DEF m

-----------------------------------------------------------------------------
(* The log file keeps its order                                            *)

\* Only newer messages come to be written.
LEMMA PastKeeps ==
    ASSUME NEW l, NEW c, NEW d, NEW h, NEW g, NEW s \in Seq(Sent), NEW t \in Seq(Sent),
           Past(l, c, h, s), Newer(c, h, s, d, g, t)
    PROVE  Past(l, d, g, t)
<1> PICK N \in SUBSET Nat : /\ \A n \in N : Len(s) < n
                            /\ Pending(d, g) \subseteq Pending(c, h) \cup N
                            /\ Elems(d.wrthru) \subseteq Elems(c.wrthru) \cup N
  BY DEF Newer
<1>1. Len(s) \in Nat /\ Len(t) \in Nat /\ Len(s) <= Len(t) /\ \A i \in 1..Len(s) : t[i] = s[i]
  BY DEF Longer, Newer
<1>2. \A i \in DOMAIN l : l[i] \in 1..Len(s) /\ l[i] \in 1..Len(t) /\ t[l[i]] = s[l[i]]
  BY <1>1 DEF Past
<1>3. ASSUME NEW i \in DOMAIN l
      PROVE  /\ t[l[i]] = "ring" => Below({l[i]}, Pending(d, g))
             /\ t[l[i]] = "thru" => Below({l[i]}, Elems(d.wrthru))
  <2>1. \A n \in N : l[i] < n
    <3> SUFFICES ASSUME NEW n \in N PROVE l[i] < n
      OBVIOUS
    <3>1. l[i] \in 1..Len(s)
      BY <1>2, Zenon
    <3>2. n \in Nat /\ Len(s) < n
      OBVIOUS
    <3> QED BY <1>1, <3>1, <3>2
  <2>2. /\ s[l[i]] = "ring" => Below({l[i]}, Pending(c, h))
        /\ s[l[i]] = "thru" => Below({l[i]}, Elems(c.wrthru))
    BY DEF Past
  <2>3. t[l[i]] = "ring" => Below({l[i]}, Pending(d, g))
    BY <1>2, <2>1, <2>2 DEF Below
  <2>4. t[l[i]] = "thru" => Below({l[i]}, Elems(d.wrthru))
    BY <1>2, <2>1, <2>2 DEF Below
  <2> QED BY <2>3, <2>4
<1>4. ASSUME NEW i \in DOMAIN l, NEW j \in DOMAIN l, i < j, t[l[i]] = t[l[j]]
      PROVE  l[i] < l[j]
  <2>1. s[l[i]] = s[l[j]]
    BY <1>2, <1>4
  <2> QED BY <1>4, <2>1 DEF Past
<1> QED BY <1>2, <1>3, <1>4 DEF Past

\* The write thread takes the oldest message of its kind.
LEMMA PastMore ==
    ASSUME NEW l \in Seq(Nat), NEW c, NEW d, NEW h, NEW g, NEW s \in Seq(Sent), Past(l, c, h, s),
           Pending(d, g) \subseteq Pending(c, h), Elems(d.wrthru) \subseteq Elems(c.wrthru),
           NEW m \in 1..Len(s),
           s[m] = "ring" => m \in Pending(c, h) /\ Below({m}, Pending(d, g)),
           s[m] = "thru" => m \in Elems(c.wrthru) /\ Below({m}, Elems(d.wrthru))
    PROVE  Past(Append(l, m), d, g, s)
<1> DEFINE k == Append(l, m)
<1>1. /\ DOMAIN k = DOMAIN l \cup {Len(l) + 1} /\ DOMAIN l = 1..Len(l) /\ Len(l) \in Nat
      /\ \A i \in DOMAIN l : k[i] = l[i]
      /\ k[Len(l) + 1] = m
  BY SMT
<1> HIDE DEF k
<1>2. \A i \in DOMAIN k : k[i] \in 1..Len(s)
  BY <1>1 DEF Past
<1>3. ASSUME NEW i \in DOMAIN k, NEW j \in DOMAIN k, i < j, s[k[i]] = s[k[j]]
      PROVE  k[i] < k[j]
  <2>1. i \in DOMAIN l /\ k[i] = l[i]
    BY <1>1, <1>3
  <2>2. CASE j \in DOMAIN l
    BY <1>1, <1>3, <2>1, <2>2 DEF Past
  <2>3. CASE j = Len(l) + 1
    <3>1. k[j] = m /\ s[m] \in Sent
      BY <1>1, <2>3
    <3>2. CASE s[m] = "ring"
      <4>1. Below({l[i]}, Pending(c, h)) /\ m \in Pending(c, h)
        BY <1>3, <2>1, <3>1, <3>2 DEF Past
      <4> QED BY <2>1, <3>1, <4>1 DEF Below
    <3>3. CASE s[m] = "thru"
      <4>1. Below({l[i]}, Elems(c.wrthru)) /\ m \in Elems(c.wrthru)
        BY <1>3, <2>1, <3>1, <3>3 DEF Past
      <4> QED BY <2>1, <3>1, <4>1 DEF Below
    <3> QED BY <3>1, <3>2, <3>3 DEF Sent
  <2> QED BY <1>1, <2>2, <2>3
<1>4. ASSUME NEW i \in DOMAIN k
      PROVE  /\ s[k[i]] = "ring" => Below({k[i]}, Pending(d, g))
             /\ s[k[i]] = "thru" => Below({k[i]}, Elems(d.wrthru))
  <2>1. CASE i \in DOMAIN l
    <3>1. k[i] = l[i]
      BY <1>1, <2>1
    <3>2. /\ s[l[i]] = "ring" => Below({l[i]}, Pending(c, h))
          /\ s[l[i]] = "thru" => Below({l[i]}, Elems(c.wrthru))
      BY <2>1 DEF Past
    <3> QED BY <3>1, <3>2 DEF Below
  <2>2. CASE i = Len(l) + 1
    BY <1>1, <2>2
  <2> QED BY <1>1, <2>1, <2>2
<1>5. Past(k, d, g, s)
  BY <1>2, <1>3, <1>4 DEF Past
<1> QED BY <1>5 DEF k

\* The file without its last message.
LEMMA PastLess ==
    ASSUME NEW l \in Seq(Nat), NEW m \in Nat, NEW c, NEW h, NEW s, Past(Append(l, m), c, h, s)
    PROVE  Past(l, c, h, s)
<1> DEFINE k == Append(l, m)
<1>1. \A i \in DOMAIN l : k[i] = l[i] /\ i \in DOMAIN k
  BY SMT
<1>2. Past(k, c, h, s)
  OBVIOUS
<1> HIDE DEF k
<1> QED BY <1>1, <1>2 DEF Past

-----------------------------------------------------------------------------
(* The steps of the users, for the order                                   *)

\* A step of a user that only sends newer messages.
Sends == /\ sent' \in Seq(Sent) /\ Queued(ctx', Hand, sent')
         /\ Newer(ctx, Hand, sent, ctx', Hand, sent')

\* A step that leaves the writer alone leaves its ring and its message alone.
LEMMA PlainHands ==
    ASSUME LogInv, Plain
    PROVE  Hand' = Hand /\ Msg' = Msg
<1>1. \A v \in Writers : td'[v].msg = td[v].msg /\ td'[v].ring = td[v].ring
  BY DEF Plain, Pings
<1>2. ctx'.wrthread = ctx.wrthread /\ (Running => ctx.wrthread \in Writers)
  BY WriterType DEF LogInv, Plain, Shifts
<1> QED BY <1>1, <1>2 DEF Hand, HandOf, Msg, MsgOf, Running

\* Nothing older comes to be written.
LEMMA OrderKeeps ==
    ASSUME LogInv, OrderInv, log' \in Seq(Message), sent' \in Seq(Sent),
           Spoken' = Spoken \/ Spoken' = log,
           Queued(ctx', Hand', sent'), Newer(ctx, Hand, sent, ctx', Hand', sent')
    PROVE  OrderInv'
<1>1. sent \in Seq(Sent) /\ Past(Spoken, ctx, Hand, sent) /\ log \in Seq(Nat)
  BY DEF LogInv, LogType, OrderInv, Message
<1>2. Past(log, ctx, Hand, sent)
  <2>1. CASE Msg # 0
    <3>1. Spoken = Append(log, Msg)
      BY <2>1 DEF Spoken
    <3>2. Msg \in Nat
      <4>1. ctx.wrthread # 0 => ctx.wrthread \in Writers
        BY WriterType DEF LogInv, Running
      <4>2. td \in Table
        BY DEF LogInv, LogType
      <4> QED BY <4>1, <4>2 DEF Msg, MsgOf, Table, ThreadData
    <3>3. Past(Append(log, Msg), ctx, Hand, sent)
      BY <1>1, <3>1
    <3> QED BY <1>1, <3>2, <3>3, PastLess
  <2>2. CASE Msg = 0
    BY <1>1, <2>2 DEF Spoken
  <2> QED BY <2>1, <2>2
<1> DEFINE l == Spoken'
           d == ctx'
           g == Hand'
           t == sent'
<1>3. /\ Past(l, ctx, Hand, sent) /\ t \in Seq(Sent) /\ Newer(ctx, Hand, sent, d, g, t)
  BY <1>1, <1>2
<1> HIDE DEF l, d, g, t
<1>4. Past(l, d, g, t)
  BY <1>1, <1>3, PastKeeps
<1> QED BY <1>4 DEF OrderInv, l, d, g, t

\* A step that sends messages keeps the order.
LEMMA SendsKeeps ==
    ASSUME LogInv, OrderInv, Hand' = Hand, Msg' = Msg, Sends, log' = log
    PROVE  OrderInv'
<1>1. Spoken' = Spoken /\ log' \in Seq(Message)
  BY DEF Spoken, OrderInv
<1>2. /\ sent' \in Seq(Sent) /\ Queued(ctx', Hand', sent')
      /\ Newer(ctx, Hand, sent, ctx', Hand', sent')
  BY DEF Sends
<1> QED BY <1>1, <1>2, OrderKeeps

\* The context stays, or only its counters change.
LEMMA SameSends ==
    ASSUME LogInv, OrderInv, sent' = sent,
           ctx'.rings = ctx.rings, ctx'.idleqp = ctx.idleqp, ctx'.lockqp = ctx.lockqp,
           ctx'.activering = ctx.activering, ctx'.wrthru = ctx.wrthru
    PROVE  Sends
<1>1. Queued(ctx, Hand, sent) /\ sent \in Seq(Sent)
  BY DEF LogInv, LogType, OrderInv
<1> HIDE DEF Hand
<1> DEFINE d == ctx'
<1>2. /\ d.rings = ctx.rings /\ d.idleqp = ctx.idleqp /\ d.lockqp = ctx.lockqp
      /\ d.activering = ctx.activering /\ d.wrthru = ctx.wrthru
  OBVIOUS
<1> HIDE DEF d
<1>3. \A r : In(d, r) = In(ctx, r)
  BY <1>2, InRing
<1>4. Queued(d, Hand, sent)
  BY <1>1, <1>2, <1>3 DEF Queued
<1>5. Pending(d, Hand) = Pending(ctx, Hand)
  BY <1>2, <1>3 DEF Pending
<1>6. Longer(sent, sent)
  BY <1>1 DEF Longer
<1>7. {} \in SUBSET Nat
  OBVIOUS
<1> QED BY <1>1, <1>2, <1>4, <1>5, <1>6, <1>7 DEF Sends, Newer, d


\* Taking a new active ring keeps the order.
LEMMA ActiveNewer ==
    ASSUME NEW c \in Context, NEW hand, NEW s \in Seq(Sent), Queued(c, hand, s), ActiveAvailable(c)
    PROVE  Queued(GetActiveRing(c), hand, s) /\ Newer(c, hand, s, GetActiveRing(c), hand, s)
<1> DEFINE d == GetActiveRing(c)
<1>1. /\ Queued(d, hand, s) /\ Pending(d, hand) \subseteq Pending(c, hand)
      /\ d.wrthru = c.wrthru
  BY OrderActive
<1> HIDE DEF d
<1>2. {} \in SUBSET Nat /\ Longer(s, s)
  BY DEF Longer
<1>3. Newer(c, hand, s, d, hand, s)
  BY <1>1, <1>2 DEF Newer
<1> QED BY <1>1, <1>3 DEF d

\* Queueing the active ring keeps the order.
LEMMA FlushNewer ==
    ASSUME NEW c \in Context, NEW hand, NEW s \in Seq(Sent), Queued(c, hand, s),
           c.activering \in Rings
    PROVE  Queued(FlushRing(c), hand, s) /\ Newer(c, hand, s, FlushRing(c), hand, s)
<1> DEFINE d == FlushRing(c)
<1>1. /\ Queued(d, hand, s) /\ Pending(d, hand) = Pending(c, hand)
      /\ d.wrthru = c.wrthru
  BY OrderFlush
<1> HIDE DEF d
<1>2. {} \in SUBSET Nat /\ Longer(s, s)
  BY DEF Longer
<1>3. Newer(c, hand, s, d, hand, s)
  BY <1>1, <1>2 DEF Newer
<1> QED BY <1>1, <1>3 DEF d

\* Two changes after one another.
LEMMA NewerTwice ==
    ASSUME NEW c, NEW d, NEW e, NEW f, NEW g, NEW h, NEW s \in Seq(Sent), NEW t \in Seq(Sent),
           NEW u \in Seq(Sent), Newer(c, f, s, d, g, t), Newer(d, g, t, e, h, u)
    PROVE  Newer(c, f, s, e, h, u)
<1>1. PICK N \in SUBSET Nat : /\ \A n \in N : Len(s) < n
                              /\ Pending(d, g) \subseteq Pending(c, f) \cup N
                              /\ Elems(d.wrthru) \subseteq Elems(c.wrthru) \cup N
  BY DEF Newer
<1>2. PICK M \in SUBSET Nat : /\ \A n \in M : Len(t) < n
                              /\ Pending(e, h) \subseteq Pending(d, g) \cup M
                              /\ Elems(e.wrthru) \subseteq Elems(d.wrthru) \cup M
  BY DEF Newer
<1>3. Len(s) \in Nat /\ Len(t) \in Nat /\ Len(u) \in Nat
  OBVIOUS
<1>4. Longer(s, u) /\ Len(s) <= Len(t)
  BY <1>3 DEF Newer, Longer
<1>5. ASSUME NEW n \in N \cup M PROVE Len(s) < n
  <2>1. n \in Nat
    OBVIOUS
  <2>2. CASE n \in N
    BY <1>1, <2>2
  <2>3. CASE n \in M
    <3>1. Len(t) < n
      BY <1>2, <2>3
    <3> QED BY <1>3, <1>4, <2>1, <3>1
  <2> QED BY <2>2, <2>3
<1>6. /\ N \cup M \in SUBSET Nat
      /\ Pending(e, h) \subseteq Pending(c, f) \cup (N \cup M)
      /\ Elems(e.wrthru) \subseteq Elems(c.wrthru) \cup (N \cup M)
  BY <1>1, <1>2
<1> QED BY <1>4, <1>5, <1>6 DEF Newer

\* MESSAGE puts its message behind the ones before it.
LEMMA DeliverSends ==
    ASSUME LogInv, OrderInv, Running, NEW t \in Threads, NEW c, Deliver(t, c)
    PROVE  Sends
<1> DEFINE m == Len(sent) + 1
           a == GetActiveRing(ctx)
           put == [a EXCEPT !.rings[a.activering] = PutMessage(@, m)]
<1>0. /\ ctx \in Context /\ InBounds(ctx) /\ m \in Message /\ sent \in Seq(Sent)
      /\ Queued(ctx, Hand, sent) /\ LogType
  BY DEF LogInv, LogType, Message, OrderInv
<1>1. CASE UNCHANGED <<ctx, sent>>
  BY <1>1, SameSends
<1>2. CASE ctx' = [ctx EXCEPT !.wrthru = Append(@, m)] /\ sent' = Append(sent, "thru")
  <2> DEFINE d == ctx'
  <2>1. /\ d.wrthru = Append(ctx.wrthru, Len(sent) + 1) /\ d.rings = ctx.rings
        /\ d.lockqp = ctx.lockqp /\ d.activering = ctx.activering /\ d.idleqp = ctx.idleqp
    BY <1>0, <1>2 DEF Context
  <2> HIDE DEF d
  <2>2. /\ Queued(d, Hand, sent') /\ Pending(d, Hand) = Pending(ctx, Hand)
        /\ Elems(d.wrthru) = Elems(ctx.wrthru) \cup {m}
    BY <1>0, <1>2, <2>1, OrderThru
  <2>3. Longer(sent, sent') /\ sent' \in Seq(Sent)
    BY <1>0, <1>2, OneMore DEF Sent
  <2>4. {m} \in SUBSET Nat /\ \A n \in {m} : Len(sent) < n
    BY <1>0
  <2>5. Newer(ctx, Hand, sent, d, Hand, sent')
    BY <2>2, <2>3, <2>4 DEF Newer
  <2> QED BY <2>2, <2>3, <2>5 DEF Sends, d
<1>3. CASE /\ NumRings # 0 /\ ActiveAvailable(ctx)
           /\ ctx' = (IF c.arg = "flush" THEN FlushRing(put) ELSE put)
           /\ sent' = Append(sent, "ring")
  <2>1. /\ a \in Context /\ InBounds(a) /\ a.activering \in Rings /\ Moves(ctx, a)
        /\ Queued(a, Hand, sent) /\ Newer(ctx, Hand, sent, a, Hand, sent)
    BY <1>0, <1>3, ActiveMoves, ActiveNewer
  <2>2. Placed(a.idleqp, a.lockqp, a.activering, Hand, lost) /\ Hand \in 0..NumRings
    BY <2>1, HandType DEF Moves, Shifts
  <2> HIDE DEF a, m
  <2> DEFINE r == a.rings[a.activering]
             u == PutMessage(r, m)
             n == sent'
  <2>3. r \in Seq(Message) /\ Len(r) <= RingCap /\ r \in Seq(Nat)
    BY <2>1 DEF Context, InBounds, Message
  <2>4. u \in Seq(Message)
    BY <1>0, <2>3, PutType
  <2>5. put = [a EXCEPT !.rings[a.activering] = u]
    BY <2>1 DEF Context
  <2>6. Rises(r) /\ \A x \in Elems(r) : x < m
    <3>1. Rises(r) /\ Elems(r) \subseteq Of("ring", sent)
      BY <2>1 DEF Queued
    <3> QED BY <1>0, <3>1 DEF Of, m
  <2>7. Rises(u) /\ Elems(u) \subseteq Elems(r) \cup {m}
    <3>1. m \in Nat
      BY <1>0 DEF Message
    <3> HIDE DEF r
    <3> QED BY <2>3, <2>6, <3>1, RisesPut
  <2>8. /\ n \in Seq(Sent) /\ Longer(sent, n) /\ m \in Of("ring", n) /\ Len(sent) < m
        /\ \A x : Of(x, sent) \subseteq Of(x, n)
    BY <1>0, <1>3, OneMore DEF Sent, m
  <2> HIDE DEF u, n, put
  <2>9. /\ Queued(put, Hand, n) /\ Newer(a, Hand, sent, put, Hand, n)
        /\ put \in Context /\ put.activering = a.activering
    <3>1. Adds(a.rings[a.activering], u, sent, n)
      BY <2>7, <2>8 DEF Adds, r
    <3>2. Puts(a, put, u) /\ put \in Context
      BY <2>1, <2>4, <2>5 DEF Puts, Context
    <3>3. Queued(put, Hand, n) /\ Newer(a, Hand, sent, put, Hand, n)
      BY <1>0, <2>1, <2>2, <3>1, <3>2, OrderPut
    <3> QED BY <3>2, <3>3 DEF Puts
  <2> HIDE DEF r
  <2>10. Newer(ctx, Hand, sent, put, Hand, n)
    BY <1>0, <2>1, <2>8, <2>9, NewerTwice
  <2>11. CASE c.arg = "flush"
    <3>1. ctx' = FlushRing(put)
      BY <1>3, <2>11
    <3>2. /\ Queued(FlushRing(put), Hand, n) /\ Newer(put, Hand, n, FlushRing(put), Hand, n)
      BY <2>1, <2>8, <2>9, FlushNewer
    <3>3. Newer(ctx, Hand, sent, FlushRing(put), Hand, n)
      BY <1>0, <2>8, <2>10, <3>2, NewerTwice
    <3> QED BY <2>8, <3>1, <3>2, <3>3 DEF Sends, n
  <2>12. CASE c.arg # "flush"
    <3>1. ctx' = put
      BY <1>3, <2>12
    <3> QED BY <2>8, <2>9, <2>10, <3>1 DEF Sends, n
  <2> QED BY <2>11, <2>12
<1> QED BY <1>1, <1>2, <1>3 DEF Deliver

\* Clearing the active ring keeps the order.
LEMMA ClearRises ==
    ASSUME NEW c \in Context, NEW s \in Seq(Sent), c.activering \in Rings
    PROVE  /\ Adds(c.rings[c.activering], <<>>, s, s)
           /\ Puts(c, ClearRing(c), <<>>) /\ ClearRing(c) \in Context
<1>1. Adds(c.rings[c.activering], <<>>, s, s)
  BY DEF Adds, Rises, Longer, Elems
<1>2. <<>> \in Seq(Message)
  OBVIOUS
<1>3. Puts(c, ClearRing(c), <<>>) /\ ClearRing(c) \in Context
  BY <1>2 DEF Puts, ClearRing, Context
<1> QED BY <1>1, <1>3

\* What follows the wait for a ring keeps the order.
LEMMA UseActiveSends ==
    ASSUME LogInv, OrderInv, Running, NEW t \in Threads, NEW c, UseActive(t, c)
    PROVE  Sends
<1> DEFINE a == GetActiveRing(ctx)
           flush == c.op = "flush" \/ (c.op = "autoflush" /\ c.arg = "flush")
<1>0. /\ ctx \in Context /\ InBounds(ctx) /\ sent \in Seq(Sent)
      /\ Queued(ctx, Hand, sent) /\ LogType /\ sent' = sent
  BY DEF LogInv, LogType, OrderInv, UseActive
<1>1. CASE ctx' = ctx
  BY <1>0, <1>1, SameSends
<1>2. CASE /\ NumRings # 0 /\ ActiveAvailable(ctx)
           /\ ctx' = (IF flush THEN FlushRing(a) ELSE ClearRing(a))
  <2>1. /\ a \in Context /\ InBounds(a) /\ a.activering \in Rings /\ Moves(ctx, a)
        /\ Queued(a, Hand, sent) /\ Newer(ctx, Hand, sent, a, Hand, sent)
    BY <1>0, <1>2, ActiveMoves, ActiveNewer
  <2>2. Placed(a.idleqp, a.lockqp, a.activering, Hand, lost) /\ Hand \in 0..NumRings
    BY <2>1, HandType DEF Moves, Shifts
  <2> HIDE DEF a
  <2>3. ASSUME NEW d, Queued(d, Hand, sent), Newer(a, Hand, sent, d, Hand, sent), ctx' = d
        PROVE  Sends
    <3>1. Newer(ctx, Hand, sent, d, Hand, sent)
      BY <1>0, <2>1, <2>3, NewerTwice
    <3> QED BY <1>0, <2>3, <3>1 DEF Sends
  <2>4. CASE flush
    <3>1. /\ Queued(FlushRing(a), Hand, sent)
          /\ Newer(a, Hand, sent, FlushRing(a), Hand, sent)
      BY <1>0, <2>1, FlushNewer
    <3> QED BY <1>2, <2>3, <2>4, <3>1
  <2>5. CASE ~ flush
    <3>1. /\ Adds(a.rings[a.activering], <<>>, sent, sent)
          /\ Puts(a, ClearRing(a), <<>>) /\ ClearRing(a) \in Context
      BY <1>0, <2>1, ClearRises
    <3>2. /\ Queued(ClearRing(a), Hand, sent)
          /\ Newer(a, Hand, sent, ClearRing(a), Hand, sent)
      BY <1>0, <2>1, <2>2, <3>1, OrderPut
    <3> QED BY <1>2, <2>3, <2>5, <3>2
  <2> QED BY <2>4, <2>5
<1> QED BY <1>1, <1>2 DEF UseActive

\* A step that moves no message keeps the order.
LEMMA QuietOrder ==
    ASSUME LogInv, OrderInv, Hand' = Hand, Msg' = Msg, UNCHANGED <<sent, log>>,
           ctx'.rings = ctx.rings, ctx'.idleqp = ctx.idleqp, ctx'.lockqp = ctx.lockqp,
           ctx'.activering = ctx.activering, ctx'.wrthru = ctx.wrthru
    PROVE  OrderInv'
BY SameSends, SendsKeeps

\* A step that leaves the rings alone, and the hand of the write thread.
LEMMA PlainOrder ==
    ASSUME LogInv, OrderInv, Pings(td, td'), UNCHANGED <<ctx, sent, log>>
    PROVE  OrderInv'
<1>1. \A v \in Writers : td'[v].msg = td[v].msg /\ td'[v].ring = td[v].ring
  BY DEF Pings
<1>2. Running => ctx.wrthread \in Writers
  BY WriterType DEF LogInv
<1>3. Hand' = Hand /\ Msg' = Msg
  BY <1>1, <1>2 DEF Hand, HandOf, Msg, MsgOf, Running
<1> QED BY <1>3, QuietOrder

\* Nothing remains to be written.
LEMMA OrderEmpty ==
    ASSUME LogInv, OrderInv, UNCHANGED <<sent, log>>, Hand' = 0, Msg' = 0, ctx' \in Context,
           \A r \in Rings : ctx'.rings[r] = <<>>,
           ctx'.lockqp = <<>>, ctx'.wrthru = <<>>, ctx'.activering = 0
    PROVE  OrderInv'
<1> DEFINE d == ctx'
<1>1. /\ \A r \in Rings : d.rings[r] = <<>>
      /\ d.lockqp = <<>> /\ d.wrthru = <<>> /\ d.activering = 0
      /\ d.idleqp \in Seq(Rings)
  BY DEF Context
<1>2. Spoken' = log /\ log' \in Seq(Message) /\ sent' \in Seq(Sent)
  BY DEF Spoken, OrderInv, LogInv, LogType
<1> HIDE DEF d
<1>3. /\ Elems(<<>>) = {} /\ Rises(<<>>)
      /\ In(d, 0) = {} /\ \A r \in Rings : In(d, r) = {}
  BY <1>1 DEF Elems, Rises, In
<1>4. Elems(d.idleqp) \subseteq Rings
  BY <1>1, ElemsSeq
<1>5. Queued(d, 0, sent)
  BY <1>1, <1>3, <1>4 DEF Queued, Below
<1>6. Pending(d, 0) = {}
  BY <1>1, <1>3 DEF Pending
<1>7. Newer(ctx, Hand, sent, d, 0, sent)
  <2>1. Longer(sent, sent) /\ {} \in SUBSET Nat
    BY DEF Longer, LogInv, LogType
  <2> QED BY <1>1, <1>3, <1>6, <2>1 DEF Newer
<1> QED BY <1>2, <1>5, <1>7, OrderKeeps DEF d

\* _mtx_pmlog_term: the rings are freed by the last one.
LEMMA TermOrder ==
    ASSUME LogInv, LogInv', OrderInv, NEW t, NEW c, NEW force, MtxTerm(t, c, force)
    PROVE  OrderInv'
<1>0. UNCHANGED <<sent, log>> /\ ctx \in Context /\ ctx' \in Context
  BY DEF MtxTerm, LogInv, LogType
<1>1. CASE ctx' = [Freed EXCEPT !.stderr_mask = ctx.stderr_mask]
  <2>1. /\ ctx'.wrthread = 0 /\ ctx'.rings = [r \in Rings |-> <<>>] /\ ctx'.lockqp = <<>>
        /\ ctx'.wrthru = <<>> /\ ctx'.activering = 0
    BY <1>1 DEF Freed
  <2>2. Hand' = 0 /\ Msg' = 0
    BY <2>1 DEF Hand, HandOf, Msg, MsgOf
  <2> QED BY <1>0, <2>1, <2>2, OrderEmpty
<1>2. CASE ctx' = [ctx EXCEPT !.init_count = ctx.init_count - 1] /\ td' = td
  <2>1. /\ ctx'.rings = ctx.rings /\ ctx'.idleqp = ctx.idleqp /\ ctx'.lockqp = ctx.lockqp
        /\ ctx'.activering = ctx.activering /\ ctx'.wrthru = ctx.wrthru
        /\ ctx'.wrthread = ctx.wrthread
    BY <1>0, <1>2 DEF Context
  <2>2. Hand' = Hand /\ Msg' = Msg
    BY <1>2, <2>1 DEF Hand, HandOf, Msg, MsgOf
  <2> QED BY <1>0, <2>1, <2>2, QuietOrder
<1> QED BY <1>1, <1>2 DEF MtxTerm

\* _mtx_pmlog_init: the first one starts with empty rings.
LEMMA InitOrder ==
    ASSUME LogInv, LogInv', OrderInv, NEW t, NEW c, MtxInit(t, c)
    PROVE  OrderInv'
<1> DEFINE w == Cardinality(Started) + 1
           n == [Freed EXCEPT !.init_count = 1, !.wrthread = w, !.idleqp = [i \in Rings |-> i]]
<1>0. /\ UNCHANGED <<sent, log>> /\ ctx \in Context /\ ctx' \in Context
      /\ td \in Table /\ Pings(td, td)
  BY DEF MtxInit, LogInv, LogType, histVars, Pings
<1>1. CASE /\ ctx' = [ctx EXCEPT !.init_count = @ + 1]
           /\ td' = IF Running THEN Kick(td, ctx) ELSE td
  <2>1. /\ ctx'.rings = ctx.rings /\ ctx'.idleqp = ctx.idleqp /\ ctx'.lockqp = ctx.lockqp
        /\ ctx'.activering = ctx.activering /\ ctx'.wrthru = ctx.wrthru
        /\ ctx'.wrthread = ctx.wrthread
    BY <1>0, <1>1 DEF Context
  <2>2. Pings(td, td') /\ (Running => ctx.wrthread \in Writers)
    BY <1>0, <1>1, WriterType, KickPings DEF LogInv
  <2>3. Hand' = Hand /\ Msg' = Msg
    BY <2>1, <2>2 DEF Pings, Hand, HandOf, Msg, MsgOf, Running
  <2> QED BY <1>0, <2>1, <2>3, QuietOrder
<1>2. CASE w \in Writers /\ ctx' = n /\ td' = Kick([td EXCEPT ![w] = NewWriter], n)
  <2>1. PICK x \in Writers : x = w
    BY <1>2
  <2>2. /\ n.wrthread = x /\ n.rings = [r \in Rings |-> <<>>] /\ n.lockqp = <<>>
        /\ n.wrthru = <<>> /\ n.activering = 0
    BY <2>1 DEF Freed
  <2> DEFINE f == [td EXCEPT ![x] = NewWriter]
  <2>3. f \in Table /\ f[x] = NewWriter
    <3>1. NewWriter \in ThreadData
      BY LogAssumption DEF NewWriter, ThreadData, WriterPc
    <3> QED BY <1>0, <3>1 DEF Table
  <2>4. td' = Kick(f, n)
    BY <1>2, <2>1
  <2> HIDE DEF f, n, w
  <2>5. Pings(f, td')
    BY <2>2, <2>3, <2>4, KickPings
  <2>6. td'[x].ring = 0 /\ td'[x].msg = 0
    BY <2>3, <2>5 DEF Pings, NewWriter
  <2>7. Hand' = 0 /\ Msg' = 0
    BY <1>2, <2>2, <2>6 DEF Hand, HandOf, Msg, MsgOf
  <2> QED BY <1>0, <1>2, <2>2, <2>7, OrderEmpty
<1>3. CASE UNCHANGED <<ctx, td>>
  BY <1>0, <1>3, PlainOrder
<1> QED BY <1>1, <1>2, <1>3 DEF MtxInit

\* The child of a fork: what the write thread had in its hands is gone.
LEMMA ForkOrder ==
    ASSUME LogInv, OrderInv, NEW t, ForkChild(t)
    PROVE  OrderInv'
<1>1. PICK w \in Writers : w = ctx.wrthread
  BY WriterType DEF ForkChild, LogInv
<1>2. /\ UNCHANGED <<ctx, sent, log>> /\ td \in Table
      /\ td' = [v \in Writers |->
                  IF v = w THEN [td[v] EXCEPT !.pc = "open", !.sync = TRUE,
                                   !.logfd = FALSE, !.ring = 0, !.msg = 0]
                  ELSE IF td[v].pc = "none" THEN td[v]
                  ELSE [NewWriter EXCEPT !.pc = "done"]]
  BY <1>1 DEF ForkChild, LogInv, LogType
<1>3. td'[w].ring = 0 /\ td'[w].msg = 0
  <2>1. td[w] \in ThreadData
    BY <1>2 DEF Table
  <2>2. td'[w] = [td[w] EXCEPT !.pc = "open", !.sync = TRUE, !.logfd = FALSE, !.ring = 0, !.msg = 0]
    BY <1>2
  <2> QED BY <2>1, <2>2 DEF ThreadData
<1>4. Hand' = 0 /\ Msg' = 0
  BY <1>1, <1>2, <1>3 DEF Hand, HandOf, Msg, MsgOf
<1>5. Queued(ctx, 0, sent) /\ Pending(ctx, 0) \subseteq Pending(ctx, Hand)
  BY OrderLose DEF OrderInv
<1>6. Longer(sent, sent) /\ sent \in Seq(Sent) /\ {} \in SUBSET Nat
  BY DEF Longer, LogInv, LogType
<1>7. Newer(ctx, Hand, sent, ctx, 0, sent)
  BY <1>5, <1>6 DEF Newer
<1>8. log' \in Seq(Message) /\ Spoken' = log
  BY <1>2, <1>4 DEF OrderInv, Spoken
<1> QED BY <1>2, <1>4, <1>5, <1>6, <1>7, <1>8, OrderKeeps

\* MESSAGE keeps the order.
LEMMA DeliverOrder ==
    ASSUME LogInv, OrderInv, Running, NEW t \in Threads, NEW c, Deliver(t, c),
           UNCHANGED <<global, enable>>
    PROVE  OrderInv'
<1>1. Plain /\ Sends /\ log' = log
  BY DeliverStep, DeliverSends DEF Deliver
<1> QED BY <1>1, PlainHands, SendsKeeps

\* What follows the wait for a ring keeps the order of the file.
LEMMA UseActiveOrder ==
    ASSUME LogInv, OrderInv, Running, NEW t \in Threads, NEW c, UseActive(t, c),
           UNCHANGED <<global, enable>>
    PROVE  OrderInv'
<1>1. Plain /\ Sends /\ log' = log
  BY UseActiveStep, UseActiveSends DEF UseActive
<1> QED BY <1>1, PlainHands, SendsKeeps

\* What follows the sync, in every function.
LEMMA AfterSyncOrder ==
    ASSUME LogInv, LogInv', BalancedInv, OrderInv, NEW t \in Threads, call[t].stage = "sync",
           AfterSync(t, call[t])
    PROVE  OrderInv'
<1> DEFINE c == call[t]
<1>0. /\ UserInv /\ Proper(t, c, held) /\ ctx \in Context /\ td \in Table /\ Pings(td, td)
  BY DEF BalancedInv, UserInv, LogInv, LogType, Pings
<1>1. ASSUME c.op \in Inner PROVE Running
  <2>1. t \in held
    BY <1>0, <1>1 DEF Proper
  <2> QED BY <1>0, <2>1, HeldRuns DEF Users
<1>2. CASE \E force : MtxTerm(t, c, force)
  BY <1>2, TermOrder
<1>3. CASE c.op = "message" /\ Deliver(t, c) /\ UNCHANGED <<global, enable>>
  BY <1>1, <1>3, DeliverOrder DEF Inner
<1>4. CASE c.op = "autoflush" /\ UseActive(t, c) /\ UNCHANGED <<global, enable>>
  BY <1>1, <1>4, UseActiveOrder DEF Inner
<1>5. CASE /\ td' = IF ~Running THEN td
                    ELSE IF c.op = "logwrt" THEN [td EXCEPT ![ctx.wrthread].logwrt = ~@]
                    ELSE [td EXCEPT ![ctx.wrthread].autoflush = FALSE]
           /\ UNCHANGED <<ctx, sent, log>>
  <2>1. Pings(td, td')
    BY <1>5, SwitchPings DEF LogInv
  <2> QED BY <1>5, <2>1, PlainOrder
<1>6. CASE /\ ctx' = [ctx EXCEPT !.stderr_mask = LevelToMask(@, c.level.D, c.level.T)]
           /\ UNCHANGED <<td, sent, log>>
  <2>1. /\ ctx'.wrthru = ctx.wrthru /\ ctx'.rings = ctx.rings
        /\ ctx'.idleqp = ctx.idleqp /\ ctx'.lockqp = ctx.lockqp
        /\ ctx'.activering = ctx.activering /\ ctx'.wrthread = ctx.wrthread
    BY <1>0, <1>6 DEF Context
  <2>2. Hand' = Hand /\ Msg' = Msg
    BY <1>6, <2>1 DEF Hand, HandOf, Msg, MsgOf
  <2> QED BY <1>6, <2>1, <2>2, QuietOrder
<1>7. CASE UNCHANGED <<ctx, td, sent, log>>
  BY <1>0, <1>7, PlainOrder
<1>8. CASE ForkChild(t)
  BY <1>8, ForkOrder
<1> QED BY <1>2, <1>3, <1>4, <1>5, <1>6, <1>7, <1>8 DEF AfterSync, ForkParent, histVars

\* A call of a thread keeps the order.
LEMMA CallOrder ==
    ASSUME Balanced, LogInv, LogInv', BalancedInv, OrderInv, NEW t \in Threads, Call(t)
    PROVE  OrderInv'
<1>0. /\ UserInv /\ ctx \in Context /\ td \in Table /\ Pings(td, td)
  BY DEF BalancedInv, LogInv, LogType, Pings
<1>1. ASSUME NEW op, MayCall(t, op), op \notin {"init", "term_all", "disable", "enable"}
      PROVE  Running
  <2>1. t \in held
    BY <1>1 DEF MayCall
  <2> QED BY <1>0, <2>1, HeldRuns DEF Users
<1>2. ASSUME Running PROVE Pings(td, Kick(td, ctx))
  BY <1>0, <1>2, WriterType, KickPings DEF LogInv
<1>3. CASE CallSync(t)
  <2>1. UNCHANGED <<ctx, sent, log>> /\ ((Running /\ td' = Kick(td, ctx)) \/ td' = td)
    BY <1>3 DEF CallSync, histVars
  <2> QED BY <1>0, <1>2, <2>1, PlainOrder
<1>4. CASE CallLevel(t)
  <2>1. PICK D \in -1..2, T \in -1..3 :
           /\ MayCall(t, "level")
           /\ IF Running
              THEN td' = Kick(td, ctx) /\ UNCHANGED <<ctx, global, enable, histVars>>
              ELSE AfterSync(t, [Entered(t, "level", "none") EXCEPT !.level = [D |-> D, T |-> T]])
    BY <1>4 DEF CallLevel
  <2>2. td' = Kick(td, ctx) /\ UNCHANGED <<ctx, sent, log>> /\ Running
    BY <1>1, <2>1 DEF histVars
  <2> QED BY <1>2, <2>2, PlainOrder
<1>5. CASE CallInit(t)
  BY <1>5, InitOrder DEF CallInit
<1>6. CASE CallMessage(t)
  <2>1. Running
    BY <1>1, <1>6 DEF CallMessage
  <2>2. PICK k \in Kinds :
           Deliver(t, Entered(t, "message", IF k = "verbose" THEN "ring" ELSE k))
    BY <1>6, <2>1 DEF CallMessage
  <2>3. UNCHANGED <<global, enable>>
    BY <1>6 DEF CallMessage
  <2> QED BY <2>1, <2>2, <2>3, DeliverOrder
<1>7. CASE CallRing(t)
  <2>1. PICK op \in {"flush", "clear"} : /\ MayCall(t, op) /\ UseActive(t, Entered(t, op, "none"))
                                         /\ UNCHANGED <<global, enable>>
    BY <1>7 DEF CallRing
  <2>2. Running
    BY <1>7 DEF CallRing
  <2> QED BY <2>1, <2>2, UseActiveOrder
<1>8. CASE CallRotate(t)
  <2>1. /\ Running /\ td' = Signal([td EXCEPT ![ctx.wrthread].rotate = TRUE])
        /\ UNCHANGED <<ctx, sent, log>>
    BY <1>8 DEF CallRotate, histVars
  <2>2. Pings(td, td')
    BY <1>0, <2>1, WriterType, FlagPings, SignalPings DEF LogInv
  <2> QED BY <2>1, <2>2, PlainOrder
<1>9. CASE CallEnable(t)
  BY <1>0, <1>9, PlainOrder DEF CallEnable, histVars
<1> QED BY <1>3, <1>4, <1>5, <1>6, <1>7, <1>8, <1>9 DEF Call

\* A thread that goes on after a wait keeps the order.
LEMMA ResumeOrder ==
    ASSUME LogInv, LogInv', BalancedInv, OrderInv, NEW t \in Threads, Resume(t)
    PROVE  OrderInv'
<1>0. /\ UserInv /\ Proper(t, call[t], held) /\ td \in Table /\ Pings(td, td)
  BY DEF BalancedInv, UserInv, LogInv, LogType, Pings
<1>1. ASSUME call[t].stage \in {"thru", "active", "rotate"} PROVE Running
  <2>1. t \in held
    BY <1>0, <1>1 DEF Proper
  <2> QED BY <1>0, <2>1, HeldRuns DEF Users
<1>2. CASE ResumeSync(t)
  <2>1. CASE AfterSync(t, call[t])
    BY <1>2, <2>1, AfterSyncOrder DEF ResumeSync
  <2>2. CASE UNCHANGED <<ctx, td, call, global, enable, histVars>>
    BY <1>0, <2>2, PlainOrder DEF histVars
  <2> QED BY <1>2, <2>1, <2>2 DEF ResumeSync
<1>3. CASE ResumeRing(t)
  <2>1. Running /\ UNCHANGED <<global, enable>>
    BY <1>1, <1>3 DEF ResumeRing
  <2> QED BY <1>3, <2>1, DeliverOrder, UseActiveOrder DEF ResumeRing
<1>4. CASE ResumeRotate(t)
  BY <1>0, <1>4, PlainOrder DEF ResumeRotate
<1>5. CASE Join(t)
  BY <1>0, <1>5, PlainOrder DEF Join, histVars
<1> QED BY <1>2, <1>3, <1>4, <1>5 DEF Resume

-----------------------------------------------------------------------------
(* The steps of the write threads, for the order                           *)

\* The data of the write thread w becomes x, with nothing else in its hands;
\* one that has been told to stop has nothing in its hands at all.
LEMMA WriterQuiet ==
    ASSUME LogInv, OrderInv, NEW w \in Writers, NEW x \in ThreadData, td' = [td EXCEPT ![w] = x],
           w = ctx.wrthread => x.ring = td[w].ring /\ x.msg = td[w].msg,
           UNCHANGED <<ctx, sent, log>>
    PROVE  OrderInv'
<1>1. td'[w] = x /\ \A v \in Writers \ {w} : td'[v] = td[v]
  BY DEF LogInv, LogType, Table
<1>2. Running => ctx.wrthread \in Writers
  BY WriterType DEF LogInv
<1>3. Hand' = Hand /\ Msg' = Msg
  BY <1>1, <1>2 DEF Hand, HandOf, Msg, MsgOf, Running
<1> QED BY <1>3, QuietOrder

\* The write thread takes a message.
LEMMA WriterTakes ==
    ASSUME LogInv, OrderInv, NEW m \in Message, Msg = 0, Msg' = m, UNCHANGED <<sent, log>>,
           Queued(ctx', Hand', sent),
           Pending(ctx', Hand') \subseteq Pending(ctx, Hand),
           Elems(ctx'.wrthru) \subseteq Elems(ctx.wrthru), m \in 1..Len(sent),
           sent[m] = "ring" => m \in Pending(ctx, Hand) /\ Below({m}, Pending(ctx', Hand')),
           sent[m] = "thru" => m \in Elems(ctx.wrthru) /\ Below({m}, Elems(ctx'.wrthru))
    PROVE  OrderInv'
<1>1. Spoken = log /\ Spoken' = Append(log, m) /\ log' \in Seq(Message)
  BY DEF Spoken, Message, OrderInv
<1>2. /\ log \in Seq(Nat) /\ Past(log, ctx, Hand, sent) /\ sent \in Seq(Sent)
  BY <1>1 DEF OrderInv, LogInv, LogType, Message
<1> DEFINE d == ctx'
           g == Hand'
<1>3. /\ Pending(d, g) \subseteq Pending(ctx, Hand)
      /\ Elems(d.wrthru) \subseteq Elems(ctx.wrthru)
      /\ sent[m] = "ring" => m \in Pending(ctx, Hand) /\ Below({m}, Pending(d, g))
      /\ sent[m] = "thru" => m \in Elems(ctx.wrthru) /\ Below({m}, Elems(d.wrthru))
  OBVIOUS
<1> HIDE DEF d, g
<1>4. Past(Append(log, m), d, g, sent)
  BY <1>2, <1>3, PastMore
<1> QED BY <1>1, <1>4 DEF OrderInv, d, g

\* The write thread passes rings on.
LEMMA WriterPasses ==
    ASSUME LogInv, OrderInv, Msg' = Msg, UNCHANGED <<sent, log>>,
           Queued(ctx', Hand', sent), Pending(ctx', Hand') \subseteq Pending(ctx, Hand),
           ctx'.wrthru = ctx.wrthru
    PROVE  OrderInv'
<1>1. Longer(sent, sent) /\ sent \in Seq(Sent) /\ {} \in SUBSET Nat
  BY DEF Longer, LogInv, LogType
<1>2. Newer(ctx, Hand, sent, ctx', Hand', sent)
  BY <1>1 DEF Newer
<1>3. log' \in Seq(Message) /\ Spoken' = Spoken
  BY DEF OrderInv, Spoken
<1> QED BY <1>1, <1>2, <1>3, OrderKeeps

\* A step of a writer keeps the order: the ring it takes from the queue holds the
\* oldest messages, and the write-through ring gives its oldest.
LEMMA WriterOrder ==
    ASSUME LogInv, LogInv', BalancedInv, OrderInv, NEW w \in Writers, Writer(w)
    PROVE  OrderInv'
<1>0. /\ ctx \in Context /\ td \in Table /\ td[w] \in ThreadData /\ Shape(w) /\ DrainInv
      /\ w # 0 /\ sent \in Seq(Sent) /\ Queued(ctx, Hand, sent) /\ ctx' \in Context
  BY DEF LogInv, LogType, ThreadInv, Table, BalancedInv, Writers, OrderInv
<1>1. td[w].pc \in {"open", "top", "woken", "rotate", "rings", "ring", "thru", "write"}
  BY DEF Writer, WOpen, WTop, WWake, WRotate, WRings, WRing, WThru, WWrite
<1>2. td[w].terminate <=> w # ctx.wrthread
  BY <1>1, ToldToStop
<1>3. td[w].terminate => td[w].ring = 0 /\ td[w].msg = 0
  BY <1>0 DEF DrainInv
<1>4. td[w].pc # "write" => td[w].msg = 0
  BY <1>0 DEF Shape
\* The write thread of the context.
<1>5. ASSUME w = ctx.wrthread
      PROVE  /\ Hand = td[w].ring /\ Msg = td[w].msg
             /\ Placed(ctx.idleqp, ctx.lockqp, ctx.activering, Hand, lost)
             /\ Queued(ctx, td[w].ring, sent)
  <2>1. Hand = td[w].ring /\ Msg = td[w].msg /\ Running
    BY <1>0, <1>5 DEF Hand, HandOf, Msg, MsgOf, Running
  <2> QED BY <1>0, <2>1, HandType
<1>6. ASSUME w = ctx.wrthread, ctx'.wrthread = ctx.wrthread, NEW x \in ThreadData,
             td' = [td EXCEPT ![w] = x]
      PROVE  Hand' = x.ring /\ Msg' = x.msg
  BY <1>0, <1>6 DEF Hand, HandOf, Msg, MsgOf, Table
\* Only flags and the place of the write thread change.
<1>7. ASSUME NEW x \in ThreadData, td' = [td EXCEPT ![w] = x], x.ring = td[w].ring,
             x.msg = td[w].msg, UNCHANGED <<ctx, sent, log>>
      PROVE  OrderInv'
  BY <1>7, WriterQuiet
<1>8. ASSUME StartPass(w), UNCHANGED <<ctx, sent, log>> PROVE OrderInv'
  <2> DEFINE x == [td[w] EXCEPT !.didwork = FALSE,
                                !.pc = IF td[w].rotate THEN "rotate" ELSE "rings"]
  <2>1. td' = [td EXCEPT ![w] = x]
    BY <1>0, <1>8 DEF StartPass, Table
  <2>2. x \in ThreadData /\ x.ring = td[w].ring /\ x.msg = td[w].msg
    BY <1>0 DEF ThreadData, WriterPc
  <2> HIDE DEF x
  <2> QED BY <1>7, <1>8, <2>1, <2>2
<1>9. CASE WOpen(w)
  <2>0. PICK ok \in BOOLEAN :
           td' = [td EXCEPT ![w].pc = "top", ![w].logfd = ok, ![w].didwork = TRUE]
    BY <1>9, LogAssumption DEF WOpen
  <2> DEFINE x == [td[w] EXCEPT !.pc = "top", !.logfd = ok, !.didwork = TRUE]
  <2>1. td' = [td EXCEPT ![w] = x]
    BY <1>0, <2>0 DEF Table
  <2>2. x \in ThreadData /\ x.ring = td[w].ring /\ x.msg = td[w].msg
    BY <1>0 DEF ThreadData, WriterPc
  <2> HIDE DEF x
  <2> QED BY <1>7, <1>9, <2>1, <2>2 DEF WOpen, histVars
<1>10. CASE WTop(w)
  <2>1. UNCHANGED <<ctx, sent, log>> /\ td[w].ring = 0 /\ td[w].msg = 0
    BY <1>0, <1>10 DEF WTop, histVars, Shape
  <2>2. CASE StartPass(w)
    BY <1>8, <2>1, <2>2
  <2>3. CASE td' = [td EXCEPT ![w] = [NewWriter EXCEPT !.pc = "done"]]
    <3> DEFINE x == [NewWriter EXCEPT !.pc = "done"]
    <3>1. x \in ThreadData /\ x.ring = 0 /\ x.msg = 0
      BY DoneType
    <3> HIDE DEF x
    <3>2. td' = [td EXCEPT ![w] = x]
      BY <2>3 DEF x
    <3> QED BY <1>7, <2>1, <3>1, <3>2
  <2>4. CASE td' = [td EXCEPT ![w].pc = "wait", ![w].sync = FALSE]
    <3> DEFINE x == [td[w] EXCEPT !.pc = "wait", !.sync = FALSE]
    <3>1. td' = [td EXCEPT ![w] = x]
      BY <1>0, <2>4 DEF Table
    <3>2. x \in ThreadData /\ x.ring = td[w].ring /\ x.msg = td[w].msg
      BY <1>0 DEF ThreadData, WriterPc
    <3> HIDE DEF x
    <3> QED BY <1>7, <2>1, <3>1, <3>2
  <2> QED BY <1>10, <2>2, <2>3, <2>4 DEF WTop
<1>11. CASE WWake(w)
  BY <1>8, <1>11 DEF WWake, histVars
<1>12. CASE WRotate(w)
  <2>1. td[w].logfd \in BOOLEAN
    BY <1>0 DEF ThreadData
  <2>2. PICK ok \in BOOLEAN :
           td' = [td EXCEPT ![w].pc = "rings", ![w].logfd = ok,
                            ![w].rotate = FALSE, ![w].didwork = TRUE]
    BY <1>12, <2>1 DEF WRotate
  <2> DEFINE x == [td[w] EXCEPT !.pc = "rings", !.logfd = ok, !.rotate = FALSE, !.didwork = TRUE]
  <2>3. x \in ThreadData /\ x.ring = td[w].ring /\ x.msg = td[w].msg
    BY <1>0 DEF ThreadData, WriterPc
  <2>4. td' = [td EXCEPT ![w] = x]
    BY <1>0, <2>2 DEF Table
  <2> HIDE DEF x
  <2> QED BY <1>7, <1>12, <2>3, <2>4 DEF WRotate, histVars
<1>13. ASSUME NEW p \in WriterPc, Goto(w, p), UNCHANGED <<ctx, sent, log>> PROVE OrderInv'
  <2> DEFINE x == [td[w] EXCEPT !.pc = p]
  <2>1. td' = [td EXCEPT ![w] = x]
    BY <1>0, <1>13 DEF Goto, Table
  <2>2. x \in ThreadData /\ x.ring = td[w].ring /\ x.msg = td[w].msg
    BY <1>0 DEF ThreadData
  <2> HIDE DEF x
  <2> QED BY <1>7, <1>13, <2>1, <2>2
<1>14. "thru" \in WriterPc /\ "top" \in WriterPc
  BY DEF WriterPc
\* The first of the locked rings.
<1>15. CASE WRings(w)
  <2>1. td[w].ring = 0 /\ td[w].msg = 0 /\ UNCHANGED <<sent, log>>
    BY <1>0, <1>15 DEF WRings, histVars, Shape
  <2>2. CASE /\ ~ td[w].terminate /\ ctx.lockqp # <<>>
             /\ td' = [td EXCEPT ![w].ring = Head(ctx.lockqp), ![w].pc = "ring"]
             /\ ctx' = [ctx EXCEPT !.lockqp = Tail(@)]
    <3>1. ctx.lockqp \in Seq(Rings) /\ w = ctx.wrthread
      BY <1>0, <1>2, <2>2 DEF Context
    <3>2. Head(ctx.lockqp) \in 0..NumRings
      BY <2>2, <3>1, ElemsSeq, LogAssumption DEF Rings
    <3> DEFINE x == [td[w] EXCEPT !.ring = Head(ctx.lockqp), !.pc = "ring"]
    <3>3. td' = [td EXCEPT ![w] = x]
      BY <1>0, <2>2 DEF Table
    <3>4. x \in ThreadData /\ x.ring = Head(ctx.lockqp) /\ x.msg = 0
      BY <1>0, <2>1, <3>2 DEF ThreadData, WriterPc
    <3> HIDE DEF x
    <3> DEFINE d == ctx'
    <3>5. /\ d.wrthru = ctx.wrthru /\ d.rings = ctx.rings /\ d.idleqp = ctx.idleqp
          /\ d.activering = ctx.activering /\ d.lockqp = Tail(ctx.lockqp)
          /\ d.wrthread = ctx.wrthread
      BY <1>0, <2>2 DEF Context
    <3>6. Hand' = Head(ctx.lockqp) /\ Msg' = 0 /\ Msg = 0 /\ Hand = 0
      BY <1>5, <1>6, <2>1, <3>1, <3>3, <3>4, <3>5
    <3> HIDE DEF d
    <3>7. Queued(ctx, 0, sent)
      BY <1>0, <3>6
    <3>8. /\ Queued(d, Head(ctx.lockqp), sent)
          /\ Pending(d, Head(ctx.lockqp)) \subseteq Pending(ctx, 0)
      BY <2>2, <3>1, <3>5, <3>7, OrderLocked
    <3> QED BY <2>1, <3>5, <3>6, <3>8, WriterPasses DEF d
  <2>3. CASE Goto(w, "thru") /\ UNCHANGED ctx
    BY <1>13, <1>14, <2>1, <2>3
  <2> QED BY <1>15, <2>2, <2>3 DEF WRings
\* The next message of the ring, or the empty ring.
<1>16. CASE WRing(w)
  <2> DEFINE r == td[w].ring
  <2>1. /\ r \in Rings /\ td[w].msg = 0 /\ ~ td[w].terminate /\ w = ctx.wrthread
        /\ UNCHANGED <<sent, log>>
    <3>1. r \in 0..NumRings /\ r # 0 /\ td[w].msg = 0
      BY <1>0, <1>16 DEF WRing, Shape, ThreadData
    <3> QED BY <1>2, <1>3, <1>16, <3>1, LogAssumption DEF WRing, Rings
  <2>2. ctx.rings \in [Rings -> Seq(Message)] /\ ctx.rings[r] \in Seq(Message)
    BY <1>0, <2>1 DEF Context
  <2>3. Hand = r /\ Msg = 0 /\ Queued(ctx, r, sent)
        /\ Placed(ctx.idleqp, ctx.lockqp, ctx.activering, r, lost)
    BY <1>5, <2>1
  <2>4. CASE /\ ctx.rings[r] # <<>>
             /\ td' = [td EXCEPT ![w].msg = Head(ctx.rings[r]), ![w].pc = "write"]
             /\ ctx' = [ctx EXCEPT !.rings[r] = Tail(@)]
    <3> DEFINE m == Head(ctx.rings[r])
               d == ctx'
    <3>1. m \in Message
      BY <2>2, <2>4, ElemsSeq
    <3>2. /\ d.rings = [ctx.rings EXCEPT ![r] = Tail(@)] /\ d.wrthru = ctx.wrthru
          /\ d.lockqp = ctx.lockqp /\ d.wrthread = ctx.wrthread /\ d.idleqp = ctx.idleqp
          /\ d.activering = ctx.activering
      BY <1>0, <2>1, <2>4 DEF Context
    <3> DEFINE x == [td[w] EXCEPT !.msg = m, !.pc = "write"]
    <3>3. td' = [td EXCEPT ![w] = x]
      BY <1>0, <2>4 DEF Table
    <3>4. x \in ThreadData /\ x.ring = r /\ x.msg = m
      BY <1>0, <3>1 DEF ThreadData, WriterPc, Message
    <3> HIDE DEF x
    <3>5. Hand' = r /\ Msg' = m
      BY <1>6, <2>1, <3>2, <3>3, <3>4
    <3> HIDE DEF r, d
    <3>6. /\ Queued(d, r, sent) /\ Pending(d, r) \subseteq Pending(ctx, r)
          /\ m \in Of("ring", sent) /\ m \in Pending(ctx, r)
          /\ Below({m}, Pending(d, r))
      BY <1>0, <2>1, <2>3, <2>4, <3>2, OrderPop
    <3> HIDE DEF m
    <3>7. m \in 1..Len(sent) /\ sent[m] = "ring"
      BY <3>6 DEF Of
    <3> QED BY <2>1, <2>3, <3>1, <3>2, <3>5, <3>6, <3>7, WriterTakes DEF d
  <2>5. CASE /\ ctx.rings[r] = <<>>
             /\ td' = [td EXCEPT ![w].ring = 0, ![w].pc = "rings", ![w].didwork = TRUE]
             /\ ctx' = [ctx EXCEPT !.idleqp = Append(@, r)]
    <3> DEFINE x == [td[w] EXCEPT !.ring = 0, !.pc = "rings", !.didwork = TRUE]
               d == ctx'
    <3>1. x \in ThreadData /\ x.ring = 0 /\ x.msg = 0
      <4>1. 0 \in 0..NumRings
        BY LogAssumption
      <4> HIDE DEF r
      <4> QED BY <1>0, <2>1, <4>1 DEF ThreadData, WriterPc
    <3>2. td' = [td EXCEPT ![w] = x]
      BY <1>0, <2>5 DEF Table
    <3> HIDE DEF x
    <3>3. /\ d.wrthru = ctx.wrthru /\ d.rings = ctx.rings
          /\ d.lockqp = ctx.lockqp /\ d.wrthread = ctx.wrthread
          /\ d.activering = ctx.activering /\ d.idleqp = Append(ctx.idleqp, r)
          /\ ctx.idleqp \in Seq(Rings)
      BY <1>0, <2>5 DEF Context
    <3>4. Hand' = 0 /\ Msg' = 0
      BY <1>6, <2>1, <3>1, <3>2, <3>3
    <3> HIDE DEF r, d
    <3>5. Queued(d, 0, sent) /\ Pending(d, 0) \subseteq Pending(ctx, r)
      BY <2>1, <2>3, <2>5, <3>3, OrderGive
    <3> QED BY <2>1, <2>3, <3>3, <3>4, <3>5, WriterPasses DEF d
  <2> QED BY <1>16, <2>1, <2>4, <2>5 DEF WRing
\* The next message of the write-through ring.
<1>17. CASE WThru(w)
  <2>1. td[w].ring = 0 /\ td[w].msg = 0 /\ UNCHANGED <<sent, log>>
    BY <1>0, <1>17 DEF WThru, histVars, Shape
  <2>2. CASE /\ ~ td[w].terminate /\ ctx.wrthru # <<>>
             /\ td' = [td EXCEPT ![w].msg = Head(ctx.wrthru), ![w].pc = "write"]
             /\ ctx' = [ctx EXCEPT !.wrthru = Tail(@)]
    <3> DEFINE m == Head(ctx.wrthru)
               d == ctx'
    <3>1. ctx.wrthru \in Seq(Message) /\ m \in Message /\ w = ctx.wrthread
      BY <1>0, <1>2, <2>2 DEF Context
    <3>2. /\ d.wrthru = Tail(ctx.wrthru) /\ d.rings = ctx.rings
          /\ d.lockqp = ctx.lockqp /\ d.wrthread = ctx.wrthread /\ d.idleqp = ctx.idleqp
          /\ d.activering = ctx.activering
      BY <1>0, <2>2 DEF Context
    <3> DEFINE x == [td[w] EXCEPT !.msg = m, !.pc = "write"]
    <3>3. td' = [td EXCEPT ![w] = x]
      BY <1>0, <2>2 DEF Table
    <3>4. x \in ThreadData /\ x.ring = td[w].ring /\ x.msg = m
      BY <1>0, <3>1 DEF ThreadData, WriterPc, Message
    <3> HIDE DEF x
    <3>5. Hand' = Hand /\ Msg' = m /\ Msg = 0
      BY <1>5, <1>6, <2>1, <3>1, <3>2, <3>3, <3>4
    <3> HIDE DEF d
    <3>6. /\ Queued(d, Hand, sent) /\ Pending(d, Hand) = Pending(ctx, Hand)
          /\ Elems(d.wrthru) \subseteq Elems(ctx.wrthru)
          /\ m \in Of("thru", sent) /\ m \in Elems(ctx.wrthru)
          /\ Below({m}, Elems(d.wrthru))
      BY <1>0, <2>2, <3>2, OrderThruPop
    <3> HIDE DEF m
    <3>7. m \in 1..Len(sent) /\ sent[m] = "thru"
      BY <3>6 DEF Of
    <3> QED BY <2>1, <3>1, <3>5, <3>6, <3>7, WriterTakes DEF d
  <2>3. CASE Goto(w, "top") /\ UNCHANGED ctx
    BY <1>13, <1>14, <2>1, <2>3
  <2> QED BY <1>17, <2>2, <2>3 DEF WThru
\* The message goes into the log file, or nowhere.
<1>18. CASE WWrite(w)
  <2> DEFINE x == [td[w] EXCEPT !.msg = 0, !.pc = IF td[w].ring # 0 THEN "ring" ELSE "thru",
                                !.didwork = IF td[w].ring # 0 THEN @ ELSE TRUE]
             m == td[w].msg
  <2>1. td' = [td EXCEPT ![w] = x]
    BY <1>0, <1>18 DEF WWrite, Table
  <2>2. x \in ThreadData /\ x.ring = td[w].ring /\ x.msg = 0
    BY <1>0 DEF ThreadData, WriterPc
  <2> HIDE DEF x
  <2>3. /\ UNCHANGED <<ctx, sent>> /\ m # 0 /\ m \in Nat
        /\ log' = Append(log, m) \/ log' = log
    BY <1>0, <1>18 DEF WWrite, Shape, ThreadData
  <2>4. w = ctx.wrthread
    BY <1>2, <1>3, <2>3
  <2>5. Hand' = Hand /\ Msg' = 0 /\ Msg = m
    BY <1>5, <1>6, <2>1, <2>2, <2>3, <2>4
  <2> HIDE DEF m
  <2>6. log' \in Seq(Message) /\ (Spoken' = Spoken \/ Spoken' = log)
    BY <2>3, <2>5 DEF Spoken, OrderInv, Message
  <2>7. Longer(sent, sent) /\ {} \in SUBSET Nat
    BY <1>0 DEF Longer
  <2>8. Newer(ctx, Hand, sent, ctx, Hand, sent)
    BY <2>7 DEF Newer
  <2> QED BY <1>0, <2>3, <2>5, <2>6, <2>8, OrderKeeps
<1> QED BY <1>9, <1>10, <1>11, <1>12, <1>15, <1>16, <1>17, <1>18 DEF Writer

-----------------------------------------------------------------------------
(* The log file is in order                                                *)

\* The order holds before the first call.
LEMMA OrderInit == Init => OrderInv
<1> SUFFICES ASSUME Init PROVE OrderInv
  OBVIOUS
<1>1. /\ ctx = Freed /\ sent = <<>> /\ log = <<>> /\ ctx.wrthread = 0
      /\ ctx.rings = [r \in Rings |-> <<>>] /\ ctx.idleqp = <<>> /\ ctx.lockqp = <<>>
      /\ ctx.activering = 0 /\ ctx.wrthru = <<>>
  BY DEF Init, Freed
<1>2. Hand = 0 /\ Msg = 0 /\ Spoken = <<>>
  BY <1>1 DEF Hand, HandOf, Msg, MsgOf, Spoken
<1>3. Elems(<<>>) = {} /\ Rises(<<>>) /\ In(ctx, 0) = {} /\ <<>> \in Seq(Message)
  BY DEF Elems, Rises, In
<1>4. Queued(ctx, 0, sent)
  BY <1>1, <1>3 DEF Queued, Below
<1>5. Past(<<>>, ctx, 0, sent)
  BY DEF Past
<1> QED BY <1>1, <1>2, <1>3, <1>4, <1>5 DEF OrderInv

\* Every step keeps the order.
LEMMA OrderNext ==
    ASSUME Balanced, LogInv, BalancedInv, OrderInv, [Next]_vars
    PROVE  OrderInv'
<1>1. LogInv'
  BY LogNext
<1>2. CASE Next
  BY <1>1, <1>2, CallOrder, ResumeOrder, WriterOrder DEF Next
<1>3. CASE UNCHANGED vars
  BY <1>3 DEF vars, OrderInv, Hand, HandOf, Spoken, Msg, MsgOf
<1> QED BY <1>2, <1>3

\* Under balanced use the messages of the rings are in the log file in the order
\* in which they were sent, and so are those of the write-through ring, however
\* many rings are filled, flushed, locked and given back by _mtx_getactivering,
\* _mtx_flushring and _pmlog_write_thread, and through every pmlog_term,
\* pmlog_init and fork: an overwritten or cleared message is missing, and none
\* overtakes another one of its kind.
THEOREM LogAlwaysInOrder ==
    ASSUME Balanced PROVE Spec => []InOrder
<1>1. OrderInv => InOrder
  <2> SUFFICES ASSUME OrderInv, NEW i \in 1..Len(log), NEW j \in 1..Len(log), i < j,
                      sent[log[i]] = sent[log[j]]
               PROVE  log[i] < log[j]
    BY DEF InOrder
  <2>1. log \in Seq(Message) /\ DOMAIN log = 1..Len(log) /\ Len(log) \in Nat
    BY DEF OrderInv
  <2>2. Spoken = log \/ Spoken = Append(log, Msg)
    BY DEF Spoken
  <2>3. i \in DOMAIN Spoken /\ j \in DOMAIN Spoken /\ Spoken[i] = log[i] /\ Spoken[j] = log[j]
    BY <2>1, <2>2
  <2> QED BY <2>3 DEF OrderInv, Past
<1>2. LogInv /\ BalancedInv /\ OrderInv /\ [Next]_vars => LogInv' /\ BalancedInv' /\ OrderInv'
  BY LogNext, BalancedNext, OrderNext
<1>3. Init => LogInv /\ BalancedInv /\ OrderInv
  BY LogInit, BalancedInit, OrderInit
<1> QED BY <1>1, <1>2, <1>3, PTL DEF Spec

-----------------------------------------------------------------------------
(* No lost wakeup                                                          *)

\* A write thread that waits has nothing to do; one that did no work in its
\* pass has not been asked to rotate since the pass began.
Restful(c, x) ==
    /\ x.pc \notin {"none", "done"}
    /\ x.pc = "wait" => ~ x.sync /\ ~ x.rotate /\ c.lockqp = <<>> /\ c.wrthru = <<>>
    /\ x.pc \in {"rings", "thru", "top"} /\ ~ x.didwork => ~ x.rotate

\* The call y of a user that is asleep, and the write thread x that will wake
\* it: nobody waits for a flag, or for a ring, of a write thread that waits,
\* and nobody waits for space in an empty ring.
Awaits(y, c, x, gone) ==
    /\ y.stage \in {"sync", "thru", "active", "rotate"} /\ y.op # "none"
    /\ x.pc = "wait" => y.stage \notin {"sync", "rotate"} /\ (y.stage = "active" => gone # {})
    /\ y.stage = "thru" => c.wrthru # <<>>

\* Nobody waits outside a call, and who joins a write thread has told it to stop.
Joins(y, f) ==
    /\ y.op = "none" => y.stage = "none"
    /\ y.join # 0 => y.stage = "join" /\ (f[y.join].terminate \/ f[y.join].pc = "done")

WakeInv ==
    /\ \E k \in 0..MaxStarts : Started = 1..k
    /\ Running => Restful(ctx, td[ctx.wrthread])
    /\ \A t \in asleep : Running /\ Awaits(call[t], ctx, td[ctx.wrthread], lost)
    /\ \A t \in Threads : Joins(call[t], td)
    /\ \A v \in Writers : td[v].terminate => td[v].pc \notin {"none", "wait"}

\* A signal wakes every write thread that waits.
LEMMA SignalWakes ==
    ASSUME NEW g \in Table, NEW v \in Writers
    PROVE  Signal(g)[v].pc # "wait"
<1>1. g[v] \in ThreadData
  BY DEF Table
<1>2. Signal(g)[v] = IF g[v].pc = "wait" THEN [g[v] EXCEPT !.pc = "woken"] ELSE g[v]
  BY DEF Signal
<1> QED BY <1>1, <1>2 DEF ThreadData

LEMMA FlagTable ==
    ASSUME NEW f \in Table, NEW w \in Writers, NEW b \in BOOLEAN
    PROVE  /\ [f EXCEPT ![w].sync = TRUE] \in Table /\ [f EXCEPT ![w].rotate = b] \in Table
           /\ [f EXCEPT ![w].autoflush = b] \in Table /\ [f EXCEPT ![w].logwrt = b] \in Table
<1>1. ASSUME NEW g, Pings(f, g) PROVE g \in Table
  BY <1>1 DEF Pings
<1> QED BY <1>1, FlagPings

LEMMA KickWakes ==
    ASSUME NEW f \in Table, NEW c, c.wrthread \in Writers
    PROVE  \A v \in Writers : Kick(f, c)[v].pc # "wait"
<1> DEFINE g == [f EXCEPT ![c.wrthread].sync = TRUE]
<1>1. g \in Table
  BY FlagTable
<1>2. Kick(f, c) = Signal(g)
  BY DEF Kick
<1> HIDE DEF g
<1> QED BY <1>1, <1>2, SignalWakes

\* At rest every ring that is left can be had.
LEMMA RestAvailable ==
    ASSUME LogInv, Running, NumRings # 0, td[ctx.wrthread].pc = "wait", ctx.lockqp = <<>>, lost = {}
    PROVE  ActiveAvailable(ctx)
<1>1. ctx.wrthread \in Writers /\ ctx \in Context
  BY WriterType DEF LogInv, LogType
<1>2. td[ctx.wrthread].ring = 0
  BY <1>1 DEF LogInv, ThreadInv, Shape
<1>3. Rings \subseteq Elems(ctx.idleqp) \cup Elems(<<>>) \cup {ctx.activering, 0}
  BY <1>2 DEF LogInv, RingsInv, Placed
<1>4. 1 \in Rings /\ Elems(<<>>) = {}
  BY LogAssumption DEF Rings, Elems
<1>5. ctx.idleqp = <<>> => Elems(ctx.idleqp) = {}
  BY <1>4
<1> QED BY <1>3, <1>4, <1>5 DEF ActiveAvailable

\* The thread t goes on with the call x.
LEMMA UserWakes ==
    ASSUME LogInv, UserInv, WakeInv, Plain, NEW t \in Threads, NEW x \in CallRec,
           call' = [call EXCEPT ![t] = x], Joins(x, td),
           MutexFree \/ UNCHANGED <<ctx, td>>,
           asleep' \subseteq asleep \cup {t},
           t \in asleep' => Running /\ Awaits(x, ctx', td'[ctx'.wrthread], lost'),
           Running /\ td'[ctx'.wrthread].pc = "wait"
              => /\ ~ td'[ctx'.wrthread].sync /\ ~ td'[ctx'.wrthread].rotate
                 /\ ctx'.lockqp = <<>> /\ ctx'.wrthru = <<>>,
           ctx'.wrthru = <<>> => ctx.wrthru = <<>>
    PROVE  WakeInv'
<1>1. /\ ctx'.wrthread = ctx.wrthread /\ (Running' <=> Running) /\ lost' = lost
      /\ Running => ctx.wrthread \in Writers
  BY WriterType DEF LogInv, Plain, Shifts, Running
<1>2. \A v \in Writers : /\ td'[v].terminate = td[v].terminate
                         /\ td'[v].pc = td[v].pc \/ (td[v].pc = "wait" /\ td'[v].pc = "woken")
  BY DEF Plain, Pings
<1>3. call'[t] = x /\ \A u \in Threads \ {t} : call'[u] = call[u]
  BY DEF UserInv
<1>4. Started' = Started
  BY <1>2 DEF Started
<1>5. ASSUME NEW y \in CallRec, Joins(y, td) PROVE Joins(y, td')
  <2>1. y.join # 0 => y.join \in Writers
    BY LogAssumption DEF CallRec, Writers
  <2> QED BY <1>2, <1>5, <2>1 DEF Joins
<1>6. \A u \in Threads : Joins(call'[u], td')
  BY <1>3, <1>5 DEF WakeInv, UserInv
<1>7. ASSUME Running PROVE Restful(ctx', td'[ctx'.wrthread])
  <2> DEFINE w == ctx.wrthread
  <2>1. w \in Writers /\ Restful(ctx, td[w])
    BY <1>1, <1>7 DEF WakeInv
  <2>2. td'[w].pc \notin {"none", "done"}
    BY <1>2, <2>1 DEF Restful
  <2>3. CASE MutexFree
    <3>1. td[w].pc \notin {"top", "rings", "thru"}
      BY <2>1, <2>3 DEF MutexFree, HoldsMutex
    <3>2. td'[w].pc \notin {"top", "rings", "thru"}
      BY <1>2, <2>1, <3>1
    <3> QED BY <1>1, <1>7, <2>2, <3>2 DEF Restful
  <2>4. CASE UNCHANGED <<ctx, td>>
    BY <2>1, <2>4
  <2> QED BY <2>3, <2>4
<1>8. ASSUME NEW u \in asleep' PROVE Running' /\ Awaits(call'[u], ctx', td'[ctx'.wrthread], lost')
  <2>1. CASE u = t
    BY <1>1, <1>3, <1>8, <2>1
  <2>2. CASE u # t
    <3>1. u \in asleep /\ u \in Threads
      BY <1>8, <2>2 DEF LogInv, LogType
    <3>2. Running /\ Awaits(call[u], ctx, td[ctx.wrthread], lost) /\ call'[u] = call[u]
      BY <1>3, <2>2, <3>1 DEF WakeInv
    <3>3. td'[ctx'.wrthread].pc = "wait" => td[ctx.wrthread].pc = "wait"
      BY <1>1, <1>2, <3>2
    <3> QED BY <1>1, <3>2, <3>3 DEF Awaits
  <2> QED BY <2>1, <2>2
<1>9. \A v \in Writers : td'[v].terminate => td'[v].pc \notin {"none", "wait"}
  BY <1>2 DEF WakeInv
<1>10. \E k \in 0..MaxStarts : Started' = 1..k
  BY <1>4 DEF WakeInv
<1> QED BY <1>1, <1>6, <1>7, <1>8, <1>9, <1>10 DEF WakeInv

LEMMA NothingWakes ==
    ASSUME WakeInv, UNCHANGED <<ctx, td, call, asleep, lost>>
    PROVE  WakeInv'
BY DEF WakeInv, Started, Running

\* What the context and the write thread look like after a step that did not
\* wake it.
LEMMA StillRests ==
    ASSUME LogInv, WakeInv, Running, ctx'.wrthread = ctx.wrthread, ctx'.lockqp = ctx.lockqp,
           ctx'.wrthru = ctx.wrthru, \A v \in Writers : td'[v].sync = td[v].sync
                                     /\ td'[v].rotate = td[v].rotate /\ td'[v].pc = td[v].pc,
           td'[ctx'.wrthread].pc = "wait"
    PROVE  /\ ~ td'[ctx'.wrthread].sync /\ ~ td'[ctx'.wrthread].rotate
           /\ ctx'.lockqp = <<>> /\ ctx'.wrthru = <<>>
<1>1. ctx.wrthread \in Writers
  BY WriterType DEF LogInv
<1> QED BY <1>1 DEF WakeInv, Restful

\* pmlog_message_ctx of a thread with a reference.
LEMMA DeliverWakes ==
    ASSUME LogInv, BalancedInv, WakeInv, MutexFree, Running, NEW t \in Threads, t \notin asleep,
           NEW c \in CallRec, c.op = "message", c.join = 0,
           Deliver(t, c), UNCHANGED <<global, enable>>
    PROVE  WakeInv'
<1> DEFINE m == Len(sent) + 1
           a == GetActiveRing(ctx)
           put == [a EXCEPT !.rings[a.activering] = PutMessage(@, m)]
           w == ctx.wrthread
<1>0. UserInv /\ Plain /\ w \in Writers /\ td \in Table /\ ctx \in Context /\ lost' = lost
  BY DeliverStep, WriterType DEF BalancedInv, LogInv, LogType, Deliver
<1>1. ctx'.wrthread = w
  BY <1>0 DEF Plain, Shifts
\* The thread goes to sleep, and nothing else happens.
<1>2. ASSUME UNCHANGED <<ctx, td>>, NEW d \in CallRec, d.op = "message", d.join = 0,
             NEW s \in {"thru", "active"}, Sleep(t, d, s),
             s = "thru" => ctx.wrthru # <<>>,
             s = "active" => NumRings # 0 /\ ~ ActiveAvailable(ctx)
      PROVE  WakeInv'
  <2> DEFINE x == [d EXCEPT !.stage = s]
  <2>1. x \in CallRec /\ x.op = "message" /\ x.stage = s /\ x.join = 0
    BY <1>2 DEF CallRec, Stages
  <2>2. call' = [call EXCEPT ![t] = x] /\ asleep' = asleep \cup {t}
    BY <1>2 DEF Sleep
  <2> HIDE DEF x
  <2>3. td[w].pc = "wait" => ctx.lockqp = <<>>
    BY DEF WakeInv, Restful
  <2>4. Awaits(x, ctx', td'[ctx'.wrthread], lost')
    BY <1>0, <1>2, <2>1, <2>3, RestAvailable DEF Awaits
  <2>5. Joins(x, td)
    BY <2>1 DEF Joins
  <2>6. td'[ctx'.wrthread].pc = "wait"
        => /\ ~ td'[ctx'.wrthread].sync /\ ~ td'[ctx'.wrthread].rotate
           /\ ctx'.lockqp = <<>> /\ ctx'.wrthru = <<>>
    BY <1>2 DEF WakeInv, Restful
  <2> QED BY <1>0, <1>2, <2>1, <2>2, <2>4, <2>5, <2>6, UserWakes
\* The call returns.
<1>3. ASSUME Return(t), asleep' = asleep, ctx'.wrthru = <<>> => ctx.wrthru = <<>>,
             td'[w].pc = "wait" => /\ ~ td'[w].sync /\ ~ td'[w].rotate
                                   /\ ctx'.lockqp = <<>> /\ ctx'.wrthru = <<>>
      PROVE  WakeInv'
  <2>1. NoCall \in CallRec /\ Joins(NoCall, td)
    BY NoCallType DEF Joins, NoCall
  <2>2. call' = [call EXCEPT ![t] = NoCall]
    BY <1>3 DEF Return
  <2> QED BY <1>0, <1>1, <1>3, <2>1, <2>2, UserWakes
<1>4. ASSUME UNCHANGED td, ctx'.lockqp = ctx.lockqp, ctx'.wrthru = ctx.wrthru
      PROVE  td'[w].pc = "wait" => /\ ~ td'[w].sync /\ ~ td'[w].rotate
                                   /\ ctx'.lockqp = <<>> /\ ctx'.wrthru = <<>>
  BY <1>4 DEF WakeInv, Restful
<1>5. td' = Signal(td) => td'[w].pc # "wait"
  BY <1>0, SignalWakes
<1>6. CASE /\ Len(ctx.wrthru) >= ThruCap /\ Sleep(t, [c EXCEPT !.arg = "thru"], "thru")
           /\ UNCHANGED <<ctx, td>>
  <2> DEFINE d == [c EXCEPT !.arg = "thru"]
  <2>1. d \in CallRec /\ d.op = "message" /\ d.join = 0
    BY DEF CallRec, CallArgs
  <2>2. ctx.wrthru # <<>>
    BY <1>6, LogAssumption
  <2> HIDE DEF d
  <2>3. Sleep(t, d, "thru")
    BY <1>6 DEF d
  <2> QED BY <1>2, <1>6, <2>1, <2>2, <2>3
<1>7. CASE /\ ctx' = [ctx EXCEPT !.wrthru = Append(@, m)] /\ td' = Signal(td)
           /\ Return(t) /\ UNCHANGED asleep
  <2> HIDE DEF m
  <2>1. ctx.wrthru \in Seq(Message) /\ ctx'.wrthru = Append(ctx.wrthru, m)
    BY <1>0, <1>7 DEF Context
  <2>2. ctx'.wrthru # <<>>
    BY <2>1
  <2> QED BY <1>3, <1>5, <1>7, <2>2
<1>8. CASE NumRings = 0 /\ Return(t) /\ UNCHANGED <<ctx, td, asleep>>
  BY <1>3, <1>4, <1>8
<1>9. CASE NumRings # 0 /\ ~ ActiveAvailable(ctx) /\ Sleep(t, c, "active") /\ UNCHANGED <<ctx, td>>
  BY <1>2, <1>9
<1>10. CASE /\ NumRings # 0 /\ ActiveAvailable(ctx)
            /\ ctx' = (IF c.arg = "flush" THEN FlushRing(put) ELSE put)
            /\ td' = (IF c.arg = "flush" THEN Signal(td) ELSE td)
            /\ Return(t) /\ UNCHANGED asleep
  <2>1. a.lockqp = ctx.lockqp /\ a.wrthru = ctx.wrthru /\ a \in Context
    <3>1. a \in Context
      BY <1>0, <1>10, ActiveMoves DEF LogInv, LogType
    <3> QED BY <1>0, <3>1 DEF GetActiveRing, Context
  <2> HIDE DEF a, m
  <2>2. put.lockqp = ctx.lockqp /\ put.wrthru = ctx.wrthru
    BY <2>1 DEF Context
  <2> HIDE DEF put
  <2>3. FlushRing(put).wrthru = put.wrthru
    BY <2>2 DEF FlushRing
  <2>4. ctx'.wrthru = ctx.wrthru
    BY <1>10, <2>2, <2>3
  <2>5. CASE c.arg = "flush"
    BY <1>3, <1>5, <1>10, <2>4, <2>5
  <2>6. CASE c.arg # "flush"
    BY <1>3, <1>4, <1>10, <2>2, <2>4, <2>6
  <2> QED BY <2>5, <2>6
<1> QED BY <1>6, <1>7, <1>8, <1>9, <1>10 DEF Deliver

\* The functions that use the active ring.
LEMMA UseActiveWakes ==
    ASSUME LogInv, BalancedInv, WakeInv, MutexFree, Running, NEW t \in Threads, t \notin asleep,
           NEW c \in CallRec, c.op # "none", c.join = 0,
           UseActive(t, c), UNCHANGED <<global, enable>>
    PROVE  WakeInv'
<1> DEFINE a == GetActiveRing(ctx)
           flush == c.op = "flush" \/ (c.op = "autoflush" /\ c.arg = "flush")
           w == ctx.wrthread
           f == IF c.op = "autoflush" /\ Running THEN [td EXCEPT ![w].autoflush = TRUE] ELSE td
<1>0. UserInv /\ Plain /\ w \in Writers /\ td \in Table /\ ctx \in Context /\ lost' = lost
  BY UseActiveStep, WriterType DEF BalancedInv, LogInv, LogType, UseActive
<1>1. ctx'.wrthread = w
  BY <1>0 DEF Plain, Shifts
<1>2. f \in Table /\ \A v \in Writers : /\ f[v].pc = td[v].pc /\ f[v].sync = td[v].sync
                                        /\ f[v].rotate = td[v].rotate
  <2>1. f \in Table
    BY <1>0, FlagTable
  <2>2. td[w] \in ThreadData
    BY <1>0 DEF Table
  <2> QED BY <1>0, <2>1, <2>2 DEF Table, ThreadData
<1>3. CASE NumRings # 0 /\ ~ ActiveAvailable(ctx)
  <2>1. UNCHANGED <<ctx, td>> /\ Sleep(t, c, "active")
    BY <1>3 DEF UseActive
  <2> DEFINE x == [c EXCEPT !.stage = "active"]
  <2>2. x \in CallRec /\ x.op # "none" /\ x.stage = "active" /\ x.join = 0
    BY DEF CallRec, Stages
  <2>3. call' = [call EXCEPT ![t] = x] /\ asleep' = asleep \cup {t}
    BY <2>1 DEF Sleep
  <2> HIDE DEF x
  <2>4. td[w].pc = "wait" => ctx.lockqp = <<>>
    BY DEF WakeInv, Restful
  <2>5. Awaits(x, ctx', td'[ctx'.wrthread], lost')
    BY <1>0, <1>3, <2>1, <2>2, <2>4, RestAvailable DEF Awaits
  <2>6. Joins(x, td)
    BY <2>2 DEF Joins
  <2>7. td'[ctx'.wrthread].pc = "wait"
        => /\ ~ td'[ctx'.wrthread].sync /\ ~ td'[ctx'.wrthread].rotate
           /\ ctx'.lockqp = <<>> /\ ctx'.wrthru = <<>>
    BY <2>1 DEF WakeInv, Restful
  <2> QED BY <1>0, <2>1, <2>2, <2>3, <2>5, <2>6, <2>7, UserWakes
<1>4. CASE ~ (NumRings # 0 /\ ~ ActiveAvailable(ctx))
  <2>1. /\ ctx' = (IF NumRings = 0 THEN ctx ELSE IF flush THEN FlushRing(a) ELSE ClearRing(a))
        /\ td' = (IF NumRings # 0 /\ flush THEN Signal(f) ELSE f)
        /\ Return(t) /\ asleep' = asleep
    BY <1>4 DEF UseActive
  <2> HIDE DEF f
  <2>2. NumRings # 0 => a.lockqp = ctx.lockqp /\ a.wrthru = ctx.wrthru /\ a \in Context
    <3>1. NumRings # 0 => a \in Context
      BY <1>0, <1>4, ActiveMoves DEF LogInv, LogType
    <3> QED BY <1>0, <3>1 DEF GetActiveRing, Context
  <2> HIDE DEF a
  <2>3. NumRings # 0 => FlushRing(a).wrthru = ctx.wrthru
    BY <2>2 DEF FlushRing, Context
  <2>4. NumRings # 0 => ClearRing(a).wrthru = ctx.wrthru /\ ClearRing(a).lockqp = ctx.lockqp
    BY <2>2 DEF ClearRing, Context
  <2>5. ctx'.wrthru = ctx.wrthru
    BY <2>1, <2>3, <2>4
  <2>6. CASE NumRings # 0 /\ flush
    <3>1. td'[w].pc # "wait"
      BY <1>0, <1>2, <2>1, <2>6, SignalWakes
    <3> QED BY <1>0, <1>1, <2>1, <2>5, <3>1, NoCallType, UserWakes DEF Return, Joins, NoCall
  <2>7. CASE ~ (NumRings # 0 /\ flush)
    <3>1. td' = f /\ ctx'.lockqp = ctx.lockqp
      BY <2>1, <2>4, <2>7
    <3>2. td'[ctx'.wrthread].pc = "wait"
          => /\ ~ td'[ctx'.wrthread].sync /\ ~ td'[ctx'.wrthread].rotate
             /\ ctx'.lockqp = <<>> /\ ctx'.wrthru = <<>>
      BY <1>0, <1>1, <1>2, <2>5, <3>1 DEF WakeInv, Restful
    <3> QED BY <1>0, <1>1, <2>1, <2>5, <3>2, NoCallType, UserWakes DEF Return, Joins, NoCall
  <2> QED BY <2>6, <2>7
<1> QED BY <1>3, <1>4

\* Nobody sleeps when the write thread is told to stop.
LEMMA NobodySleeps ==
    ASSUME LogInv, BalancedInv, WakeInv, NEW t \in Threads, t \notin asleep, NEW force \in BOOLEAN,
           IF force THEN Stopping(t) ELSE Waits(call[t], "init") \/ Waits(call[t], "term"),
           TermJoins(force)
    PROVE  asleep = {}
<1>0. UserInv /\ Proper(t, call[t], held) /\ held \subseteq Threads /\ asleep \subseteq Threads
  BY DEF BalancedInv, UserInv, LogInv, LogType
<1> SUFFICES ASSUME NEW u \in asleep PROVE FALSE
  OBVIOUS
<1>1. /\ u \in Threads /\ u # t /\ call[u] \in CallRec /\ Proper(u, call[u], held)
      /\ call[u].stage \in {"sync", "thru", "active", "rotate"} /\ call[u].op # "none"
  BY <1>0 DEF UserInv, WakeInv, Awaits
<1>2. CASE force
  BY <1>0, <1>1, <1>2, NoCallType DEF UserInv, Alone
<1>3. CASE ~ force
  <2>1. t \in Users
    BY <1>0, <1>3 DEF Users, Proper
  <2>2. ctx.init_count = 1
    BY <1>3, <2>1, <1>0, HeldRuns DEF TermJoins
  <2>3. Users = {t}
    <3>1. Users \in SUBSET Threads
      BY <1>0 DEF Users
    <3>2. Cardinality(Users) <= 1
      BY <1>0, <2>2 DEF UserInv
    <3> QED BY <2>1, <3>1, <3>2, CountUsers
  <2>4. ~ Stopping(u)
    BY <1>0, <1>1, <1>3, NoCallType DEF UserInv, Alone, Waits
  <2>5. u \in Users
    <3>1. CASE call[u].stage = "sync"
      BY <1>1, <2>4, <3>1 DEF CallRec, CallOps, Proper, Waits, Stopping, Users
    <3>2. CASE call[u].stage # "sync"
      BY <1>1, <3>2 DEF Proper, Users
    <3> QED BY <3>1, <3>2
  <2> QED BY <1>1, <2>3, <2>5
<1> QED BY <1>2, <1>3

\* _mtx_pmlog_term
LEMMA TermWakes ==
    ASSUME LogInv, BalancedInv, WakeInv, MutexFree, NEW t \in Threads, t \notin asleep,
           NEW force \in BOOLEAN,
           IF force THEN Stopping(t) ELSE Waits(call[t], "init") \/ Waits(call[t], "term"),
           MtxTerm(t, call[t], force), UNCHANGED <<asleep, global>>
    PROVE  WakeInv'
<1> DEFINE c == call[t]
           w == ctx.wrthread
<1>0. /\ UserInv /\ c \in CallRec /\ c.stage = "sync" /\ c.join = 0 /\ td \in Table
      /\ ctx \in Context /\ c.op # "none"
  <2>1. c.stage = "sync"
    BY DEF Waits, Stopping
  <2>2. c.join = 0 /\ c.op # "none"
    BY <2>1 DEF WakeInv, Joins
  <2> QED BY <2>1, <2>2 DEF BalancedInv, UserInv, LogInv, LogType
<1>1. CASE TermJoins(force)
  <2>1. /\ ctx'.wrthread = 0 /\ call' = [call EXCEPT ![t] = [c EXCEPT !.stage = "join", !.join = w]]
        /\ td' = IF w # 0 THEN Signal([td EXCEPT ![w].terminate = TRUE]) ELSE td
    BY <1>1 DEF MtxTerm, Freed
  <2>2. asleep' = {}
    BY <1>1, NobodySleeps
  <2>3. /\ \A v \in Writers : /\ td'[v].terminate <=> td[v].terminate \/ v = w
                              /\ td'[v].pc = td[v].pc \/ (td[v].pc = "wait" /\ td'[v].pc = "woken")
        /\ w # 0 => \A v \in Writers : td'[v].pc # "wait"
    <3>1. CASE w = 0
      BY <2>1, <3>1 DEF Writers
    <3>2. CASE w # 0
      <4>1. w \in Writers /\ td[w] \in ThreadData
        BY <1>0, <3>2, WriterType DEF Running, LogInv, Table
      <4> DEFINE f == [td EXCEPT ![w].terminate = TRUE]
      <4>2. f \in Table /\ \A v \in Writers : /\ f[v].pc = td[v].pc
                                              /\ f[v].terminate <=> td[v].terminate \/ v = w
        BY <1>0, <4>1 DEF Table, ThreadData
      <4>3. td' = Signal(f)
        BY <2>1, <3>2
      <4> HIDE DEF f
      <4>4. Pings(f, f)
        BY <4>2 DEF Pings
      <4>5. Pings(f, td') /\ \A v \in Writers : td'[v].pc # "wait"
        BY <4>2, <4>3, <4>4, SignalPings, SignalWakes
      <4> QED BY <4>2, <4>5 DEF Pings
    <3> QED BY <3>1, <3>2
  <2>4. Started' = Started
    BY <2>3 DEF Started
  <2>5. ASSUME NEW u \in Threads PROVE Joins(call'[u], td')
    <3>1. CASE u = t
      <4>1. call'[u].join = w /\ call'[u].stage = "join" /\ call'[u].op # "none"
        BY <1>0, <2>1, <3>1 DEF UserInv, CallRec
      <4>2. w # 0 => w \in Writers
        BY WriterType DEF Running, LogInv
      <4> QED BY <2>3, <4>1, <4>2 DEF Joins
    <3>2. CASE u # t
      <4>1. call'[u] = call[u] /\ Joins(call[u], td) /\ call[u] \in CallRec
        BY <1>0, <2>1, <3>2 DEF UserInv, WakeInv
      <4>2. call[u].join # 0 => call[u].join \in Writers
        BY <4>1, LogAssumption DEF CallRec, Writers
      <4> QED BY <2>3, <4>1, <4>2 DEF Joins
    <3> QED BY <3>1, <3>2
  <2>6. ASSUME NEW v \in Writers, td'[v].terminate PROVE td'[v].pc \notin {"none", "wait"}
    <3>1. CASE v = w
      <4>1. w # 0 /\ td[w].pc # "none"
        BY <3>1 DEF Writers, Running, WakeInv, Restful
      <4> QED BY <2>3, <3>1, <4>1
    <3>2. CASE v # w
      BY <2>3, <2>6, <3>2 DEF WakeInv
    <3> QED BY <3>1, <3>2
  <2>7. ~ Running'
    BY <2>1 DEF Running
  <2> QED BY <2>2, <2>4, <2>5, <2>6, <2>7 DEF WakeInv
<1>2. CASE ~ TermJoins(force)
  <2>1. /\ ctx' = [ctx EXCEPT !.init_count = ctx.init_count - 1] /\ UNCHANGED <<td, lost>>
        /\ call' = [call EXCEPT ![t] = [c EXCEPT !.stage = "join"]]
    BY <1>2 DEF MtxTerm
  <2> DEFINE x == [c EXCEPT !.stage = "join"]
  <2>2. x \in CallRec /\ x.join = 0 /\ Joins(x, td)
    BY <1>0 DEF CallRec, Stages, Joins
  <2>3. call' = [call EXCEPT ![t] = x]
    BY <2>1
  <2> HIDE DEF x
  <2>4. /\ ctx'.wrthru = ctx.wrthru /\ ctx'.lockqp = ctx.lockqp /\ ctx'.wrthread = ctx.wrthread
        /\ ctx'.idleqp = ctx.idleqp /\ ctx'.activering = ctx.activering
        /\ ctx'.init_count = ctx.init_count - 1 /\ ctx.init_count \in Nat
    BY <1>0, <2>1 DEF Context
  <2>5. Plain
    <3>1. ctx'.init_count = 0 <=> ctx.init_count = 0
      BY <1>2, <2>4 DEF TermJoins
    <3> QED BY <1>0, <2>1, <2>4, <3>1 DEF Plain, Shifts, Pings
  <2>6. Running /\ td'[ctx'.wrthread].pc = "wait"
        => /\ ~ td'[ctx'.wrthread].sync /\ ~ td'[ctx'.wrthread].rotate
           /\ ctx'.lockqp = <<>> /\ ctx'.wrthru = <<>>
    BY <2>1, <2>4 DEF WakeInv, Restful
  <2> QED BY <1>0, <2>2, <2>3, <2>4, <2>5, <2>6, UserWakes
<1> QED BY <1>1, <1>2

\* _mtx_pmlog_init: the first reference starts a write thread that has not run.
LEMMA InitWakes ==
    ASSUME LogInv, BalancedInv, WakeInv, MutexFree, NEW t \in Threads, t \notin asleep,
           NEW c \in CallRec, c.op = "init", c.join = 0, call[t] = NoCall,
           MtxInit(t, c), UNCHANGED <<global, enable>>
    PROVE  WakeInv'
<1> DEFINE w == Cardinality(Started) + 1
           n == [Freed EXCEPT !.init_count = 1, !.wrthread = w, !.idleqp = [i \in Rings |-> i]]
<1>0. /\ UserInv /\ ctx \in Context /\ td \in Table /\ ThreadInv
  BY DEF BalancedInv, LogInv, LogType
<1>1. lost' = lost
  BY DEF MtxInit, histVars
<1> DEFINE x == [c EXCEPT !.stage = "sync"]
<1>2. x \in CallRec /\ x.op = "init" /\ x.stage = "sync" /\ x.join = 0
  BY DEF CallRec, Stages
<1>3. Sleep(t, c, "sync") => call' = [call EXCEPT ![t] = x] /\ asleep' = asleep \cup {t}
  BY DEF Sleep
<1> HIDE DEF x
<1>4. CASE /\ ctx.init_count # 0 /\ ctx' = [ctx EXCEPT !.init_count = @ + 1]
           /\ td' = (IF Running THEN Kick(td, ctx) ELSE td) /\ Sleep(t, c, "sync")
  <2>1. /\ ctx'.init_count = ctx.init_count + 1 /\ ctx'.wrthread = ctx.wrthread
        /\ ctx'.idleqp = ctx.idleqp /\ ctx'.activering = ctx.activering
        /\ ctx'.lockqp = ctx.lockqp /\ ctx'.wrthru = ctx.wrthru /\ ctx.init_count \in Nat
    BY <1>0, <1>4 DEF Context
  <2>2. Running /\ ctx.wrthread \in Writers
    BY <1>0, <1>4, WriterType DEF ThreadInv, LogInv
  <2>3. Pings(td, td') /\ td'[ctx.wrthread].pc # "wait"
    BY <1>0, <1>4, <2>2, KickPings, KickWakes
  <2>4. Plain
    <3>1. ctx'.init_count = 0 <=> ctx.init_count = 0
      BY <1>4, <2>1
    <3> QED BY <1>1, <2>1, <2>3, <3>1 DEF Plain, Shifts
  <2>5. Awaits(x, ctx', td'[ctx'.wrthread], lost') /\ Joins(x, td)
    BY <1>2, <2>1, <2>3 DEF Awaits, Joins
  <2> QED BY <1>0, <1>2, <1>3, <1>4, <2>1, <2>2, <2>3, <2>4, <2>5, UserWakes
<1>5. CASE /\ ctx.init_count = 0 /\ w \in Writers
           /\ ctx' = n /\ td' = Kick([td EXCEPT ![w] = NewWriter], n) /\ Sleep(t, c, "sync")
  <2>1. PICK v \in Writers : v = w
    BY <1>5
  <2>2. ctx'.wrthread = v /\ n.wrthread = v /\ ~ Running
    BY <1>0, <1>5, <2>1 DEF Freed, ThreadInv
  <2> DEFINE f == [td EXCEPT ![v] = NewWriter]
  <2>3. f \in Table /\ f[v] = NewWriter /\ \A u \in Writers \ {v} : f[u] = td[u]
    <3>1. NewWriter \in ThreadData
      BY LogAssumption DEF NewWriter, ThreadData, WriterPc
    <3> QED BY <1>0, <3>1 DEF Table
  <2>4. td' = Kick(f, n)
    BY <1>5, <2>1
  <2>5. PICK k \in 0..MaxStarts : Started = 1..k
    BY DEF WakeInv
  <2>6. v = k + 1 /\ k \in Nat
    <3>1. k \in Nat /\ Cardinality(1..k) = k
      BY LogAssumption, FS_Interval
    <3> QED BY <2>1, <2>5, <3>1
  <2> HIDE DEF f, n, w
  <2>7. Pings(f, td') /\ \A u \in Writers : td'[u].pc # "wait"
    BY <2>2, <2>3, <2>4, KickPings, KickWakes
  <2>8. td'[v].pc = "open" /\ ~ td'[v].terminate
    BY <2>3, <2>7 DEF Pings, NewWriter
  <2>9. \A u \in Writers \ {v} : /\ td'[u].terminate = td[u].terminate
                                 /\ td'[u].pc = td[u].pc \/ (td[u].pc = "wait" /\ td'[u].pc = "woken")
    BY <2>3, <2>7 DEF Pings
  <2>10. Started' = 1..v /\ v \in 0..MaxStarts /\ v \notin Started
    <3>1. Started' = Started \cup {v}
      BY <2>8, <2>9 DEF Started
    <3>2. 1..v = (1..k) \cup {v} /\ v \notin 1..k
      BY <2>6
    <3>3. v \in 0..MaxStarts
      BY LogAssumption DEF Writers
    <3> QED BY <2>5, <3>1, <3>2, <3>3
  <2>11. asleep = {} /\ asleep' = {t}
    BY <1>3, <1>5, <2>2 DEF WakeInv
  <2>12. Restful(ctx', td'[ctx'.wrthread])
    BY <2>2, <2>8 DEF Restful
  <2>13. Awaits(call'[t], ctx', td'[ctx'.wrthread], lost')
    BY <1>0, <1>2, <1>3, <1>5, <2>2, <2>8 DEF Awaits, UserInv
  <2>14. ASSUME NEW u \in Threads PROVE Joins(call'[u], td')
    <3>1. CASE u = t
      BY <1>0, <1>2, <1>3, <1>5, <3>1 DEF Joins, UserInv
    <3>2. CASE u # t
      <4>1. call'[u] = call[u] /\ Joins(call[u], td) /\ call[u] \in CallRec
        BY <1>0, <1>3, <1>5, <3>2 DEF UserInv, WakeInv
      <4> DEFINE j == call[u].join
      <4>2. j # 0 => j \in Writers
        BY <4>1, LogAssumption DEF CallRec, Writers
      <4>3. j # 0 => td[j].pc # "none"
        BY <4>1, <4>2 DEF Joins, WakeInv
      <4>4. j # 0 => j \in Writers \ {v}
        BY <2>10, <4>2, <4>3 DEF Started
      <4> QED BY <2>9, <4>1, <4>4 DEF Joins
    <3> QED BY <3>1, <3>2
  <2>15. ASSUME NEW u \in Writers, td'[u].terminate PROVE td'[u].pc \notin {"none", "wait"}
    BY <2>7, <2>8, <2>9, <2>15 DEF WakeInv
  <2>16. Running'
    BY <2>2 DEF Running, Writers
  <2> QED BY <2>10, <2>11, <2>12, <2>13, <2>14, <2>15, <2>16 DEF WakeInv
<1>6. CASE Return(t) /\ UNCHANGED <<ctx, td, asleep>>
  <2>1. call' = call
    BY <1>0, <1>6 DEF Return, UserInv
  <2> QED BY <1>1, <1>6, <2>1, NothingWakes
<1> QED BY <1>4, <1>5, <1>6 DEF MtxInit

\* The child of a fork has one thread, and a write thread that starts anew.
LEMMA ForkWakes ==
    ASSUME LogInv, BalancedInv, WakeInv, NEW t \in Threads, call[t].op = "fork",
           call[t].stage = "sync", ForkChild(t)
    PROVE  WakeInv'
<1>0. UserInv /\ call[t] \in CallRec /\ ctx \in Context /\ td \in Table
  BY DEF BalancedInv, UserInv, LogInv, LogType
<1>1. PICK w \in Writers : w = ctx.wrthread
  <2>1. Running
    BY Zenon DEF ForkChild
  <2> QED BY <2>1, WriterType DEF LogInv
<1>2. UNCHANGED ctx /\ asleep' = {t} /\ Running
  BY Zenon DEF ForkChild
<1>3. td' = [v \in Writers |->
                  IF v = w THEN [td[v] EXCEPT !.pc = "open", !.sync = TRUE,
                                   !.logfd = FALSE, !.ring = 0, !.msg = 0]
                  ELSE IF td[v].pc = "none" THEN td[v]
                  ELSE [NewWriter EXCEPT !.pc = "done"]]
  BY <1>1, Zenon DEF ForkChild
<1> DEFINE x == [call[t] EXCEPT !.op = "child", !.stage = "sync"]
<1>4. call' = [u \in Threads |-> IF u = t THEN x ELSE NoCall]
  BY Zenon DEF ForkChild
<1>5. x.op = "child" /\ x.stage = "sync" /\ x.join = 0
  <2>1. call[t].join = 0
    BY DEF WakeInv, Joins
  <2> QED BY <1>0, <2>1 DEF CallRec
<1> HIDE DEF x
<1>6. td'[w].pc = "open" /\ td'[w].terminate = td[w].terminate
  <2>1. td'[w] = [td[w] EXCEPT !.pc = "open", !.sync = TRUE, !.logfd = FALSE, !.ring = 0,
                               !.msg = 0]
    BY <1>3, Zenon
  <2>2. td[w] \in ThreadData
    BY <1>0 DEF Table
  <2> QED BY <2>1, <2>2 DEF ThreadData
<1>7. ASSUME NEW v \in Writers, v # w
      PROVE  /\ td[v].pc = "none" => td'[v] = td[v]
             /\ td[v].pc # "none" => td'[v].pc = "done" /\ ~ td'[v].terminate
  <2>1. td'[v] = IF td[v].pc = "none" THEN td[v] ELSE [NewWriter EXCEPT !.pc = "done"]
    BY <1>3, <1>7, Zenon
  <2>2. [NewWriter EXCEPT !.pc = "done"].pc = "done" /\ ~ [NewWriter EXCEPT !.pc = "done"].terminate
    BY DEF NewWriter
  <2> QED BY <2>1, <2>2
<1>8. Started' = Started
  <2>1. td[w].pc # "none"
    BY <1>1, <1>2 DEF WakeInv, Restful
  <2>2. ASSUME NEW v \in Writers PROVE td'[v].pc # "none" <=> td[v].pc # "none"
    BY <1>6, <1>7, <2>1
  <2> QED BY <2>2 DEF Started
<1>9. Restful(ctx', td'[ctx'.wrthread])
  BY <1>1, <1>2, <1>6 DEF Restful
<1>10. call'[t] = x /\ \A u \in Threads \ {t} : call'[u] = NoCall
  BY <1>4
<1>11. Awaits(call'[t], ctx', td'[ctx'.wrthread], lost')
  BY <1>1, <1>2, <1>5, <1>6, <1>10 DEF Awaits
<1>12. \A u \in Threads : Joins(call'[u], td')
  BY <1>5, <1>10 DEF Joins, NoCall
<1>13. \A v \in Writers : td'[v].terminate => td'[v].pc \notin {"none", "wait"}
  BY <1>6, <1>7 DEF WakeInv
<1>14. Running'
  BY <1>2 DEF Running
<1> QED BY <1>2, <1>8, <1>9, <1>11, <1>12, <1>13, <1>14 DEF WakeInv

\* A user asks the write thread for something, wakes it and goes to sleep.
LEMMA AskWakes ==
    ASSUME LogInv, UserInv, WakeInv, Plain, MutexFree, Running, NEW t \in Threads,
           NEW c \in CallRec, c.op # "none", c.join = 0, NEW s \in {"sync", "rotate"},
           Sleep(t, c, s), UNCHANGED ctx, td'[ctx.wrthread].pc # "wait"
    PROVE  WakeInv'
<1> DEFINE x == [c EXCEPT !.stage = s]
<1>1. x \in CallRec /\ x.op # "none" /\ x.stage = s /\ x.join = 0
  BY DEF CallRec, Stages
<1>2. call' = [call EXCEPT ![t] = x] /\ asleep' = asleep \cup {t}
  BY DEF Sleep
<1> HIDE DEF x
<1>3. Awaits(x, ctx', td'[ctx'.wrthread], lost') /\ Joins(x, td)
  BY <1>1 DEF Awaits, Joins
<1> QED BY <1>1, <1>2, <1>3, UserWakes

\* A call returns, and the context and the write thread stay as they are.
LEMMA ReturnWakes ==
    ASSUME LogInv, UserInv, WakeInv, Plain, MutexFree, NEW t \in Threads, t \notin asleep,
           NEW x \in CallRec, x.join = 0, x.op = "none" => x.stage = "none",
           call' = [call EXCEPT ![t] = x], asleep' = asleep,
           Running => /\ ctx'.lockqp = ctx.lockqp /\ ctx'.wrthread = ctx.wrthread
                      /\ \A v \in Writers : td'[v].sync = td[v].sync
                                            /\ td'[v].rotate = td[v].rotate /\ td'[v].pc = td[v].pc,
           ctx'.wrthru = ctx.wrthru
    PROVE  WakeInv'
<1>1. Joins(x, td)
  BY DEF Joins
<1>2. Running /\ td'[ctx'.wrthread].pc = "wait"
      => /\ ~ td'[ctx'.wrthread].sync /\ ~ td'[ctx'.wrthread].rotate
         /\ ctx'.lockqp = <<>> /\ ctx'.wrthru = <<>>
  BY StillRests
<1> QED BY <1>1, <1>2, UserWakes

LEMMA AfterSyncWakes ==
    ASSUME LogInv, BalancedInv, WakeInv, MutexFree, NEW t \in Threads, t \notin asleep,
           call[t].stage = "sync", AfterSync(t, call[t])
    PROVE  WakeInv'
<1> DEFINE c == call[t]
<1>0. /\ UserInv /\ Proper(t, c, held) /\ c \in CallRec /\ c.join = 0
      /\ ctx \in Context /\ td \in Table /\ held \subseteq Threads
  BY DEF BalancedInv, UserInv, LogInv, LogType, WakeInv, Joins
<1>1. c.op # "message"
  BY <1>0 DEF Proper
<1>2. ASSUME c.op \in Inner PROVE Running
  <2>1. t \in held
    BY <1>0, <1>2 DEF Proper
  <2> QED BY <1>0, <2>1, HeldRuns DEF Users
<1>3. NoCall \in CallRec /\ NoCall.join = 0 /\ NoCall.stage = "none"
  BY NoCallType DEF NoCall
\* The call returns; the flags of the write thread may change.
<1>4. ASSUME Plain, Return(t), asleep' = asleep, ctx'.wrthru = ctx.wrthru,
             ctx'.lockqp = ctx.lockqp, ctx'.wrthread = ctx.wrthread,
             \A v \in Writers : /\ td'[v].sync = td[v].sync
                                /\ td'[v].rotate = td[v].rotate /\ td'[v].pc = td[v].pc
      PROVE  WakeInv'
  <2>1. call' = [call EXCEPT ![t] = NoCall]
    BY <1>4 DEF Return
  <2> QED BY <1>0, <1>3, <1>4, <2>1, ReturnWakes
<1>5. CASE c.op \in {"init", "message"} /\ MtxTerm(t, c, FALSE) /\ UNCHANGED <<asleep, global>>
  <2>1. Waits(c, "init") /\ FALSE \in BOOLEAN
    BY <1>1, <1>5 DEF Waits
  <2> QED BY <1>5, <2>1, TermWakes
<1>6. CASE Return(t) /\ UNCHANGED <<ctx, td, asleep, lost>>
  <2>1. Plain
    BY <1>0, <1>6 DEF Plain, Shifts, Pings
  <2> QED BY <1>4, <1>6, <2>1
<1>7. CASE /\ c.op \in {"term", "term_all", "disable"}
           /\ MtxTerm(t, c, c.op # "term") /\ UNCHANGED <<asleep, global>>
  <2>1. CASE c.op = "term"
    <3>1. Waits(c, "term") /\ FALSE \in BOOLEAN /\ MtxTerm(t, c, FALSE)
      BY <1>7, <2>1 DEF Waits
    <3> QED BY <1>7, <3>1, TermWakes
  <2>2. CASE c.op # "term"
    <3>1. Stopping(t) /\ TRUE \in BOOLEAN /\ MtxTerm(t, c, TRUE)
      BY <1>7, <2>2 DEF Waits, Stopping
    <3> QED BY <1>7, <3>1, TermWakes
  <2> QED BY <2>1, <2>2
<1>8. CASE c.op = "autoflush" /\ UseActive(t, c) /\ UNCHANGED <<global, enable>>
  <2>1. Running
    BY <1>2, <1>8 DEF Inner
  <2> QED BY <1>0, <1>8, <2>1, UseActiveWakes
<1>9. CASE /\ td' = IF ~Running THEN td
                    ELSE IF c.op = "logwrt" THEN [td EXCEPT ![ctx.wrthread].logwrt = ~@]
                    ELSE [td EXCEPT ![ctx.wrthread].autoflush = FALSE]
           /\ Return(t) /\ UNCHANGED <<ctx, asleep, global, enable, histVars>>
  <2>1. Pings(td, td')
    BY <1>9, SwitchPings DEF LogInv
  <2>2. Plain
    BY <1>9, <2>1 DEF Plain, Shifts, histVars
  <2>3. \A v \in Writers : /\ td'[v].sync = td[v].sync
                           /\ td'[v].rotate = td[v].rotate /\ td'[v].pc = td[v].pc
    <3>1. CASE Running
      <4>1. PICK w \in Writers : w = ctx.wrthread
        BY <3>1, WriterType DEF LogInv
      <4>2. td[w] \in ThreadData
        BY <1>0 DEF Table
      <4>3. PICK x : /\ td' = [td EXCEPT ![w] = x]
                     /\ x.sync = td[w].sync /\ x.rotate = td[w].rotate /\ x.pc = td[w].pc
        <5>1. CASE c.op = "logwrt"
          <6> DEFINE y == [td[w] EXCEPT !.logwrt = ~@]
          <6>1. y.sync = td[w].sync /\ y.rotate = td[w].rotate /\ y.pc = td[w].pc
            BY <4>2 DEF ThreadData
          <6>2. td' = [td EXCEPT ![w] = y]
            BY <1>9, <3>1, <4>1, <5>1
          <6> QED BY <6>1, <6>2
        <5>2. CASE c.op # "logwrt"
          <6> DEFINE y == [td[w] EXCEPT !.autoflush = FALSE]
          <6>1. y.sync = td[w].sync /\ y.rotate = td[w].rotate /\ y.pc = td[w].pc
            BY <4>2 DEF ThreadData
          <6>2. td' = [td EXCEPT ![w] = y]
            BY <1>9, <3>1, <4>1, <5>2
          <6> QED BY <6>1, <6>2
        <5> QED BY <5>1, <5>2
      <4> QED BY <1>0, <4>3 DEF Table
    <3>2. CASE ~ Running
      BY <1>9, <3>2
    <3> QED BY <3>1, <3>2
  <2> QED BY <1>4, <1>9, <2>2, <2>3
<1>10. CASE /\ ctx' = [ctx EXCEPT !.stderr_mask = LevelToMask(@, c.level.D, c.level.T)]
            /\ Return(t) /\ UNCHANGED <<td, asleep, global, enable, histVars>>
  <2>1. /\ ctx'.wrthru = ctx.wrthru /\ ctx'.idleqp = ctx.idleqp /\ ctx'.lockqp = ctx.lockqp
        /\ ctx'.activering = ctx.activering /\ ctx'.wrthread = ctx.wrthread
        /\ ctx'.init_count = ctx.init_count
    BY <1>0, <1>10 DEF Context
  <2>2. Plain
    BY <1>0, <1>10, <2>1 DEF Plain, Shifts, Pings, histVars
  <2> QED BY <1>4, <1>10, <2>1, <2>2
<1>11. CASE c.op = "fork" /\ ForkChild(t)
  BY <1>11, ForkWakes
<1> QED BY <1>1, <1>5, <1>6, <1>7, <1>8, <1>9, <1>10, <1>11 DEF AfterSync, ForkParent, histVars

LEMMA CallWakes ==
    ASSUME Balanced, LogInv, BalancedInv, WakeInv, NEW t \in Threads, Call(t)
    PROVE  WakeInv'
<1>0. /\ UserInv /\ ctx \in Context /\ td \in Table /\ held \subseteq Threads
  BY DEF BalancedInv, LogInv, LogType
<1>1. ASSUME NEW op, MayCall(t, op)
      PROVE  /\ MutexFree /\ call[t] = NoCall /\ t \notin asleep
             /\ op \notin {"init", "term_all", "disable", "enable"} => Running
  <2>1. /\ MutexFree /\ call[t] = NoCall
        /\ op \notin {"init", "term_all", "disable", "enable"} => t \in held
    BY <1>1 DEF MayCall
  <2>2. t \in held => Running
    BY <1>0, HeldRuns DEF Users
  <2>3. t \notin asleep
    BY <2>1, NoCallType DEF WakeInv, Awaits
  <2> QED BY <2>1, <2>2, <2>3
<1>2. NoCall \in CallRec /\ NoCall.join = 0 /\ NoCall.stage = "none"
  BY NoCallType DEF NoCall
\* A function is entered.
<1>3. ASSUME NEW op \in CallOps \ {"none"}, NEW a \in CallArgs
      PROVE  /\ Entered(t, op, a) \in CallRec /\ Entered(t, op, a).op = op
             /\ Entered(t, op, a).join = 0
  <2>1. Entered(t, op, a).join = 0
    BY DEF Entered, NoCall
  <2> QED BY <2>1, EnteredType
<1>4. "sync" \in Stages /\ "rotate" \in Stages /\ "none" \in CallArgs
  BY DEF Stages, CallArgs
<1>5. ASSUME Running, UNCHANGED <<ctx, lost>>, td' = Kick(td, ctx)
      PROVE  Plain /\ td'[ctx.wrthread].pc # "wait"
  <2>1. ctx.wrthread \in Writers
    BY <1>5, WriterType DEF LogInv
  <2>2. Pings(td, td') /\ td'[ctx.wrthread].pc # "wait"
    BY <1>0, <1>5, <2>1, KickPings, KickWakes
  <2> QED BY <1>5, <2>2 DEF Plain, Shifts
<1>6. CASE CallSync(t)
  <2>0. PICK op \in Syncing : \E a \in Args(op) :
           /\ MayCall(t, op)
           /\ IF Running
              THEN /\ td' = Kick(td, ctx) /\ Sleep(t, Entered(t, op, a), "sync")
                   /\ UNCHANGED <<ctx, histVars>>
              ELSE /\ call' = [call EXCEPT ![t] =
                        IF op \in {"term", "term_all", "disable"}
                        THEN [Entered(t, op, a) EXCEPT !.stage = "join"] ELSE NoCall]
                   /\ UNCHANGED <<ctx, td, asleep, histVars>>
    BY <1>6 DEF CallSync
  <2>1. PICK a \in Args(op) :
           /\ MayCall(t, op)
           /\ IF Running
              THEN /\ td' = Kick(td, ctx) /\ Sleep(t, Entered(t, op, a), "sync")
                   /\ UNCHANGED <<ctx, histVars>>
              ELSE /\ call' = [call EXCEPT ![t] =
                        IF op \in {"term", "term_all", "disable"}
                        THEN [Entered(t, op, a) EXCEPT !.stage = "join"] ELSE NoCall]
                   /\ UNCHANGED <<ctx, td, asleep, histVars>>
    BY <2>0
  <2> DEFINE c == Entered(t, op, a)
  <2>2. op \in CallOps \ {"none"} /\ a \in CallArgs
    <3>1. op \in CallOps \ {"none"}
      BY DEF Syncing, CallOps, Inner
    <3>2. Args(op) \subseteq CallArgs
      BY DEF Args, CallArgs, Syncing
    <3> QED BY <3>1, <3>2
  <2>3. c \in CallRec /\ c.op # "none" /\ c.join = 0
    BY <1>3, <2>2
  <2> HIDE DEF c
  <2>4. MutexFree /\ t \notin asleep /\ UNCHANGED <<ctx, lost>>
    BY <1>1, <2>1 DEF histVars
  <2>5. CASE Running
    <3>1. td' = Kick(td, ctx) /\ Sleep(t, c, "sync")
      BY <2>1, <2>5 DEF c
    <3> QED BY <1>0, <1>5, <2>3, <2>4, <2>5, <3>1, AskWakes
  <2>6. CASE ~ Running
    <3>1. PICK x \in CallRec : /\ x.join = 0 /\ (x.op = "none" => x.stage = "none")
                               /\ call' = [call EXCEPT ![t] = x]
      <4> DEFINE y == [c EXCEPT !.stage = "join"]
      <4>1. y \in CallRec /\ y.join = 0 /\ y.op # "none"
        BY <2>3 DEF CallRec, Stages
      <4>2. call' = [call EXCEPT ![t] = IF op \in {"term", "term_all", "disable"} THEN y
                                        ELSE NoCall]
        BY <2>1, <2>6 DEF c
      <4> HIDE DEF y
      <4> QED BY <1>2, <4>1, <4>2
    <3>2. UNCHANGED <<td, asleep>>
      BY <2>1, <2>6
    <3>3. Plain
      BY <1>0, <2>4, <3>2 DEF Plain, Shifts, Pings
    <3> QED BY <1>0, <2>4, <3>1, <3>2, <3>3, ReturnWakes
  <2> QED BY <2>5, <2>6
<1>7. CASE CallLevel(t)
  <2>1. PICK D \in -1..2, T \in -1..3 :
           /\ MayCall(t, "level")
           /\ IF Running
              THEN /\ td' = Kick(td, ctx)
                   /\ Sleep(t, [Entered(t, "level", "none") EXCEPT !.level = [D |-> D, T |-> T]],
                            "sync")
                   /\ UNCHANGED <<ctx, global, enable, histVars>>
              ELSE AfterSync(t, [Entered(t, "level", "none") EXCEPT !.level = [D |-> D, T |-> T]])
    BY <1>7 DEF CallLevel
  <2>2. Running /\ MutexFree
    BY <1>1, <2>1
  <2> DEFINE e == Entered(t, "level", "none")
             c == [e EXCEPT !.level = [D |-> D, T |-> T]]
  <2>3. e \in CallRec /\ e.op = "level" /\ e.join = 0
    BY <1>3, <1>4 DEF CallOps, Inner
  <2>4. td' = Kick(td, ctx) /\ Sleep(t, c, "sync") /\ UNCHANGED <<ctx, lost>>
    BY <2>1, <2>2 DEF histVars
  <2> HIDE DEF e
  <2>5. c \in CallRec /\ c.op # "none" /\ c.join = 0
    <3>1. [D |-> D, T |-> T] \in [D : Int, T : Int]
      OBVIOUS
    <3> QED BY <2>3, <3>1 DEF CallRec
  <2> HIDE DEF c
  <2> QED BY <1>0, <1>5, <2>2, <2>4, <2>5, AskWakes
<1>8. CASE CallInit(t)
  <2>1. MutexFree /\ call[t] = NoCall /\ t \notin asleep
    BY <1>1, <1>8 DEF CallInit
  <2> DEFINE c == Entered(t, "init", "none")
  <2>2. c \in CallRec /\ c.op = "init" /\ c.join = 0
    BY <1>3, <1>4 DEF CallOps
  <2>3. MtxInit(t, c) /\ UNCHANGED <<global, enable>>
    BY <1>8 DEF CallInit
  <2> HIDE DEF c
  <2> QED BY <2>1, <2>2, <2>3, InitWakes
<1>9. CASE CallMessage(t)
  <2>1. Running /\ MutexFree /\ t \notin asleep
    BY <1>1, <1>9 DEF CallMessage
  <2>2. PICK k \in Kinds :
           Deliver(t, Entered(t, "message", IF k = "verbose" THEN "ring" ELSE k))
    BY <1>9, <2>1 DEF CallMessage
  <2> DEFINE a == IF k = "verbose" THEN "ring" ELSE k
             c == Entered(t, "message", a)
  <2>3. a \in CallArgs /\ "message" \in CallOps \ {"none"}
    BY LogAssumption DEF CallArgs, CallOps, Inner
  <2> HIDE DEF a
  <2>4. c \in CallRec /\ c.op = "message" /\ c.join = 0
    BY <1>3, <2>3
  <2>5. Deliver(t, c) /\ UNCHANGED <<global, enable>>
    BY <1>9, <2>2 DEF a, CallMessage
  <2> HIDE DEF c
  <2> QED BY <2>1, <2>4, <2>5, DeliverWakes
<1>10. CASE CallRing(t)
  <2>1. PICK op \in {"flush", "clear"} : /\ MayCall(t, op) /\ UseActive(t, Entered(t, op, "none"))
                                         /\ UNCHANGED <<global, enable>>
    BY <1>10 DEF CallRing
  <2>2. Running /\ MutexFree /\ t \notin asleep
    BY <1>1, <2>1
  <2> DEFINE c == Entered(t, op, "none")
  <2>3. c \in CallRec /\ c.op # "none" /\ c.join = 0
    BY <1>3, <1>4 DEF CallOps, Inner
  <2> HIDE DEF c
  <2> QED BY <2>1, <2>2, <2>3, UseActiveWakes DEF c
<1>11. CASE CallRotate(t)
  <2> DEFINE c == Entered(t, "rotate", "none")
             f == [td EXCEPT ![ctx.wrthread].rotate = TRUE]
  <2>1. Running /\ MutexFree /\ ctx.wrthread \in Writers
    BY <1>1, <1>11, WriterType DEF CallRotate, LogInv
  <2>2. c \in CallRec /\ c.op # "none" /\ c.join = 0
    BY <1>3, <1>4 DEF CallOps, Inner
  <2>3. td' = Signal(f) /\ Sleep(t, c, "rotate") /\ UNCHANGED <<ctx, lost>>
    BY <1>11 DEF CallRotate, histVars
  <2> HIDE DEF c
  <2>4. f \in Table /\ Pings(td, f)
    BY <1>0, <2>1, FlagTable, FlagPings
  <2> HIDE DEF f
  <2>5. Plain /\ td'[ctx.wrthread].pc # "wait"
    <3>1. Pings(td, td') /\ td'[ctx.wrthread].pc # "wait"
      BY <1>0, <2>1, <2>3, <2>4, SignalPings, SignalWakes
    <3> QED BY <2>3, <3>1 DEF Plain, Shifts
  <2> QED BY <1>0, <2>1, <2>2, <2>3, <2>5, AskWakes
<1>12. CASE CallEnable(t)
  BY <1>12, NothingWakes DEF CallEnable, histVars
<1> QED BY <1>6, <1>7, <1>8, <1>9, <1>10, <1>11, <1>12 DEF Call

LEMMA ResumeWakes ==
    ASSUME LogInv, BalancedInv, WakeInv, NEW t \in Threads, Resume(t)
    PROVE  WakeInv'
<1>0. /\ UserInv /\ Proper(t, call[t], held) /\ call[t] \in CallRec
      /\ td \in Table /\ Joins(call[t], td)
  BY DEF BalancedInv, UserInv, LogInv, LogType, WakeInv
<1>1. ASSUME call[t].stage \in {"thru", "active", "rotate"}
      PROVE  Running /\ call[t].op # "none" /\ call[t].join = 0
  <2>1. call[t].op \in Inner /\ t \in held
    BY <1>0, <1>1 DEF Proper
  <2> QED BY <1>0, <1>1, <2>1, HeldRuns DEF Users, Inner, Joins
<1>2. NoCall \in CallRec /\ NoCall.join = 0 /\ NoCall.stage = "none"
  BY NoCallType DEF NoCall
<1>3. ASSUME UNCHANGED <<ctx, td, lost>> PROVE Plain
  BY <1>0, <1>3 DEF Plain, Shifts, Pings
\* The thread looks at its condition and goes back to sleep.
<1>4. ASSUME UNCHANGED <<ctx, td, call, lost>>, asleep' = asleep \cup {t}, MutexFree, Running,
             call[t].stage \in {"sync", "rotate"}, call[t].op # "none",
             td[ctx.wrthread].pc # "wait"
      PROVE  WakeInv'
  <2>1. call' = [call EXCEPT ![t] = call[t]]
    BY <1>0, <1>4 DEF UserInv
  <2>2. Awaits(call[t], ctx', td'[ctx'.wrthread], lost')
    BY <1>4 DEF Awaits
  <2> QED BY <1>0, <1>3, <1>4, <2>1, <2>2, UserWakes
<1>5. CASE ResumeSync(t)
  <2>1. CASE ~ (Running /\ td[ctx.wrthread].sync) /\ AfterSync(t, call[t])
    BY <1>5, <2>1, AfterSyncWakes DEF ResumeSync
  <2>2. CASE /\ Running /\ td[ctx.wrthread].sync /\ asleep' = asleep \cup {t}
             /\ UNCHANGED <<ctx, td, call, global, enable, histVars>>
    <3>1. td[ctx.wrthread].pc # "wait"
      BY <2>2 DEF WakeInv, Restful
    <3>2. MutexFree /\ call[t].stage = "sync"
      BY <1>5 DEF ResumeSync
    <3>3. call[t].op # "none"
      BY <3>2 DEF WakeInv, Joins
    <3> QED BY <1>4, <2>2, <3>1, <3>2, <3>3 DEF histVars
  <2> QED BY <1>5, <2>1, <2>2 DEF ResumeSync
<1>6. CASE ResumeRing(t)
  <2>1. /\ MutexFree /\ Running /\ call[t].op # "none" /\ call[t].join = 0 /\ t \notin asleep
        /\ UNCHANGED <<global, enable>>
    BY <1>1, <1>6 DEF ResumeRing
  <2>2. CASE call[t].op = "message"
    BY <1>0, <1>6, <2>1, <2>2, DeliverWakes DEF ResumeRing
  <2>3. CASE call[t].op # "message"
    BY <1>0, <1>6, <2>1, <2>3, UseActiveWakes DEF ResumeRing
  <2> QED BY <2>2, <2>3
<1>7. CASE ResumeRotate(t)
  <2>1. /\ MutexFree /\ Running /\ call[t].op # "none" /\ t \notin asleep
        /\ call[t].stage = "rotate" /\ UNCHANGED <<ctx, td, lost>>
    BY <1>1, <1>7 DEF ResumeRotate
  <2>2. CASE td[ctx.wrthread].rotate /\ asleep' = asleep \cup {t} /\ call' = call
    <3>1. td[ctx.wrthread].pc # "wait"
      BY <2>1, <2>2 DEF WakeInv, Restful
    <3> QED BY <1>4, <2>1, <2>2, <3>1
  <2>3. CASE Return(t) /\ UNCHANGED asleep
    <3>1. call' = [call EXCEPT ![t] = NoCall]
      BY <2>3 DEF Return
    <3> QED BY <1>0, <1>2, <1>3, <2>1, <2>3, <3>1, ReturnWakes
  <2> QED BY <1>7, <2>1, <2>2, <2>3 DEF ResumeRotate
<1>8. CASE Join(t)
  <2>1. /\ call[t].stage = "join" /\ call' = [call EXCEPT ![t] = NoCall]
        /\ UNCHANGED <<ctx, td, asleep, lost>>
    BY <1>8 DEF Join, Return, histVars
  <2>2. t \notin asleep
    BY <2>1 DEF WakeInv, Awaits
  <2>3. Joins(NoCall, td)
    BY <1>2 DEF Joins
  <2>4. Running /\ td'[ctx'.wrthread].pc = "wait"
        => /\ ~ td'[ctx'.wrthread].sync /\ ~ td'[ctx'.wrthread].rotate
           /\ ctx'.lockqp = <<>> /\ ctx'.wrthru = <<>>
    BY <2>1 DEF WakeInv, Restful
  <2> QED BY <1>0, <1>2, <1>3, <2>1, <2>2, <2>3, <2>4, UserWakes
<1> QED BY <1>5, <1>6, <1>7, <1>8 DEF Resume

\* The data of the write thread w becomes x.
LEMMA WriterAwake ==
    ASSUME LogInv, WakeInv, UserInv, NEW w \in Writers, td[w].pc # "none", NEW x \in ThreadData,
           td' = [td EXCEPT ![w] = x], ctx'.wrthread = ctx.wrthread, UNCHANGED <<call, lost>>,
           asleep' \subseteq asleep, x.pc # "none", x.terminate => x.pc # "wait",
           td[w].terminate \/ td[w].pc = "done" => x.terminate \/ x.pc = "done",
           w # ctx.wrthread => ctx' = ctx,
           w = ctx.wrthread => /\ Restful(ctx', x)
                               /\ \A u \in asleep' : Awaits(call[u], ctx', x, lost)
    PROVE  WakeInv'
<1>0. td \in Table
  BY DEF LogInv, LogType
<1>1. td'[w] = x /\ \A v \in Writers \ {w} : td'[v] = td[v]
  BY <1>0 DEF Table
<1>2. Started' = Started
  BY <1>1 DEF Started
<1>3. (Running' <=> Running) /\ (Running => ctx.wrthread \in Writers) /\ w # 0
  BY WriterType DEF LogInv, Running, Writers
<1>4. ASSUME Running PROVE Restful(ctx', td'[ctx'.wrthread])
  BY <1>1, <1>3, <1>4 DEF WakeInv
<1>5. ASSUME NEW u \in asleep' PROVE Running' /\ Awaits(call'[u], ctx', td'[ctx'.wrthread], lost')
  <2>1. Running /\ Awaits(call[u], ctx, td[ctx.wrthread], lost)
    BY DEF WakeInv
  <2> QED BY <1>1, <1>3, <2>1
<1>6. ASSUME NEW u \in Threads PROVE Joins(call'[u], td')
  <2>1. Joins(call[u], td) /\ call[u] \in CallRec
    BY DEF WakeInv, UserInv
  <2>2. call[u].join # 0 => call[u].join \in Writers
    BY <2>1, LogAssumption DEF CallRec, Writers
  <2> QED BY <1>1, <2>1, <2>2 DEF Joins
<1>7. ASSUME NEW v \in Writers, td'[v].terminate PROVE td'[v].pc \notin {"none", "wait"}
  BY <1>1, <1>7 DEF WakeInv
<1>8. \E k \in 0..MaxStarts : Started' = 1..k
  BY <1>2 DEF WakeInv
<1> QED BY <1>3, <1>4, <1>5, <1>6, <1>7, <1>8 DEF WakeInv

LEMMA WriterWakes ==
    ASSUME LogInv, BalancedInv, WakeInv, NEW w \in Writers, Writer(w)
    PROVE  WakeInv'
<1>0. /\ ctx \in Context /\ td \in Table /\ td[w] \in ThreadData /\ UserInv /\ Shape(w)
  BY DEF LogInv, LogType, ThreadInv, Table, BalancedInv
<1>1. td[w].pc \in {"open", "top", "woken", "rotate", "rings", "ring", "thru", "write"}
  BY DEF Writer, WOpen, WTop, WWake, WRotate, WRings, WRing, WThru, WWrite
<1>2. td[w].terminate <=> w # ctx.wrthread
  BY <1>1, ToldToStop
<1>3. UNCHANGED <<call, lost>> /\ asleep' \subseteq asleep
  BY DEF Writer, WOpen, WTop, WWake, WRotate, WRings, WRing, WThru, WWrite, userVars, histVars
<1>4. w = ctx.wrthread => /\ Restful(ctx, td[w]) /\ PassInv(ctx, td[w])
                          /\ \A u \in asleep : Awaits(call[u], ctx, td[w], lost)
  BY DEF WakeInv, BalancedInv, DrainInv, Running, Writers
\* The write thread goes on, and does not wait.
<1>5. ASSUME NEW x \in ThreadData, td' = [td EXCEPT ![w] = x], ctx'.wrthread = ctx.wrthread,
             x.terminate = td[w].terminate, x.pc \notin {"none", "done", "wait"},
             w # ctx.wrthread => ctx' = ctx,
             w = ctx.wrthread /\ x.pc \in {"rings", "thru", "top"} /\ ~ x.didwork => ~ x.rotate,
             ctx'.wrthru = ctx.wrthru \/ \A u \in asleep' : call[u].stage # "thru"
      PROVE  WakeInv'
  <2>1. w = ctx.wrthread => Restful(ctx', x)
    BY <1>5 DEF Restful
  <2>2. ASSUME w = ctx.wrthread, NEW u \in asleep' PROVE Awaits(call[u], ctx', x, lost)
    <3>1. Awaits(call[u], ctx, td[w], lost)
      BY <1>3, <1>4, <2>2
    <3> QED BY <1>5, <3>1 DEF Awaits
  <2> QED BY <1>0, <1>1, <1>2, <1>3, <1>5, <2>1, <2>2, WriterAwake
<1>6. ASSUME StartPass(w), UNCHANGED ctx
      PROVE  WakeInv'
  <2> DEFINE x == [td[w] EXCEPT !.didwork = FALSE,
                                !.pc = IF td[w].rotate THEN "rotate" ELSE "rings"]
  <2>1. td' = [td EXCEPT ![w] = x]
    BY <1>0, <1>6 DEF StartPass, Table
  <2>2. /\ x \in ThreadData /\ x.terminate = td[w].terminate
        /\ x.pc = "rotate" \/ (x.pc = "rings" /\ ~ x.rotate)
    BY <1>0 DEF ThreadData, WriterPc
  <2> HIDE DEF x
  <2> QED BY <1>5, <1>6, <2>1, <2>2
<1>7. CASE WOpen(w)
  <2>1. PICK ok \in BOOLEAN :
           td' = [td EXCEPT ![w].pc = "top", ![w].logfd = ok, ![w].didwork = TRUE]
    BY <1>7 DEF WOpen
  <2> DEFINE x == [td[w] EXCEPT !.pc = "top", !.logfd = ok, !.didwork = TRUE]
  <2>2. td' = [td EXCEPT ![w] = x]
    BY <1>0, <2>1 DEF Table
  <2>3. x \in ThreadData /\ x.terminate = td[w].terminate /\ x.pc = "top" /\ x.didwork
    BY <1>0 DEF ThreadData, WriterPc
  <2> HIDE DEF x
  <2> QED BY <1>5, <1>7, <2>2, <2>3 DEF WOpen
<1>8. CASE WTop(w)
  <2>1. CASE ~ td[w].terminate /\ td[w].didwork
    BY <1>6, <1>8, <2>1 DEF WTop
  <2>2. CASE td[w].terminate
    <3> DEFINE x == [NewWriter EXCEPT !.pc = "done"]
    <3>1. td' = [td EXCEPT ![w] = x] /\ UNCHANGED ctx
      BY <1>8, <2>2 DEF WTop
    <3>2. x \in ThreadData /\ x.pc = "done"
      BY DoneType
    <3> HIDE DEF x
    <3> QED BY <1>0, <1>1, <1>2, <1>3, <2>2, <3>1, <3>2, WriterAwake
  <2>3. CASE ~ td[w].terminate /\ ~ td[w].didwork
    <3> DEFINE x == [td[w] EXCEPT !.pc = "wait", !.sync = FALSE]
    <3>1. /\ td' = [td EXCEPT ![w].pc = "wait", ![w].sync = FALSE] /\ UNCHANGED ctx
          /\ asleep' = asleep \ Waiting({"sync", "active", "rotate"}) /\ td[w].pc = "top"
      BY <1>8, <2>3 DEF WTop
    <3>2. td' = [td EXCEPT ![w] = x]
      BY <1>0, <3>1 DEF Table
    <3>3. /\ x \in ThreadData /\ x.pc = "wait" /\ ~ x.sync /\ x.rotate = td[w].rotate
          /\ ~ x.terminate
      BY <1>0, <2>3 DEF ThreadData, WriterPc
    <3> HIDE DEF x
    <3>4. ~ td[w].rotate /\ ctx.lockqp = <<>> /\ ctx.wrthru = <<>>
      BY <1>2, <1>4, <2>3, <3>1 DEF Restful, PassInv
    <3>5. Restful(ctx', x)
      BY <3>1, <3>3, <3>4 DEF Restful
    <3>6. ASSUME NEW u \in asleep' PROVE Awaits(call[u], ctx', x, lost)
      <4>1. u \in asleep /\ call[u].stage \notin {"sync", "active", "rotate"}
        BY <3>1 DEF Waiting
      <4>2. Awaits(call[u], ctx, td[w], lost)
        BY <1>2, <1>4, <2>3, <4>1
      <4> QED BY <3>1, <4>1, <4>2 DEF Awaits
    <3> QED BY <1>0, <1>1, <1>2, <1>3, <2>3, <3>1, <3>2, <3>3, <3>5, <3>6, WriterAwake
  <2> QED BY <2>1, <2>2, <2>3
<1>9. CASE WWake(w)
  BY <1>6, <1>9 DEF WWake
<1>10. CASE WRotate(w)
  <2>1. PICK ok \in BOOLEAN :
           td' = [td EXCEPT ![w].pc = "rings", ![w].logfd = ok,
                            ![w].rotate = FALSE, ![w].didwork = TRUE]
    BY <1>0, <1>10 DEF WRotate, ThreadData
  <2> DEFINE x == [td[w] EXCEPT !.pc = "rings", !.logfd = ok, !.rotate = FALSE, !.didwork = TRUE]
  <2>2. td' = [td EXCEPT ![w] = x]
    BY <1>0, <2>1 DEF Table
  <2>3. x \in ThreadData /\ x.terminate = td[w].terminate /\ x.pc = "rings" /\ x.didwork
    BY <1>0 DEF ThreadData, WriterPc
  <2> HIDE DEF x
  <2> QED BY <1>5, <1>10, <2>2, <2>3 DEF WRotate
<1>11. CASE WRings(w)
  <2>1. CASE ~ td[w].terminate /\ ctx.lockqp # <<>>
    <3> DEFINE x == [td[w] EXCEPT !.ring = Head(ctx.lockqp), !.pc = "ring"]
    <3>1. /\ td' = [td EXCEPT ![w].ring = Head(ctx.lockqp), ![w].pc = "ring"]
          /\ ctx' = [ctx EXCEPT !.lockqp = Tail(@)]
      BY <1>11, <2>1 DEF WRings
    <3>2. td' = [td EXCEPT ![w] = x]
      BY <1>0, <3>1 DEF Table
    <3>3. Head(ctx.lockqp) \in 0..NumRings
      <4>1. Head(ctx.lockqp) \in Rings
        BY <1>0, <2>1, ElemsSeq DEF Context
      <4> QED BY <4>1, LogAssumption DEF Rings
    <3>4. x \in ThreadData /\ x.terminate = td[w].terminate /\ x.pc = "ring"
      BY <1>0, <3>3 DEF ThreadData, WriterPc
    <3>5. ctx'.wrthread = ctx.wrthread /\ ctx'.wrthru = ctx.wrthru
      BY <1>0, <3>1 DEF Context
    <3> HIDE DEF x
    <3> QED BY <1>2, <1>5, <2>1, <3>2, <3>4, <3>5
  <2>2. CASE ~ (~ td[w].terminate /\ ctx.lockqp # <<>>)
    <3> DEFINE x == [td[w] EXCEPT !.pc = "thru"]
    <3>1. td' = [td EXCEPT ![w].pc = "thru"] /\ UNCHANGED ctx /\ td[w].pc = "rings"
      BY <1>11, <2>2 DEF WRings, Goto
    <3>2. td' = [td EXCEPT ![w] = x]
      BY <1>0, <3>1 DEF Table
    <3>3. /\ x \in ThreadData /\ x.terminate = td[w].terminate /\ x.pc = "thru"
          /\ x.didwork = td[w].didwork /\ x.rotate = td[w].rotate
      BY <1>0 DEF ThreadData, WriterPc
    <3> HIDE DEF x
    <3>4. w = ctx.wrthread /\ ~ x.didwork => ~ x.rotate
      BY <1>4, <3>1, <3>3 DEF Restful
    <3> QED BY <1>5, <3>1, <3>2, <3>3, <3>4
  <2> QED BY <2>1, <2>2
<1>12. CASE WRing(w)
  <2> DEFINE r == td[w].ring
  <2>1. CASE /\ ~ td[w].terminate /\ ctx.rings[r] # <<>>
             /\ td' = [td EXCEPT ![w].msg = Head(ctx.rings[r]), ![w].pc = "write"]
             /\ ctx' = [ctx EXCEPT !.rings[r] = Tail(@)]
    <3> DEFINE x == [td[w] EXCEPT !.msg = Head(ctx.rings[r]), !.pc = "write"]
    <3>1. td' = [td EXCEPT ![w] = x]
      BY <1>0, <2>1 DEF Table
    <3>2. Head(ctx.rings[r]) \in Nat
      <4>1. r \in Rings
        BY <1>0, <1>12, LogAssumption DEF WRing, Shape, ThreadData, Rings
      <4>2. ctx.rings[r] \in Seq(Message)
        BY <1>0, <4>1 DEF Context
      <4>3. Head(ctx.rings[r]) \in Message
        BY <2>1, <4>2, ElemsSeq
      <4> QED BY <4>3 DEF Message
    <3>3. x \in ThreadData /\ x.terminate = td[w].terminate /\ x.pc = "write"
      BY <1>0, <3>2 DEF ThreadData, WriterPc
    <3>4. ctx'.wrthread = ctx.wrthread /\ ctx'.wrthru = ctx.wrthru
      BY <1>0, <2>1 DEF Context
    <3> HIDE DEF x
    <3> QED BY <1>2, <1>5, <2>1, <3>1, <3>3, <3>4
  <2>2. CASE /\ td' = [td EXCEPT ![w].ring = 0, ![w].pc = "rings", ![w].didwork = TRUE]
             /\ ctx' = ctx \/ (~ td[w].terminate /\ ctx' = [ctx EXCEPT !.idleqp = Append(@, r)])
    <3> DEFINE x == [td[w] EXCEPT !.ring = 0, !.pc = "rings", !.didwork = TRUE]
    <3>1. td' = [td EXCEPT ![w] = x]
      BY <1>0, <2>2 DEF Table
    <3>2. x \in ThreadData /\ x.terminate = td[w].terminate /\ x.pc = "rings" /\ x.didwork
      <4>1. 0 \in 0..NumRings
        BY LogAssumption
      <4> QED BY <1>0, <4>1 DEF ThreadData, WriterPc
    <3>3. ctx'.wrthread = ctx.wrthread /\ ctx'.wrthru = ctx.wrthru
      BY <1>0, <2>2 DEF Context
    <3> HIDE DEF x
    <3> QED BY <1>2, <1>5, <2>2, <3>1, <3>2, <3>3
  <2> QED BY <1>12, <2>1, <2>2 DEF WRing
<1>13. CASE WThru(w)
  <2>1. CASE ~ td[w].terminate /\ ctx.wrthru # <<>>
    <3> DEFINE x == [td[w] EXCEPT !.msg = Head(ctx.wrthru), !.pc = "write"]
    <3>1. /\ td' = [td EXCEPT ![w].msg = Head(ctx.wrthru), ![w].pc = "write"]
          /\ ctx' = [ctx EXCEPT !.wrthru = Tail(@)] /\ asleep' = asleep \ Waiting({"thru"})
      BY <1>13, <2>1 DEF WThru
    <3>2. td' = [td EXCEPT ![w] = x]
      BY <1>0, <3>1 DEF Table
    <3>3. Head(ctx.wrthru) \in Nat
      <4>1. Head(ctx.wrthru) \in Message
        BY <1>0, <2>1, ElemsSeq DEF Context
      <4> QED BY <4>1 DEF Message
    <3>4. x \in ThreadData /\ x.terminate = td[w].terminate /\ x.pc = "write"
      BY <1>0, <3>3 DEF ThreadData, WriterPc
    <3>5. ctx'.wrthread = ctx.wrthread
      BY <1>0, <3>1 DEF Context
    <3>6. \A u \in asleep' : call[u].stage # "thru"
      BY <3>1 DEF Waiting
    <3> HIDE DEF x
    <3> QED BY <1>2, <1>5, <2>1, <3>2, <3>4, <3>5, <3>6
  <2>2. CASE ~ (~ td[w].terminate /\ ctx.wrthru # <<>>)
    <3> DEFINE x == [td[w] EXCEPT !.pc = "top"]
    <3>1. td' = [td EXCEPT ![w].pc = "top"] /\ UNCHANGED ctx /\ td[w].pc = "thru"
      BY <1>13, <2>2 DEF WThru, Goto
    <3>2. td' = [td EXCEPT ![w] = x]
      BY <1>0, <3>1 DEF Table
    <3>3. /\ x \in ThreadData /\ x.terminate = td[w].terminate /\ x.pc = "top"
          /\ x.didwork = td[w].didwork /\ x.rotate = td[w].rotate
      BY <1>0 DEF ThreadData, WriterPc
    <3> HIDE DEF x
    <3>4. w = ctx.wrthread /\ ~ x.didwork => ~ x.rotate
      BY <1>4, <3>1, <3>3 DEF Restful
    <3> QED BY <1>5, <3>1, <3>2, <3>3, <3>4
  <2> QED BY <2>1, <2>2
<1>14. CASE WWrite(w)
  <2> DEFINE x == [td[w] EXCEPT !.msg = 0, !.pc = IF td[w].ring # 0 THEN "ring" ELSE "thru",
                                !.didwork = IF td[w].ring # 0 THEN @ ELSE TRUE]
  <2>1. /\ td' = [td EXCEPT ![w].msg = 0, ![w].pc = IF td[w].ring # 0 THEN "ring" ELSE "thru",
                            ![w].didwork = IF td[w].ring # 0 THEN @ ELSE TRUE]
        /\ UNCHANGED ctx
    BY <1>14 DEF WWrite
  <2>2. td' = [td EXCEPT ![w] = x]
    BY <1>0, <2>1 DEF Table
  <2>3. /\ x \in ThreadData /\ x.terminate = td[w].terminate
        /\ x.pc = "ring" \/ (x.pc = "thru" /\ x.didwork)
    <3>1. CASE td[w].ring # 0
      BY <1>0, <3>1 DEF ThreadData, WriterPc
    <3>2. CASE td[w].ring = 0
      BY <1>0, <3>2 DEF ThreadData, WriterPc
    <3> QED BY <3>1, <3>2
  <2> HIDE DEF x
  <2> QED BY <1>5, <2>1, <2>2, <2>3
<1> QED BY <1>7, <1>8, <1>9, <1>10, <1>11, <1>12, <1>13, <1>14 DEF Writer

LEMMA WakeInit == Init => WakeInv
<1> SUFFICES ASSUME Init PROVE WakeInv
  OBVIOUS
<1>1. \A v \in Writers : td[v].pc = "none" /\ ~ td[v].terminate
  BY DEF Init, NoWriter, NewWriter
<1>2. Started = 1..0
  BY <1>1 DEF Started
<1>3. 0 \in 0..MaxStarts
  BY LogAssumption
<1>4. ~ Running /\ asleep = {}
  BY DEF Init, Running, Freed
<1>5. \A t \in Threads : Joins(call[t], td)
  BY DEF Init, NoCall, Joins
<1> QED BY <1>1, <1>2, <1>3, <1>4, <1>5 DEF WakeInv

LEMMA WakeNext ==
    ASSUME Balanced, LogInv, BalancedInv, WakeInv, [Next]_vars
    PROVE  WakeInv'
<1>1. CASE Next
  BY <1>1, CallWakes, ResumeWakes, WriterWakes DEF Next
<1>2. CASE UNCHANGED vars
  BY <1>2, NothingWakes DEF vars
<1> QED BY <1>1, <1>2

\* Under balanced use no wakeup is lost, whatever the threads do between their
\* pmlog_init and their pmlog_term: when the write thread waits on workcond
\* (_pmlog_write_thread) and every user is asleep or waits for a thread to end,
\* no user is in a call.  A flag that is set, a locked ring and a message in
\* the write-through ring each keep the write thread from waiting, and before
\* it waits it wakes those that wait for a flag or for a ring.
THEOREM WakeupsNeverLost ==
    ASSUME Balanced PROVE Spec => []NoLostWakeup
<1>1. LogInv /\ BalancedInv /\ WakeInv => NoLostWakeup
  <2> SUFFICES ASSUME LogInv, BalancedInv, WakeInv, lost = {},
                      \A w \in Writers : td[w].pc \in {"none", "wait", "done"},
                      \A t \in Threads :
                         \/ call[t] = NoCall \/ t \in asleep
                         \/ /\ call[t].stage = "join" /\ call[t].join # 0
                            /\ td[call[t].join].pc # "done",
                      NEW t \in Threads
               PROVE  call[t] = NoCall
    BY DEF NoLostWakeup
  <2>1. ASSUME t \in asleep PROVE FALSE
    <3>1. Running /\ Awaits(call[t], ctx, td[ctx.wrthread], lost)
      BY <2>1 DEF WakeInv
    <3>2. ctx.wrthread \in Writers /\ Restful(ctx, td[ctx.wrthread])
      BY <3>1, WriterType DEF WakeInv, LogInv
    <3>3. td[ctx.wrthread].pc = "wait" /\ ctx.wrthru = <<>>
      BY <3>2 DEF Restful
    <3> QED BY <3>1, <3>3 DEF Awaits
  <2>2. ASSUME call[t].join # 0, td[call[t].join].pc # "done" PROVE FALSE
    <3>1. call[t] \in CallRec /\ Joins(call[t], td)
      BY DEF WakeInv, BalancedInv, UserInv
    <3>2. call[t].join \in Writers
      BY <2>2, <3>1, LogAssumption DEF CallRec, Writers
    <3>3. td[call[t].join].terminate
      BY <2>2, <3>1 DEF Joins
    <3> QED BY <2>2, <3>2, <3>3 DEF WakeInv
  <2> QED BY <2>1, <2>2
<1>2. /\ LogInv /\ BalancedInv /\ WakeInv /\ [Next]_vars
      => LogInv' /\ BalancedInv' /\ WakeInv'
  BY LogNext, BalancedNext, WakeNext
<1>3. Init => LogInv /\ BalancedInv /\ WakeInv
  BY LogInit, BalancedInit, WakeInit
<1> QED BY <1>1, <1>2, <1>3, PTL DEF Spec
===============================================================================
