------------------------------- MODULE LogRing -------------------------------
(***************************************************************************)
(* The ring buffer of lib/log.c: messages of different lengths in a byte   *)
(* buffer with a write and a read index that wrap.  Lengths and indices    *)
(* are in units of 8 bytes, the multiple to which messages are padded, so  *)
(* that the length word of a message is never split by the end of the      *)
(* buffer.  A message is a record; its u-th unit in the buffer is the pair *)
(* of the message and u.                                                   *)
(***************************************************************************)
EXTENDS Integers, Sequences

CONSTANTS
    Size,          \* ring->size
    Lengths,       \* the lengths of messages
    MaxPuts        \* bound: messages put into the ring

ASSUME RingAssumption ==
    /\ Size \in Nat \ {0} /\ MaxPuts \in Nat
    /\ Lengths \subseteq 1..(Size - 1)      \* the smallest ring is 4096 bytes

VARIABLES
    buf,           \* ring->buf
    wridx, rdidx,  \* ring->wridx, ring->rdidx
    got,           \* the units of the message last copied out
    puts,          \* history: number of messages put so far
    fifo           \* history: the messages that should be in the ring

ringVars == <<buf, wridx, rdidx, got, puts, fifo>>

Message == [id : 1..MaxPuts, msglen : Lengths]
NoUnit == <<[id |-> 0, msglen |-> 0], 0>>

\* The index advanced over a message: at or past the end of the buffer it
\* wraps to zero and the rest of the message follows there.
Advance(i, len) == IF i + len >= Size THEN len - (Size - i) ELSE i + len

\* Mutant: one unit more than there is.
RingSpaceAll(w, r) == Size + 1 - ((IF w < r THEN w + Size ELSE w) - r)

\* _mtx_ringspace
RingSpace(w, r) == Size - ((IF w < r THEN w + Size ELSE w) - r)

\* _mtx_getmessage(ring, NULL), k times: where the read index is then.
Discarded ==
    LET rd[k \in 0..Size] ==
          IF k = 0 THEN rdidx
          ELSE IF rd[k - 1] = wridx THEN wridx
          ELSE Advance(rd[k - 1], buf[rd[k - 1]][1].msglen)
    IN  rd

\* memcpy of a message to the buffer, in two parts if it wraps.
Copied(m) == [i \in 0..(Size - 1) |->
                LET u == (i - wridx + Size) % Size
                IN  IF u < m.msglen THEN <<m, u>> ELSE buf[i]]

\* Reference: what a queue keeps so that, with len more, it is not full.
Total(s) ==
    LET sum[i \in 0..Len(s)] == IF i = 0 THEN 0 ELSE sum[i - 1] + s[i].msglen
    IN  sum[Len(s)]
Kept(s, len) ==
    LET rest(n) == SubSeq(s, n + 1, Len(s))
        fits(n) == Total(rest(n)) + len < Size
    IN  rest(CHOOSE n \in 0..Len(s) : fits(n) /\ \A k \in 0..(n - 1) : ~fits(k))

\* _mtx_putmessage: the oldest messages make place for the new one.
PutMessage ==
    \E len \in Lengths :
        LET m == [id |-> puts + 1, msglen |-> len]
            k == CHOOSE n \in 0..Size :
                    /\ RingSpace(wridx, Discarded[n]) > len
                    /\ \A j \in 0..(n - 1) : RingSpace(wridx, Discarded[j]) <= len
        IN  /\ puts < MaxPuts /\ puts' = puts + 1
            /\ rdidx' = Discarded[k]
            /\ buf' = Copied(m)
            /\ wridx' = Advance(wridx, len)
            /\ fifo' = Append(Kept(fifo, len), m)
            /\ UNCHANGED got

\* _mtx_getmessage: copy the oldest message out.
GetMessage ==
    LET len == buf[rdidx][1].msglen IN
    /\ wridx # rdidx
    /\ got' = [u \in 0..(len - 1) |-> buf[(rdidx + u) % Size]]
    /\ rdidx' = Advance(rdidx, len)
    /\ fifo' = Tail(fifo)
    /\ UNCHANGED <<buf, wridx, puts>>

\* _mtx_clearring
ClearRing == /\ wridx # rdidx
             /\ wridx' = 0 /\ rdidx' = 0 /\ fifo' = <<>>
             /\ UNCHANGED <<buf, got, puts>>

RingInit == /\ buf = [i \in 0..(Size - 1) |-> NoUnit]
            /\ wridx = 0 /\ rdidx = 0 /\ got = <<>> /\ puts = 0 /\ fifo = <<>>

RingNext == PutMessage \/ GetMessage \/ ClearRing

RingSpec == RingInit /\ [][RingNext]_ringVars

-----------------------------------------------------------------------------
\* The units of the ring from the read to the write index are those of the
\* messages of a queue that drops its oldest messages, and no more of them
\* than necessary, to make room, and a message is copied out whole
\* (_mtx_putmessage, _mtx_getmessage).
RingIsFifo ==
    LET pos[k \in 0..Len(fifo)] ==
          IF k = 0 THEN rdidx ELSE Advance(pos[k - 1], fifo[k].msglen)
    IN  /\ pos[Len(fifo)] = wridx
        /\ (wridx = rdidx) <=> (fifo = <<>>)
        /\ \A u \in DOMAIN got : got[u] = <<got[0][1], u>> /\ got[u][1].id # 0
        /\ \A k \in 1..Len(fifo) : \A u \in 0..(fifo[k].msglen - 1) :
              buf[(pos[k - 1] + u) % Size] = <<fifo[k], u>>
=============================================================================
