------------------------------- MODULE LpBuf -------------------------------
(***************************************************************************)
(* The loop buffer between a slow medium (a HTTP connection, a playlist)   *)
(* and the demuxers of the player: libavformat/aviolpbuf.c of              *)
(* libamplayerm3.  A ring of Size bytes keeps what lies ahead of the       *)
(* reader and some of what it has read, so that short seeks in either      *)
(* direction need no new request to the medium.                            *)
(*                                                                         *)
(* Pointers into the buffer are indices 0..Size-1.  A byte is its absolute *)
(* position in the medium.  The low level protocol has a position of its   *)
(* own, low.  Sections under lp->mutex are single steps, but the read of   *)
(* the medium, which runs without the mutex, is not part of one.  Nothing  *)
(* in the repository registers a cache client (aviolpcache.c), so what the *)
(* buffer does with one never happens and is left out.                     *)
(***************************************************************************)
EXTENDS Integers

CONSTANTS
  Thread,      \* the threads that use the buffer
  Size,        \* lp->buffer_size
  Block,       \* lp->block_read_size
  Gap,         \* bytes never filled before the read pointer       (32)
  Keep,        \* bytes at the old end that no seek goes back to   (64)
  Slack,       \* free bytes from which buffering goes on          (1024)
  MaxReadSeek, \* lp->max_read_seek
  Length,      \* the bytes the medium has
  MaxSeek,     \* the largest offset a seek asks for
  Segments,    \* where a seek by time may go to
  MaxRead,     \* the largest read a demuxer asks for
  LowFails     \* whether the medium may refuse a seek or fail a read

ASSUME SizesOK ==
  /\ Size \in Nat /\ Gap \in Nat /\ Keep \in Nat
  /\ 0 < Gap /\ Gap <= Keep /\ Keep < Size
  /\ Block \in Nat \ {0} /\ Slack \in Nat
  /\ Length \in Nat /\ MaxRead \in Nat /\ MaxSeek \in Nat
  /\ MaxReadSeek \in Nat
ASSUME ModesOK == LowFails \in BOOLEAN /\ Segments \subseteq 0..Length

VARIABLES
  streamed,  \* s->is_streamed: the medium cannot seek
  fileSize,  \* lp->file_size: Length, or 0 when the medium does not tell
  buf,       \* what each place of the buffer holds, -1 before it is filled
  rp, wp,    \* where the next byte is read from and filled in
  valid,     \* lp->valid_data_size
  pos,       \* lp->pos: the position of wp, as the buffer counts
  base,      \* where the medium counts from since the last seek by time
  low,       \* the low level position: the next byte the medium gives
  pc,        \* what each thread is about to do
  op,        \* the operation it is in: "read", "skip" (read seek), "buffer"
  left,      \* len in url_lpread, read_offset in the loop of url_lpseek
  got,       \* size - len in url_lpread
  want, tmp, dst, rlen,    \* ssread, tmprp, the destination and rlen
                           \* of url_lpfillbuffer
  target,    \* offset in url_lpseek while it reads forward
  ret,       \* the last answer of each thread, and the offset it had asked
  out        \* the bytes the last step handed to a reader

ring   == <<buf, rp, wp, valid, pos>>
media  == <<streamed, fileSize>>
fill   == <<want, tmp, dst, rlen>>
vars   == <<ring, media, base, low, pc, op, left, got, fill, target,
            ret, out>>

None  == -1
Fail  == -5      \* AVERROR(EIO), and any other error of the medium
Again == -11     \* AVERROR(EAGAIN)

Place == 0..Size - 1
Least(a, b) == IF a <= b THEN a ELSE b
Wrap(i)   == IF i >= Size THEN i - Size ELSE i
Unwrap(i) == IF i < 0 THEN i + Size ELSE i

(* The locals of url_lpfillbuffer, once it has returned. *)
Forget(t) == /\ want' = [want EXCEPT ![t] = 0]
             /\ tmp' = [tmp EXCEPT ![t] = 0]
             /\ dst' = [dst EXCEPT ![t] = 0]
             /\ rlen' = [rlen EXCEPT ![t] = 0]

NoRet == [op |-> "none", asked |-> 0, val |-> 0]
Answer(o, asked, val) == [op |-> o, asked |-> asked, val |-> val]

(* valid_data_can_seek_forward, valid_data_can_seek_back, pos_on_read *)
Fwd  == IF wp >= rp THEN wp - rp ELSE Size - (rp - wp)
Back == LET b == Least(valid - Fwd, Size - Fwd - Keep)
        IN IF b < 0 THEN 0 ELSE b
PosOnRead == pos - Fwd

Unknown == [p \in Place |-> None]

(* The bytes in one piece from the read pointer on. *)
Run == IF wp >= rp THEN wp - rp ELSE Size - rp

Init ==
  /\ streamed \in BOOLEAN
  /\ fileSize \in {0, Length}
  /\ buf = Unknown
  /\ rp = 0 /\ wp = 0 /\ valid = 0 /\ pos = 0 /\ base = 0 /\ low = 0
  /\ pc = [t \in Thread |-> "idle"]
  /\ op = [t \in Thread |-> "read"]
  /\ left = [t \in Thread |-> 0]
  /\ got = [t \in Thread |-> 0]
  /\ want = [t \in Thread |-> 0]
  /\ tmp = [t \in Thread |-> 0]
  /\ dst = [t \in Thread |-> 0]
  /\ rlen = [t \in Thread |-> 0]
  /\ target = [t \in Thread |-> 0]
  /\ ret = [t \in Thread |-> NoRet]
  /\ out = << >>

-----------------------------------------------------------------------------
(* url_lpread: copy what is there, fill the buffer when nothing is. *)

Read(t) ==
  /\ pc[t] = "idle"
  /\ pc' = [pc EXCEPT ![t] = "read"]
  /\ op' = [op EXCEPT ![t] = "read"]
  /\ \E n \in 1..MaxRead : left' = [left EXCEPT ![t] = n]
  /\ got' = [got EXCEPT ![t] = 0]
  /\ ret' = [ret EXCEPT ![t] = NoRet]
  /\ UNCHANGED <<ring, media, base, low, fill, target, out>>

Copy(t) ==
  LET n == Least(left[t], Run)
  IN /\ pc[t] = "read"
     /\ Run > 0
     /\ out' = IF op[t] = "read" THEN [i \in 1..n |-> buf[rp + i - 1]]
                                 ELSE << >>
     /\ rp' = Wrap(rp + n)
     /\ left' = [left EXCEPT ![t] = @ - n]
     /\ IF n < left[t]
        THEN /\ got' = [got EXCEPT ![t] = @ + n]
             /\ UNCHANGED <<pc, ret>>
        ELSE /\ got' = [got EXCEPT ![t] = 0]
             /\ pc' = [pc EXCEPT ![t] = "idle"]
             /\ ret' = [ret EXCEPT ![t] =
                  IF op[t] = "read" THEN Answer("read", got[t] + n, got[t] + n)
                                    ELSE Answer("seek", target[t], 0)]
     /\ UNCHANGED <<buf, wp, valid, pos, media, base, low, op, fill,
                    target>>

NeedFill(t) ==
  /\ pc[t] = "read"
  /\ Run = 0
  /\ pc' = [pc EXCEPT ![t] = "fill"]
  /\ UNCHANGED <<ring, media, base, low, op, left, got, fill, target,
                 ret, out>>

-----------------------------------------------------------------------------
(* url_lp_intelligent_buffering: fill the buffer before a reader asks. *)

Buffer(t) ==
  /\ pc[t] = "idle"
  /\ Fwd + Back < Size - Slack \/ Back > Fwd \div 2 + 1
  /\ pc' = [pc EXCEPT ![t] = "fill"]
  /\ op' = [op EXCEPT ![t] = "buffer"]
  /\ ret' = [ret EXCEPT ![t] = NoRet]
  /\ UNCHANGED <<ring, media, base, low, left, got, fill, target, out>>

-----------------------------------------------------------------------------
\* Mutant: a read seek tries again whatever the medium says.
Back2Retry(t, r) ==
  \/ /\ op[t] = "buffer"
     /\ pc' = [pc EXCEPT ![t] = "idle"]
     /\ UNCHANGED <<left, got, ret>>
  \/ /\ op[t] # "buffer" /\ (r > 0 \/ op[t] = "skip")
     /\ pc' = [pc EXCEPT ![t] = "read"]
     /\ UNCHANGED <<left, got, ret>>
  \/ /\ op[t] = "read" /\ r <= 0
     /\ pc' = [pc EXCEPT ![t] = "idle"]
     /\ ret' = [ret EXCEPT ![t] = Answer("read", r, r)]
     /\ got' = [got EXCEPT ![t] = 0]
     /\ left' = [left EXCEPT ![t] = 0]

(* url_lpfillbuffer, and what its callers make of its result r. *)

Back2Caller(t, r) ==
  \/ /\ op[t] = "buffer"
     /\ pc' = [pc EXCEPT ![t] = "idle"]
     /\ UNCHANGED <<left, got, ret>>
  \/ /\ op[t] # "buffer" /\ r > 0
     /\ pc' = [pc EXCEPT ![t] = "read"]
     /\ UNCHANGED <<left, got, ret>>
  \/ /\ op[t] = "read" /\ r <= 0
     /\ pc' = [pc EXCEPT ![t] = "idle"]
     /\ ret' = [ret EXCEPT ![t] =
                  LET n == IF got[t] > 0 THEN got[t] ELSE r
                  IN Answer("read", n, n)]
     /\ got' = [got EXCEPT ![t] = 0]
     /\ left' = [left EXCEPT ![t] = 0]
  \/ /\ op[t] = "skip" /\ r <= 0 /\ (got[t] > 0 \/ r = Again)
     /\ pc' = [pc EXCEPT ![t] = "read"]
     /\ got' = [got EXCEPT ![t] = 0]
     /\ UNCHANGED <<left, ret>>
  \/ /\ op[t] = "skip" /\ r <= 0 /\ got[t] = 0 /\ r # Again
     /\ pc' = [pc EXCEPT ![t] = "idle"]
     /\ ret' = [ret EXCEPT ![t] = Answer("seek", target[t], r)]
     /\ left' = [left EXCEPT ![t] = 0]
     /\ UNCHANGED got

\* Mutant: the gap is kept at the end of the buffer, too.
RoomGap == IF wp >= rp THEN Least(Block, Size - wp - Gap)
                       ELSE Least(Block, rp - wp - Gap)

(* ssread *)
Room == IF wp >= rp
        THEN IF rp # 0 THEN Least(Block, Size - wp)
                       ELSE Least(Block, Size - wp - Gap)
        ELSE Least(Block, rp - wp - Gap)

NothingToFill(t) ==
  /\ pc[t] = "fill"
  /\ Room <= 0
  /\ Back2Caller(t, 0)
  /\ UNCHANGED <<ring, media, base, low, op, fill, target, out>>

\* Mutant: the write pointer is not wrapped.
AccountFlat(k) ==
  /\ valid' = valid + k
  /\ pos' = pos + k
  /\ wp' = wp + k

(* k bytes have come in at wp. *)
Account(k) ==
  /\ valid' = valid + k
  /\ pos' = pos + k
  /\ wp' = IF wp + k >= Size THEN 0 ELSE wp + k

FileEnded(t) ==
  /\ pc[t] = "fill"
  /\ Room > 0
  /\ fileSize > 0 /\ pos >= fileSize
  /\ Back2Caller(t, 0)
  /\ UNCHANGED <<ring, media, base, low, op, fill, target, out>>

(* The mutex is released for the read of the medium. *)
StartFill(t) ==
  /\ pc[t] = "fill"
  /\ Room > 0
  /\ ~(fileSize > 0 /\ pos >= fileSize)
  /\ want' = [want EXCEPT ![t] = Room]
  /\ tmp' = [tmp EXCEPT ![t] = pos]
  /\ pc' = [pc EXCEPT ![t] = "call"]
  /\ UNCHANGED <<ring, media, base, low, op, left, got, dst, rlen, target,
                 ret, out>>

(* lp->wp is read, without the mutex, for the call of url_read. *)
CallRead(t) ==
  /\ pc[t] = "call"
  /\ dst' = [dst EXCEPT ![t] = wp]
  /\ pc' = [pc EXCEPT ![t] = "reading"]
  /\ UNCHANGED <<ring, media, base, low, op, left, got, want, tmp,
                 rlen, target, ret, out>>

MediumGives(t) ==
  /\ pc[t] = "reading"
  /\ \E k \in 1..Least(want[t], Length - low) :
       /\ buf' = [p \in Place |-> IF p \in dst[t]..dst[t] + k - 1
                                  THEN low + p - dst[t] ELSE buf[p]]
       /\ low' = low + k
       /\ rlen' = [rlen EXCEPT ![t] = k]
  /\ pc' = [pc EXCEPT ![t] = "filled"]
  /\ UNCHANGED <<rp, wp, valid, pos, media, base, op, left, got, want,
                 tmp, dst, target, ret, out>>

(* No bytes: the end, an error, or a medium that has nothing yet (an empty  *)
(* fifo of the playlist, a HTTP server that is slow).                      *)
MediumEnds(t) ==
  /\ pc[t] = "reading"
  /\ \E r \in {0, Fail, Again} :
       /\ r = 0 => low >= Length
       /\ r = Fail => LowFails
       /\ rlen' = [rlen EXCEPT ![t] = r]
  /\ pc' = [pc EXCEPT ![t] = "filled"]
  /\ UNCHANGED <<ring, media, base, low, op, left, got, want, tmp, dst,
                 target, ret, out>>

Filled(t) ==
  LET r == IF tmp[t] # pos THEN Again ELSE rlen[t]
  IN /\ pc[t] = "filled"
     /\ IF r > 0
        THEN Account(r)
        ELSE UNCHANGED <<wp, valid, pos>>
     /\ Back2Caller(t, r)
     /\ Forget(t)
     /\ UNCHANGED <<buf, rp, media, base, low, op, target, out>>

-----------------------------------------------------------------------------
(* url_lpseek with SEEK_SET; SEEK_CUR adds the position first. *)

\* Mutant: the account of old bytes survives the seek.
EmptyAhead == rp' = 0 /\ wp' = 0 /\ UNCHANGED valid /\ buf' = Unknown

(* All pointers back to the start of the buffer.  The bytes stay there; in *)
(* the model they count as unknown, so that no later step may rely on one. *)
Empty == rp' = 0 /\ wp' = 0 /\ valid' = 0 /\ buf' = Unknown

(* A seek that reads on.  Every medium that gets this buffer says of itself *)
(* that it is slow (s->is_slowmedia).                                      *)
Reads(offset1, less) ==
  \/ streamed /\ offset1 > 0
  \/ /\ offset1 > 0
     /\ offset1 < Size - Block
     /\ fileSize = 0 \/ offset1 < fileSize \div 2
     /\ offset1 <= IF less THEN MaxReadSeek \div 16 ELSE MaxReadSeek

\* Mutant: one byte more than is buffered ahead.
InBufferPast(offset1) == -Back <= offset1 /\ offset1 <= Fwd + 1

InBuffer(offset1) == -Back <= offset1 /\ offset1 <= Fwd

Seeks(t) == /\ pc[t] = "idle"
            /\ out' = << >>
            /\ UNCHANGED <<media, fill>>

SeekInBuffer(t) ==
  \E offset \in 0..MaxSeek :
    /\ Seeks(t)
    /\ InBuffer(offset - PosOnRead)
    /\ rp' = Unwrap(Wrap(rp + offset - PosOnRead))
    /\ ret' = [ret EXCEPT ![t] = Answer("seek", offset, offset)]
    /\ UNCHANGED <<buf, wp, valid, pos, base, low, pc, op, left, got,
                   target>>

(* The read seek: the reader skips what is buffered and url_lpread is      *)
(* called without a destination for the rest.                              *)
SeekByReading(t) ==
  \E offset \in 0..MaxSeek, less \in BOOLEAN :
    LET offset1 == offset - PosOnRead
    IN /\ Seeks(t)
       /\ ~InBuffer(offset1) /\ Reads(offset1, less)
       /\ rp' = Wrap(rp + Fwd)
       /\ left' = [left EXCEPT ![t] = offset1 - Fwd]
       /\ got' = [got EXCEPT ![t] = 0]
       /\ target' = [target EXCEPT ![t] = offset]
       /\ op' = [op EXCEPT ![t] = "skip"]
       /\ pc' = [pc EXCEPT ![t] = "read"]
       /\ ret' = [ret EXCEPT ![t] = NoRet]
       /\ UNCHANGED <<buf, wp, valid, pos, base, low>>

SeekMedium(t) ==
  \E offset \in 0..MaxSeek, less \in BOOLEAN :
    LET offset1 == offset - PosOnRead
    IN /\ Seeks(t)
       /\ ~InBuffer(offset1) /\ ~Reads(offset1, less)
       /\ Empty
       /\ pos' = offset
       /\ low' = base + offset
       /\ ret' = [ret EXCEPT ![t] = Answer("seek", offset, offset)]
       /\ UNCHANGED <<base, pc, op, left, got, target>>

(* A refused seek: the medium stays, or is moved, where the buffer ends;   *)
(* or it has no url_seek at all.                                           *)
SeekRefused(t) ==
  \E offset \in 0..MaxSeek, less \in BOOLEAN :
    LET offset1 == offset - PosOnRead
    IN /\ Seeks(t)
       /\ LowFails
       /\ ~InBuffer(offset1) /\ ~Reads(offset1, less)
       /\ \/ /\ valid' = 0 /\ low' = base + pos
             /\ ret' = [ret EXCEPT ![t] = Answer("refused", offset, pos)]
          \/ /\ valid' \in {0, valid} /\ low' = low
             /\ ret' = [ret EXCEPT ![t] = Answer("refused", offset, Fail)]
       /\ UNCHANGED <<buf, rp, wp, pos, base, pc, op, left, got, target>>

(* SEEK_END always moves the medium. *)
SeekEnd(t) ==
  /\ Seeks(t)
  /\ ~streamed
  /\ \E offset \in 0..Length :
       \/ /\ Empty
          /\ pos' = offset
          /\ low' = base + offset
          /\ ret' = [ret EXCEPT ![t] = Answer("seek", offset, offset)]
       \/ /\ LowFails
          /\ ret' = [ret EXCEPT ![t] = Answer("seek", offset, Fail)]
          /\ UNCHANGED <<ring, low>>
  /\ UNCHANGED <<base, pc, op, left, got, target>>

(* url_lpexseek with AVSEEK_TO_TIME: a playlist goes to the segment of the *)
(* time and counts its bytes from there.                                   *)
SeekToTime(t) ==
  /\ Seeks(t)
  /\ streamed /\ fileSize = 0
  /\ \/ /\ Empty
        /\ pos' = 0
        /\ \E b \in Segments : base' = b /\ low' = b
        /\ ret' = [ret EXCEPT ![t] = Answer("time", 0, 0)]
     \/ /\ LowFails
        /\ ret' = [ret EXCEPT ![t] = Answer("time", 0, Fail)]
        /\ UNCHANGED <<ring, base, low>>
  /\ UNCHANGED <<pc, op, left, got, target>>

-----------------------------------------------------------------------------
FillStep(t) ==
  \/ NothingToFill(t) \/ FileEnded(t) \/ StartFill(t) \/ CallRead(t)
  \/ MediumGives(t) \/ MediumEnds(t) \/ Filled(t)

Continue(t) == Copy(t) \/ NeedFill(t) \/ FillStep(t)

Start(t) ==
  \/ Read(t) \/ Buffer(t) \/ SeekInBuffer(t) \/ SeekByReading(t)
  \/ SeekMedium(t) \/ SeekRefused(t) \/ SeekEnd(t) \/ SeekToTime(t)

Next == \E t \in Thread : Continue(t) \/ Start(t)

Spec == Init /\ [][Next]_vars

(* A thread that is in a call goes on; which calls are made is the         *)
(* player's affair.                                                        *)
FairSpec == Spec /\ \A t \in Thread : WF_vars(Continue(t))

-----------------------------------------------------------------------------
Filling(t) == pc[t] \in {"call", "reading", "filled"}

RetType == [op : {"none", "read", "seek", "refused", "time"},
            asked : Int, val : Int]

(* The pointers stay inside the buffer, whatever is in flight fits in      *)
(* behind the write pointer, and nobody waits with nothing left to do.     *)
TypeOK ==
  /\ buf \in [Place -> Int] /\ rp \in Place /\ wp \in Place
  /\ valid \in Nat /\ pos \in Nat /\ base \in Nat /\ low \in Nat
  /\ streamed \in BOOLEAN /\ fileSize \in {0, Length}
  /\ pc \in [Thread -> {"idle", "read", "fill", "call", "reading", "filled"}]
  /\ op \in [Thread -> {"read", "skip", "buffer"}]
  /\ left \in [Thread -> Nat] /\ got \in [Thread -> Nat]
  /\ want \in [Thread -> Nat] /\ tmp \in [Thread -> Nat]
  /\ dst \in [Thread -> Place] /\ rlen \in [Thread -> Int]
  /\ target \in [Thread -> Nat]
  /\ ret \in [Thread -> RetType]
  /\ \A t \in Thread : pc[t] = "reading" => dst[t] + want[t] <= Size

(* With no fill in flight, every byte that a read or a seek inside the     *)
(* buffer can reach is the byte the medium has at its position: fills,     *)
(* wraps, kept old bytes and the account of them agree (lines 196-270 and  *)
(* 391-417).                                                               *)
RingRight ==
  (\A t \in Thread : ~Filling(t)) =>
    \A j \in 1..Fwd + Back : buf[Unwrap(wp - j)] = base + pos - j

(* A read that answers 0, the end of the stream, has handed out the last   *)
(* byte of the medium; a full buffer or a wrapped pointer never looks like *)
(* the end (url_lpread, line 300).                                         *)
NoFalseEnd ==
  \A t \in Thread : ret[t].op = "read" /\ ret[t].val = 0
                      => base + PosOnRead >= Length

(* avio_seek takes a seek that does not answer with an error as done and   *)
(* counts from the offset it asked for: the next read must hand out the    *)
(* byte of that offset, unless the medium ended on the way there           *)
(* (url_lpseek, lines 406-467).                                            *)
SeekLands ==
  \A t \in Thread : ret[t].op = "seek" /\ ret[t].val >= 0
                      => \/ PosOnRead = ret[t].asked
                         \/ base + PosOnRead >= Length

(* The same of a seek that the medium has refused (lines 456-462).         *)
SeekTold ==
  \A t \in Thread : ret[t].op \in {"seek", "refused"} /\ ret[t].val >= 0
                      => PosOnRead = ret[t].asked

(* The loop buffer is a seekable stream: reads hand out consecutive bytes  *)
(* from the position on, whatever is buffered, refilled or kept.           *)
Stream == INSTANCE SeekableStream WITH at <- base + PosOnRead, out <- out
IsStream == Stream!Spec

(* Every call of the player comes back: no read waits in an empty buffer   *)
(* that cannot be filled and no read seek goes round for ever (aviolpbuf.c *)
(* 285-324 and 434-443).  Except that a read seek reads again, without a   *)
(* bound, while the medium has nothing yet.                                *)
Stalled(t) == op[t] = "skip" /\ rlen[t] = Again
Returns ==
  \A t \in Thread : <>[]~Stalled(t) => (pc[t] # "idle" ~> pc[t] = "idle")
=============================================================================
