---------------------------- MODULE LpBufProofs ----------------------------
(***************************************************************************)
(* Proofs about LpBuf, whatever the sizes, for threads that take turns.    *)
(***************************************************************************)
EXTENDS LpBuf, TLAPS

OneThread == \A s, t \in Thread : s = t

(* No call of another thread is under way. *)
Alone(t) == \A s \in Thread : s # t => pc[s] = "idle"

TurnNext == \E t \in Thread : Alone(t) /\ (Continue(t) \/ Start(t))
TurnSpec == Init /\ [][TurnNext]_vars

(* The bytes the buffer still holds in order, up to the write pointer. *)
Held == IF Fwd >= valid THEN Fwd ELSE Least(valid, Size)

(* The last Held bytes are those before pos, except where a read of the    *)
(* medium has already put the next ones.                                   *)
HeldRight ==
  \A j \in 1..Held :
    (\A t \in Thread : pc[t] = "filled" => j <= Size - rlen[t])
      => buf[Unwrap(wp - j)] = base + pos - j

(* Between fills the medium stands where the buffer ends; a fill in flight *)
(* is for the room behind the write pointer.                               *)
InFlight(t) ==
  /\ pc[t] \notin {"call", "reading", "filled"} => low = base + pos
  /\ pc[t] \in {"call", "reading", "filled"} =>
       /\ tmp[t] = pos
       /\ want[t] >= 1 /\ wp + want[t] <= Size /\ Fwd + want[t] < Size
  /\ pc[t] \in {"call", "reading"} => low = base + pos
  /\ pc[t] \in {"reading", "filled"} => dst[t] = wp
  /\ pc[t] = "filled" =>
       /\ rlen[t] <= want[t]
       /\ rlen[t] <= 0 => low = base + pos
       /\ rlen[t] = 0 => low >= Length
       /\ rlen[t] > 0 => /\ low = base + pos + rlen[t]
                         /\ \A i \in 0..rlen[t] - 1 :
                              buf[wp + i] = base + pos + i

(* What a thread in url_lpread or in a read seek relies on. *)
InCall(t) ==
  /\ pc[t] # "idle" => ret[t] = NoRet
  /\ pc[t] # "idle" /\ op[t] # "buffer" => left[t] > 0
  /\ pc[t] \in {"fill", "call", "reading", "filled"} /\ op[t] # "buffer"
       => rp = wp
  /\ pc[t] # "idle" /\ op[t] = "skip" => PosOnRead + left[t] = target[t]
  /\ pc[t] = "read" => op[t] # "buffer"

(* What the thread whose turn it is finds and leaves. *)
Turn(t) == /\ TypeOK
           /\ Fwd <= pos
           /\ HeldRight
           /\ InFlight(t)
           /\ InCall(t)
           /\ OneThread => NoFalseEnd /\ SeekLands

IInv == /\ TypeOK
        /\ Fwd <= pos
        /\ HeldRight
        /\ \A t \in Thread : (Alone(t) => InFlight(t)) /\ InCall(t)
        /\ OneThread => NoFalseEnd /\ SeekLands

-----------------------------------------------------------------------------
(* Nothing is in the way of the bytes the buffer holds. *)
AllRight == \A j \in 1..Held : buf[Unwrap(wp - j)] = base + pos - j

LEMMA Sums ==
  \A a, b \in Nat : a + 0 = a /\ a + b \in Nat /\ (b <= a => a - b \in Nat)
  OBVIOUS

LEMMA Distance ==
  \A r, w \in Place : (IF w >= r THEN w - r ELSE Size - (r - w)) \in Nat
  BY SizesOK DEF Place

LEMMA AnswerType ==
  /\ NoRet \in RetType
  /\ \A o \in {"read", "seek", "refused", "time"}, a \in Int, v \in Int :
       Answer(o, a, v) \in RetType
  BY DEF NoRet, Answer, RetType

LEMMA AnswerTells ==
  \A o, a, v : /\ Answer(o, a, v).op = o /\ Answer(o, a, v).asked = a
               /\ Answer(o, a, v).val = v
  BY DEF Answer

LEMMA Amounts ==
  ASSUME TypeOK, Fwd <= pos
  PROVE  /\ Fwd \in 0..Size - 1 /\ Held \in 0..Size /\ Fwd <= Held
         /\ Back \in Nat /\ Fwd + Back <= Held
         /\ Back > 0 => Fwd + Back <= Size - Keep
         /\ PosOnRead \in Nat
         /\ Run \in 0..Fwd /\ (Run = 0 <=> rp = wp)
  BY SizesOK DEF TypeOK, Place, Fwd, Held, Back, PosOnRead, Run, Least

LEMMA Whole ==
  ASSUME NEW t \in Thread, Turn(t), Alone(t), pc[t] # "filled"
  PROVE  AllRight
  BY DEF Alone, Turn, HeldRight, AllRight

LEMMA WholeNext ==
  ASSUME AllRight'
  PROVE  HeldRight'
  BY DEF HeldRight, AllRight

(* A step that leaves the ring alone keeps what it holds. *)
LEMMA RingKeeps ==
  ASSUME NEW t \in Thread, Turn(t), Alone(t), pc[t] # "filled",
         ring' = ring, base' = base
  PROVE  HeldRight'
  <1>1. AllRight
    BY Whole
  <1>2. AllRight'
    BY <1>1 DEF AllRight, ring, Held, Fwd, Least, Unwrap
  <1> QED
    BY <1>2, WholeNext

(* What a fill hands back keeps the types. *)
LEMMA BackTypes ==
  ASSUME TypeOK, NEW t \in Thread, NEW r \in Int, Back2Caller(t, r)
  PROVE  /\ pc' \in [Thread -> {"idle", "read", "fill", "call", "reading",
                                "filled"}]
         /\ left' \in [Thread -> Nat] /\ got' \in [Thread -> Nat]
         /\ ret' \in [Thread -> RetType]
  <1>1. ret \in [Thread -> RetType] /\ target[t] \in Int /\ got[t] \in Int
    BY DEF TypeOK
  <1>2. /\ Answer("read", IF got[t] > 0 THEN got[t] ELSE r,
                  IF got[t] > 0 THEN got[t] ELSE r) \in RetType
        /\ Answer("seek", target[t], r) \in RetType
    BY <1>1, AnswerType
  <1>3. ret' \in [Thread -> RetType]
    BY <1>1, <1>2 DEF Back2Caller
  <1>4. pc' \in [Thread -> {"idle", "read", "fill", "call", "reading",
                            "filled"}]
    BY DEF TypeOK, Back2Caller
  <1>5. left' \in [Thread -> Nat] /\ got' \in [Thread -> Nat]
    BY DEF TypeOK, Back2Caller
  <1> QED
    BY <1>3, <1>4, <1>5

LEMMA NothingToFillKeeps ==
  ASSUME NEW t \in Thread, Turn(t), Alone(t), NothingToFill(t)
  PROVE  TypeOK' /\ HeldRight'
  <1>1. TypeOK /\ Back2Caller(t, 0)
    BY DEF Turn, NothingToFill
  <1>2. /\ pc' \in [Thread -> {"idle", "read", "fill", "call", "reading",
                                "filled"}]
        /\ left' \in [Thread -> Nat] /\ got' \in [Thread -> Nat]
        /\ ret' \in [Thread -> RetType]
    BY <1>1, BackTypes
  <1>3. TypeOK'
    <2>1. \A s \in Thread : pc'[s] # "reading"
      BY <1>1 DEF Alone, NothingToFill, Back2Caller, TypeOK
    <2> QED
      BY <1>1, <1>2, <2>1 DEF TypeOK, NothingToFill, ring, media, fill
  <1>4. HeldRight'
    BY RingKeeps DEF NothingToFill
  <1> QED
    BY <1>3, <1>4

LEMMA FileEndedKeeps ==
  ASSUME NEW t \in Thread, Turn(t), Alone(t), FileEnded(t)
  PROVE  HeldRight'
  BY RingKeeps DEF FileEnded

LEMMA MediumEndsKeeps ==
  ASSUME NEW t \in Thread, Turn(t), Alone(t), MediumEnds(t)
  PROVE  TypeOK' /\ HeldRight'
  <1>1. PICK r \in {0, Fail, Again} : rlen' = [rlen EXCEPT ![t] = r]
    BY DEF MediumEnds
  <1>2. rlen' \in [Thread -> Int]
    BY <1>1 DEF Turn, TypeOK, Fail, Again
  <1>3. TypeOK'
    BY <1>2 DEF Turn, TypeOK, MediumEnds, ring, media
  <1>4. HeldRight'
    BY RingKeeps DEF MediumEnds
  <1> QED
    BY <1>3, <1>4

LEMMA MediumGivesKeeps ==
  ASSUME NEW t \in Thread, Turn(t), Alone(t), MediumGives(t)
  PROVE  TypeOK' /\ HeldRight' /\ InFlight(t)'
  <1> DEFINE New(k) == [p \in Place |-> IF p \in dst[t]..dst[t] + k - 1
                                        THEN low + p - dst[t] ELSE buf[p]]
  <1>1. PICK k \in 1..Least(want[t], Length - low) :
          buf' = New(k) /\ low' = low + k /\ rlen' = [rlen EXCEPT ![t] = k]
    BY DEF MediumGives
  <1>2. /\ k \in 1..want[t] /\ low = base + pos /\ dst[t] = wp /\ tmp[t] = pos
        /\ want[t] >= 1 /\ wp + want[t] <= Size /\ Fwd + want[t] < Size
    BY SizesOK DEF Turn, TypeOK, InFlight, MediumGives, Least
  <1>a. /\ buf \in [Place -> Int] /\ low \in Int /\ dst[t] \in Int
        /\ wp \in 0..Size - 1 /\ Size \in Nat /\ want[t] \in Int
    <2>1. TypeOK
      BY DEF Turn
    <2>2. buf \in [Place -> Int] /\ low \in Int /\ wp \in 0..Size - 1
      BY <2>1 DEF TypeOK, Place
    <2>3. dst[t] \in Int /\ want[t] \in Int
      <3>1. dst[t] \in Place /\ want[t] \in Nat
        BY <2>1 DEF TypeOK
      <3> QED
        BY <3>1, SizesOK DEF Place
    <2> QED
      BY <2>2, <2>3, SizesOK
  <1>b. k \in Nat /\ k > 0 /\ wp + k <= Size
    BY <1>2, <1>a
  <1>3. New(k) \in [Place -> Int]
    <2>1. buf \in [Place -> Int] /\ low \in Int /\ dst[t] \in Int
      BY <1>a
    <2>2. \A p \in Place : low + p - dst[t] \in Int /\ buf[p] \in Int
      BY <2>1, SizesOK DEF Place
    <2> QED
      BY <2>2
  <1>4. low' \in Nat /\ rlen' \in [Thread -> Int]
    BY <1>1, <1>2 DEF Turn, TypeOK
  <1>5. TypeOK'
    BY <1>1, <1>3, <1>4 DEF Turn, TypeOK, MediumGives, media
  <1>6. AllRight
    BY Whole DEF MediumGives
  <1>7. Held' = Held /\ Fwd' = Fwd /\ Held \in 0..Size
    BY Amounts DEF Turn, MediumGives, Held, Fwd, Least
  <1>8. HeldRight'
    <2> SUFFICES ASSUME NEW j \in 1..Held, j <= Size - k
                 PROVE  (buf[Unwrap(wp - j)] = base + pos - j)'
      BY <1>1, <1>7 DEF HeldRight, MediumGives, Turn, TypeOK
    <2>1. /\ Unwrap(wp - j) \in Place
          /\ Unwrap(wp - j) \notin dst[t]..dst[t] + k - 1
      <3>1. /\ wp \in 0..Size - 1 /\ Size \in Nat /\ k \in Nat /\ wp + k <= Size
            /\ k > 0 /\ j \in Nat /\ j > 0 /\ j <= Size - k /\ dst[t] = wp
        BY <1>2, <1>7, <1>a, <1>b
      <3> QED
        BY <3>1 DEF Unwrap, Place
    <2>2. New(k)[Unwrap(wp - j)] = buf[Unwrap(wp - j)]
      BY <2>1
    <2>3. buf[Unwrap(wp - j)] = base + pos - j
      BY <1>6, <1>7 DEF AllRight
    <2> QED
      BY <1>1, <2>2, <2>3 DEF MediumGives, Unwrap
  <1>9. InFlight(t)'
    <2>1. \A i \in 0..k - 1 : New(k)[wp + i] = base + pos + i
      <3>1. /\ wp \in 0..Size - 1 /\ k \in Nat /\ wp + k <= Size /\ dst[t] = wp
            /\ low \in Int /\ low = base + pos /\ Size \in Nat
        BY <1>2, <1>a, <1>b
      <3> SUFFICES ASSUME NEW i \in 0..k - 1
                   PROVE  New(k)[wp + i] = low + i
        BY <3>1
      <3>2. wp + i \in Place /\ wp + i \in dst[t]..dst[t] + k - 1
        BY <3>1 DEF Place
      <3>3. New(k)[wp + i] = low + (wp + i) - dst[t]
        BY <3>2
      <3> QED
        BY <3>1, <3>3
    <2>2. low' = base + pos + k
      BY <1>1, <1>2
    <2>3. rlen'[t] = k /\ pc'[t] = "filled"
      BY <1>1 DEF Turn, TypeOK, MediumGives
    <2>4. /\ pos' = pos /\ base' = base /\ wp' = wp /\ want' = want
          /\ tmp' = tmp /\ dst' = dst
      BY DEF MediumGives
    <2>5. k > 0 /\ k <= want[t] /\ buf' = New(k)
      BY <1>1, <1>2, SizesOK DEF Turn, TypeOK
    <2>6. InFlight(t)'
      <3>1. /\ tmp'[t] = pos' /\ dst'[t] = wp' /\ want'[t] >= 1
            /\ wp' + want'[t] <= Size /\ Fwd' + want'[t] < Size
        BY <1>2, <1>7, <2>4
      <3>2. \A i \in 0..rlen'[t] - 1 : buf'[wp' + i] = base' + pos' + i
        BY <2>1, <2>3, <2>4, <2>5
      <3>3. /\ rlen'[t] > 0 /\ rlen'[t] <= want'[t]
            /\ low' = base' + pos' + rlen'[t]
        BY <2>2, <2>3, <2>4, <2>5
      <3>4. rlen'[t] # 0 /\ ~(rlen'[t] <= 0)
        BY <1>b, <2>3
      <3> QED
        BY <2>3, <3>1, <3>2, <3>3, <3>4 DEF InFlight
    <2> QED
      BY <2>6
  <1> QED
    BY <1>5, <1>8, <1>9

(* Where the pointers are after k more bytes. *)
LEMMA Forward ==
  ASSUME TypeOK, Fwd <= pos, NEW k \in Nat, k > 0, wp + k <= Size,
         Fwd + k < Size, Account(k), rp' = rp
  PROVE  /\ wp' \in Place /\ pos' \in Nat /\ valid' \in Nat
         /\ Fwd' = Fwd + k /\ PosOnRead' = PosOnRead
         /\ Held' <= Held + k /\ Held' <= Size
  BY SizesOK DEF TypeOK, Account, Place, Fwd, PosOnRead, Held, Least

LEMMA FilledKeeps ==
  ASSUME NEW t \in Thread, Turn(t), Alone(t), Filled(t)
  PROVE  Turn(t)'
  <1> DEFINE k == rlen[t]
  <1>1. /\ TypeOK /\ Fwd <= pos /\ tmp[t] = pos /\ pc[t] = "filled"
        /\ wp + want[t] <= Size /\ Fwd + want[t] < Size /\ k <= want[t]
        /\ k \in Int /\ dst[t] = wp /\ want[t] \in Nat
    BY DEF Turn, InFlight, Filled, TypeOK
  <1>2. /\ Back2Caller(t, k)
        /\ k > 0 => Account(k)
        /\ k <= 0 => ring' = ring
        /\ buf' = buf /\ rp' = rp /\ base' = base /\ low' = low /\ op' = op
        /\ target' = target /\ fileSize' = fileSize /\ streamed' = streamed
    BY <1>1 DEF Filled, ring, media
  <1>3. /\ Fwd' <= pos' /\ PosOnRead' = PosOnRead
        /\ wp' \in Place /\ pos' \in Nat /\ valid' \in Nat
        /\ k > 0 => Held' <= Held + k /\ Held' <= Size
        /\ k > 0 => Fwd' = Fwd + k
    <2>1. CASE k > 0
      <3>1. k \in Nat /\ wp + k <= Size /\ Fwd + k < Size
        <4>1. Fwd \in 0..Size - 1
          BY <1>1, Amounts
        <4>2. Fwd \in Nat /\ wp \in Nat /\ want[t] \in Nat /\ Size \in Nat
          BY <4>1, <1>1, SizesOK DEF TypeOK, Place
        <4> QED
          BY <2>1, <1>1, <4>2
      <3>2. Account(k) /\ rp' = rp
        BY <2>1, <1>2
      <3>3. /\ wp' \in Place /\ pos' \in Nat /\ valid' \in Nat
            /\ Fwd' = Fwd + k /\ PosOnRead' = PosOnRead
            /\ Held' <= Held + k /\ Held' <= Size
        BY <1>1, <2>1, <3>1, <3>2, Forward
      <3>4. Fwd' <= pos'
        BY <1>1, <3>1, <3>2, <3>3, Amounts DEF Account, TypeOK
      <3> QED
        BY <3>3, <3>4, <2>1
    <2>2. CASE k <= 0
      BY <2>2, <1>1, <1>2 DEF ring, Fwd, PosOnRead, TypeOK
    <2> QED
      BY <2>1, <2>2, <1>1
  <1>4. low' = base' + pos'
    <2>1. CASE k > 0
      BY <2>1, <1>1, <1>2 DEF Turn, InFlight, Account, TypeOK
    <2>2. CASE k <= 0
      BY <2>2, <1>1, <1>2 DEF Turn, InFlight, ring
    <2> QED
      BY <2>1, <2>2, <1>1
  <1>5. /\ pc'[t] \in {"idle", "read"}
        /\ \A s \in Thread : s # t => pc[s] = "idle" /\ pc'[s] = "idle"
    BY <1>1, <1>2 DEF Alone, Back2Caller, TypeOK
  <1>6. TypeOK'
    <2>1. /\ pc' \in [Thread -> {"idle", "read", "fill", "call", "reading",
                                  "filled"}]
          /\ left' \in [Thread -> Nat] /\ got' \in [Thread -> Nat]
          /\ ret' \in [Thread -> RetType]
      BY <1>1, <1>2, BackTypes
    <2>2. /\ want' \in [Thread -> Nat] /\ tmp' \in [Thread -> Nat]
          /\ dst' \in [Thread -> Place] /\ rlen' \in [Thread -> Int]
      <3>1. 0 \in Nat /\ 0 \in Int /\ 0 \in Place
        BY SizesOK DEF Place
      <3>2. /\ want' = [want EXCEPT ![t] = 0] /\ tmp' = [tmp EXCEPT ![t] = 0]
            /\ dst' = [dst EXCEPT ![t] = 0] /\ rlen' = [rlen EXCEPT ![t] = 0]
        BY DEF Filled, Forget
      <3> QED
        BY <1>1, <3>1, <3>2 DEF TypeOK
    <2> QED
      BY <1>1, <1>2, <1>3, <1>5, <2>1, <2>2 DEF TypeOK
  <1>7. AllRight'
    <2>1. CASE k <= 0
      <3>1. \A j \in 1..Held : buf[Unwrap(wp - j)] = base + pos - j
        BY <2>1, <1>1, <1>5, Amounts, SizesOK DEF Turn, HeldRight
      <3> QED
        BY <3>1, <2>1, <1>2 DEF AllRight, ring, Held, Fwd, Least, Unwrap
    <2>2. CASE k > 0
      <3> SUFFICES ASSUME NEW j \in 1..Held'
                   PROVE  buf[Unwrap(wp' - j)] = base + pos + k - j
        <4>1. pos' = pos + k /\ buf' = buf /\ base' = base
          BY <2>2, <1>2 DEF Account
        <4>2. \A j \in 1..Held' :
                base' + pos' - j = base + pos + k - j
          BY <4>1, <1>1 DEF TypeOK
        <4>3. \A j \in 1..Held' :
                buf'[Unwrap(wp' - j)] = base' + pos' - j
          BY <4>1, <4>2
        <4> QED
          BY <4>3 DEF AllRight, Unwrap
      <3>1. wp \in 0..Size - 1 /\ pos \in Nat /\ base \in Nat
            /\ j \in Nat /\ j >= 1 /\ j <= Size /\ j <= Held + k
            /\ wp + k <= Size /\ Held \in Nat /\ Held' \in Nat
            /\ wp' = IF wp + k >= Size THEN 0 ELSE wp + k
        <4>1. Held \in Nat /\ Held' \in Nat
          <5>1. Held \in 0..Size
            BY <1>1, Amounts
          <5>2. Fwd \in Nat /\ k \in Nat /\ Fwd' = Fwd + k /\ valid' \in Nat
            BY <2>2, <1>1, <1>3, Amounts
          <5> QED
            BY <5>1, <5>2, SizesOK DEF Held, Least
        <4>2. wp \in 0..Size - 1 /\ pos \in Nat /\ base \in Nat
              /\ want[t] \in Nat
          BY <1>1 DEF TypeOK, Place
        <4>3. wp' = IF wp + k >= Size THEN 0 ELSE wp + k
          BY <2>2, <1>2 DEF Account
        <4>4. wp + k <= Size
          BY <1>1, <4>2, SizesOK
        <4>5. j \in Nat /\ j >= 1 /\ j <= Size /\ j <= Held + k
          BY <2>2, <1>1, <1>3, <4>1, SizesOK
        <4> QED
          BY <4>1, <4>2, <4>3, <4>4, <4>5
      <3>2. CASE j <= k
        <4>1. k - j \in 0..k - 1 /\ Unwrap(wp' - j) = wp + (k - j)
          BY <3>1, <3>2, <2>2, <1>1, SizesOK DEF Unwrap
        <4>2. buf[wp + (k - j)] = base + pos + (k - j)
          BY <4>1, <2>2, <1>1 DEF Turn, InFlight
        <4> QED
          BY <4>1, <4>2, <3>1, <1>1
      <3>3. CASE j > k
        <4>1. j - k \in 1..Held /\ j - k <= Size - k
              /\ Unwrap(wp' - j) = Unwrap(wp - (j - k))
          BY <3>1, <3>3, <2>2, <1>1, SizesOK DEF Unwrap
        <4>2. buf[Unwrap(wp - (j - k))] = base + pos - (j - k)
          BY <4>1, <1>5 DEF Turn, HeldRight
        <4> QED
          BY <4>1, <4>2, <3>1, <1>1
      <3> QED
        BY <3>1, <3>2, <3>3, <1>1
    <2> QED
      BY <2>1, <2>2, <1>1
  <1>8. HeldRight'
    BY <1>7, WholeNext
  <1>9. InFlight(t)'
    BY <1>4, <1>5 DEF InFlight
  <1>10. InCall(t)'
    BY <1>1, <1>2, <1>3, <1>5 DEF InCall, Turn, TypeOK, Back2Caller
  <1>11. OneThread => NoFalseEnd'
    <2> SUFFICES ASSUME ret'[t].op = "read", ret'[t].val = 0
                 PROVE  base + PosOnRead >= Length
      BY <1>2, <1>3 DEF NoFalseEnd, OneThread
    <2>1. ret[t] = NoRet /\ ret \in [Thread -> RetType] /\ got[t] \in Nat
      BY <1>1 DEF Turn, InCall, TypeOK
    <2>2. op[t] = "read" /\ k = 0
      BY <1>1, <1>2, <2>1 DEF Back2Caller, Answer, NoRet
    <2>3. rp = wp /\ low >= Length /\ low = base + pos
      BY <1>1, <2>2 DEF Turn, InCall, InFlight
    <2> QED
      BY <2>3, <1>1 DEF PosOnRead, Fwd, TypeOK, Place
  <1>12. OneThread => SeekLands'
    <2> SUFFICES ASSUME ret'[t].op = "seek", ret'[t].val >= 0
                 PROVE  base + PosOnRead >= Length
      BY <1>2, <1>3 DEF SeekLands, OneThread
    <2>1. ret[t] = NoRet /\ ret \in [Thread -> RetType] /\ got[t] \in Nat
      BY <1>1 DEF Turn, InCall, TypeOK
    <2>2. op[t] = "skip" /\ k <= 0 /\ ret'[t] = Answer("seek", target[t], k)
      BY <1>1, <1>2, <2>1 DEF Back2Caller, Answer, NoRet
    <2>3. k = 0
      BY <2>2, <1>1, AnswerTells
    <2>4. rp = wp /\ low >= Length /\ low = base + pos
      BY <1>1, <2>2, <2>3 DEF Turn, InCall, InFlight
    <2> QED
      BY <2>4, <1>1 DEF PosOnRead, Fwd, TypeOK, Place
  <1> QED
    BY <1>3, <1>6, <1>8, <1>9, <1>10, <1>11, <1>12 DEF Turn

LEMMA CopyKeeps ==
  ASSUME NEW t \in Thread, Turn(t), Alone(t), Copy(t)
  PROVE  Turn(t)' /\ PosOnRead' = PosOnRead + Least(left[t], Run)
  <1> DEFINE n == Least(left[t], Run)
  <1>1. /\ TypeOK /\ Fwd <= pos /\ left[t] > 0 /\ left[t] \in Nat
        /\ op[t] # "buffer" /\ pc[t] = "read" /\ ret[t] = NoRet
        /\ low = base + pos /\ \A s \in Thread : s # t => pc[s] = "idle"
    BY DEF Turn, InCall, InFlight, Copy, TypeOK, Alone
  <1>2. n \in 1..Run /\ n <= Fwd /\ n <= left[t] /\ Run \in Nat
        /\ rp' = Wrap(rp + n) /\ wp' = wp /\ valid' = valid /\ pos' = pos
        /\ buf' = buf /\ base' = base /\ low' = low
    BY <1>1, Amounts DEF Copy, Least
  <1>3. /\ rp' \in Place /\ Fwd' = Fwd - n /\ PosOnRead' = PosOnRead + n
        /\ Fwd' \in Nat
    <2>1. /\ rp \in 0..Size - 1 /\ wp \in 0..Size - 1 /\ pos \in Nat
          /\ n \in Nat /\ n >= 1 /\ n <= Run /\ n <= Fwd
      BY <1>1, <1>2 DEF TypeOK, Place
    <2>2. rp' \in Place
      BY <1>2, <2>1, SizesOK DEF Place, Wrap, Run
    <2>3. Fwd' = Fwd - n /\ Fwd' \in Nat
      BY <1>2, <2>1, SizesOK DEF Wrap, Run, Fwd
    <2>4. PosOnRead' = PosOnRead + n
      BY <1>2, <2>1, <2>3, SizesOK DEF PosOnRead, Fwd
    <2> QED
      BY <2>2, <2>3, <2>4
  <1>4. Held' <= Held /\ Held' \in Nat /\ Held \in Nat
    BY <1>1, <1>2, <1>3, Amounts, SizesOK DEF Held, Least, TypeOK
  <1>5. /\ pc'[t] \in {"idle", "read"}
        /\ \A s \in Thread : s # t => pc'[s] = pc[s]
    BY <1>1 DEF Copy, TypeOK
  <1>6. TypeOK'
    <2>1. got' \in [Thread -> Nat] /\ left' \in [Thread -> Nat]
      <3>1. got \in [Thread -> Nat] /\ left \in [Thread -> Nat]
        BY <1>1 DEF TypeOK
      <3>2. n \in Nat /\ got[t] + n \in Nat /\ left[t] - n \in Nat
        BY <1>2, <3>1
      <3> QED
        BY <3>1, <3>2 DEF Copy
    <2>2. ret' \in [Thread -> RetType]
      <3>1. /\ Answer("read", got[t] + n, got[t] + n) \in RetType
            /\ Answer("seek", target[t], 0) \in RetType
            /\ ret \in [Thread -> RetType]
        BY <1>1, <1>2, AnswerType DEF TypeOK
      <3> QED
        BY <3>1 DEF Copy
    <2>3. pc' \in [Thread -> {"idle", "read", "fill", "call", "reading",
                              "filled"}]
      <3>1. pc \in [Thread -> {"idle", "read", "fill", "call", "reading",
                               "filled"}]
        BY <1>1 DEF TypeOK
      <3>2. pc' = pc \/ pc' = [pc EXCEPT ![t] = "idle"]
        BY DEF Copy
      <3> QED
        BY <3>1, <3>2
    <2>4. \A s \in Thread : pc'[s] # "reading"
      BY <1>1, <1>5
    <2>5. UNCHANGED <<media, op, fill, target>>
      BY DEF Copy
    <2> QED
      BY <1>1, <1>2, <1>3, <2>1, <2>2, <2>3, <2>4, <2>5 DEF TypeOK, media, fill
  <1>7. HeldRight'
    <2>1. AllRight
      BY <1>1, Whole
    <2>2. AllRight'
      BY <1>2, <1>4, <2>1 DEF AllRight, Unwrap
    <2> QED
      BY <2>2, WholeNext
  <1>8. InFlight(t)'
    BY <1>1, <1>2, <1>5 DEF InFlight
  <1>9. InCall(t)'
    <2>1. n \in Nat /\ PosOnRead \in Nat
      BY <1>1, <1>2, Amounts
    <2>2. CASE n < left[t]
      <3>1. /\ pc' = pc /\ ret' = ret /\ op' = op /\ target' = target
            /\ left'[t] = left[t] - n
        BY <2>2, <1>1 DEF Copy, TypeOK
      <3>2. op[t] = "skip" => PosOnRead + left[t] = target[t]
        BY <1>1 DEF Turn, InCall
      <3>3. PosOnRead' + left'[t] = PosOnRead + left[t]
        BY <2>1, <3>1, <1>1, <1>3
      <3>4. left'[t] > 0
        BY <2>1, <2>2, <3>1, <1>1
      <3> QED
        BY <3>1, <3>2, <3>3, <3>4, <1>1 DEF InCall
    <2>3. CASE n = left[t]
      <3>1. pc'[t] = "idle"
        BY <2>3, <1>1 DEF Copy, TypeOK
      <3> QED
        BY <3>1 DEF InCall
    <2> QED
      BY <1>1, <1>2, <2>1, <2>2, <2>3
  <1>10. OneThread => NoFalseEnd'
    <2> SUFFICES ASSUME \A s \in Thread : s = t
                 PROVE  NoFalseEnd'
      BY DEF OneThread
    <2>1. CASE n < left[t]
      BY <2>1, <1>1 DEF NoFalseEnd, Copy, NoRet
    <2>2. CASE n = left[t]
      <3>1. n > 0 /\ got[t] \in Nat
        BY <1>1, <1>2 DEF TypeOK
      <3>2. \/ ret'[t] = Answer("read", got[t] + n, got[t] + n)
            \/ ret'[t] = Answer("seek", target[t], 0)
        BY <2>2, <1>1 DEF Copy, TypeOK
      <3> QED
        BY <3>1, <3>2, <1>1, <1>2, AnswerTells DEF NoFalseEnd
    <2> QED
      BY <1>1, <1>2, <2>1, <2>2
  <1>11. OneThread => SeekLands'
    <2> SUFFICES ASSUME \A s \in Thread : s = t
                 PROVE  SeekLands'
      BY DEF OneThread
    <2>1. CASE n < left[t]
      BY <2>1, <1>1 DEF SeekLands, Copy, NoRet, TypeOK
    <2>2. CASE n = left[t]
      <3>1. op[t] # "read" => PosOnRead + left[t] = target[t]
        <4>1. op[t] \in {"read", "skip"}
          BY <1>1 DEF TypeOK
        <4>2. op[t] = "skip" => PosOnRead + left[t] = target[t]
          BY <1>1 DEF Turn, InCall
        <4> QED
          BY <4>1, <4>2
      <3>2. op[t] # "read" => PosOnRead' = target[t]
        BY <3>1, <2>2, <1>3
      <3>3. \/ op[t] = "read" /\ ret'[t].op = "read"
            \/ op[t] # "read" /\ ret'[t].asked = target[t]
        BY <2>2, <1>1, <1>2 DEF Copy, Answer, TypeOK
      <3> QED
        BY <3>2, <3>3, <1>1 DEF SeekLands
    <2> QED
      BY <1>1, <1>2, <2>1, <2>2
  <1> QED
    <2>1. Fwd' <= pos'
      <3>1. Fwd \in Nat /\ pos \in Nat /\ n \in Nat
        BY <1>1, <1>2, Amounts DEF TypeOK
      <3> QED
        BY <3>1, <1>1, <1>2, <1>3
    <2> QED
      BY <2>1, <1>3, <1>6, <1>7, <1>8, <1>9, <1>10, <1>11 DEF Turn

(* A seek inside the buffer moves the read pointer by offset1 = d. *)
LEMMA SeekInBufferKeeps ==
  ASSUME NEW t \in Thread, Turn(t), Alone(t), SeekInBuffer(t)
  PROVE  Turn(t)'
  <1>1. PICK offset \in 0..MaxSeek :
          /\ InBuffer(offset - PosOnRead)
          /\ rp' = Unwrap(Wrap(rp + offset - PosOnRead))
          /\ ret' = [ret EXCEPT ![t] = Answer("seek", offset, offset)]
    BY DEF SeekInBuffer
  <1> DEFINE d == offset - PosOnRead
  <1>2. /\ TypeOK /\ Fwd <= pos /\ pc[t] = "idle" /\ offset \in Nat
        /\ low = base + pos
        /\ buf' = buf /\ wp' = wp /\ valid' = valid /\ pos' = pos
        /\ base' = base /\ low' = low /\ pc' = pc /\ op' = op
        /\ fileSize' = fileSize /\ streamed' = streamed /\ target' = target
        /\ left' = left /\ got' = got /\ want' = want /\ tmp' = tmp
        /\ dst' = dst /\ rlen' = rlen
    BY SizesOK DEF SeekInBuffer, Seeks, Turn, InFlight, media, fill
  <1>3. /\ d \in Int /\ -Back <= d /\ d <= Fwd /\ Back \in Nat
        /\ Fwd \in 0..Size - 1 /\ Fwd + Back <= Held
        /\ Back > 0 => Fwd + Back <= Size - Keep
        /\ rp' = Unwrap(Wrap(rp + d)) /\ PosOnRead \in Nat
    <2>1. PosOnRead \in Nat /\ rp \in Int
      <3>1. PosOnRead \in Nat
        BY <1>2, Amounts
      <3>2. rp \in Int
        BY <1>2, SizesOK DEF TypeOK, Place
      <3> QED BY <3>1, <3>2
    <2>2. rp + offset - PosOnRead = rp + d /\ d \in Int
      BY <2>1, <1>2
    <2> QED
      BY <2>1, <2>2, <1>1, <1>2, Amounts DEF InBuffer
  <1>4. /\ rp' \in Place /\ Fwd' = Fwd - d /\ Fwd' \in Nat
        /\ Fwd' <= Held
    <2>1. /\ rp \in 0..Size - 1 /\ wp \in 0..Size - 1 /\ Held \in Nat
          /\ Keep \in Nat /\ Keep > 0 /\ Size \in Nat
      <3>1. rp \in 0..Size - 1 /\ wp \in 0..Size - 1
        BY <1>2 DEF TypeOK, Place
      <3>2. Held \in Nat
        BY <1>2, Amounts
      <3> QED
        BY <3>1, <3>2, SizesOK
    <2>2. Fwd - d <= Held /\ Fwd - d >= 0 /\ Fwd - d < Size
      BY <1>3, <2>1
    <2>3. rp' \in Place /\ Fwd' = Fwd - d
      BY <1>2, <1>3, <2>1, <2>2 DEF Wrap, Unwrap, Fwd, Place
    <2> QED
      BY <1>3, <2>1, <2>2, <2>3
  <1>5. PosOnRead' = offset
    <2>1. Fwd' = Fwd - (offset - (pos - Fwd))
      BY <1>4 DEF PosOnRead
    <2>2. pos \in Nat /\ Fwd \in Nat
      BY <1>2, <1>3, SizesOK DEF TypeOK
    <2> QED
      BY <2>1, <2>2, <1>2 DEF PosOnRead
  <1>6. Fwd' <= pos'
    BY <1>2, <1>4, <1>5 DEF PosOnRead, TypeOK
  <1>7. TypeOK'
    <2>1. ret' \in [Thread -> RetType]
      BY <1>1, <1>2, AnswerType DEF TypeOK
    <2> QED
      BY <1>2, <1>4, <2>1 DEF TypeOK
  <1>8. HeldRight'
    <2>1. AllRight
      BY <1>2, Whole
    <2>2. Held' <= Held /\ Held' \in Nat /\ Held \in Nat
      BY <1>2, <1>3, <1>4, SizesOK DEF Held, Least, TypeOK
    <2>3. AllRight'
      BY <1>2, <2>1, <2>2 DEF AllRight, Unwrap
    <2> QED
      BY <2>3, WholeNext
  <1>9. InFlight(t)'
    BY <1>2 DEF InFlight
  <1>10. InCall(t)'
    BY <1>2 DEF InCall
  <1>11. OneThread => NoFalseEnd' /\ SeekLands'
    <2>1. ret'[t] = Answer("seek", offset, offset)
      BY <1>1, <1>2 DEF TypeOK
    <2> QED
      BY <2>1, <1>2, <1>5 DEF NoFalseEnd, SeekLands, Answer, OneThread
  <1> QED
    BY <1>6, <1>7, <1>8, <1>9, <1>10, <1>11 DEF Turn

(* A seek by reading skips what is buffered first. *)
LEMMA SeekByReadingKeeps ==
  ASSUME NEW t \in Thread, Turn(t), Alone(t), SeekByReading(t)
  PROVE  TypeOK' /\ HeldRight'
  <1>1. /\ TypeOK /\ Fwd <= pos /\ pc[t] = "idle"
        /\ rp' = Wrap(rp + Fwd) /\ wp' = wp /\ buf' = buf /\ pos' = pos
        /\ valid' = valid /\ base' = base
    BY DEF SeekByReading, Seeks, Turn
  <1>2. Fwd' = 0 /\ Fwd \in Nat
    BY <1>1, SizesOK DEF TypeOK, Place, Wrap, Fwd
  <1>3. Held' <= Held /\ Held' \in Nat /\ Held \in Nat
    BY <1>1, <1>2, SizesOK DEF Held, Least, TypeOK
  <1>4. AllRight
    BY <1>1, Whole
  <1>5. AllRight'
    BY <1>1, <1>3, <1>4 DEF AllRight, Unwrap
  <1>6. PICK offset \in 0..MaxSeek :
          /\ ~InBuffer(offset - PosOnRead) /\ offset - PosOnRead > 0
          /\ left' = [left EXCEPT ![t] = (offset - PosOnRead) - Fwd]
          /\ target' = [target EXCEPT ![t] = offset]
    BY DEF SeekByReading, Reads
  <1>7. offset \in Nat /\ (offset - PosOnRead) - Fwd \in Nat
    <2>1. Fwd \in Nat /\ PosOnRead \in Nat /\ Back \in Nat /\ offset \in Nat
      BY <1>1, <1>2, SizesOK, Amounts
    <2> QED
      BY <2>1, <1>6 DEF InBuffer
  <1>8. rp' \in Place
    BY <1>1, <1>2, SizesOK DEF TypeOK, Place, Wrap, Fwd
  <1>9. ret' \in [Thread -> RetType]
    BY <1>1, AnswerType DEF TypeOK, SeekByReading
  <1>10. left' \in [Thread -> Nat] /\ target' \in [Thread -> Nat]
    BY <1>1, <1>6, <1>7 DEF TypeOK
  <1>11. /\ pc' = [pc EXCEPT ![t] = "read"]
         /\ op' = [op EXCEPT ![t] = "skip"]
         /\ got' = [got EXCEPT ![t] = 0]
         /\ UNCHANGED <<media, fill, base, low>>
    BY DEF SeekByReading, Seeks
  <1>12. TypeOK'
    BY <1>1, <1>8, <1>9, <1>10, <1>11 DEF TypeOK, media, fill
  <1> QED
    BY <1>5, <1>12, WholeNext

(* After the pointers are reset the buffer holds nothing. *)
LEMMA EmptyHolds ==
  ASSUME TypeOK, Empty
  PROVE  /\ Fwd' = 0 /\ AllRight'
         /\ rp' \in Place /\ wp' \in Place /\ valid' \in Nat
         /\ buf' \in [Place -> Int]
  <1>1. Fwd' = 0 /\ Held' = 0
    BY SizesOK DEF Empty, Fwd, Held, Least
  <1>2. rp' \in Place /\ wp' \in Place /\ valid' \in Nat
        /\ buf' \in [Place -> Int]
    BY SizesOK DEF Empty, Place, Unknown, None
  <1> QED
    BY <1>1, <1>2 DEF AllRight

LEMMA SeekMediumKeeps ==
  ASSUME NEW t \in Thread, Turn(t), Alone(t), SeekMedium(t)
  PROVE  TypeOK'
  <1>1. PICK offset \in 0..MaxSeek :
          /\ Empty /\ pos' = offset /\ low' = base + offset
          /\ ret' = [ret EXCEPT ![t] = Answer("seek", offset, offset)]
    BY DEF SeekMedium
  <1>2. ret' \in [Thread -> RetType]
    BY <1>1, SizesOK, AnswerType DEF Turn, TypeOK
  <1>3. pos' \in Nat /\ low' \in Nat
    BY <1>1, SizesOK DEF Turn, TypeOK
  <1> QED
    BY <1>1, <1>2, <1>3, EmptyHolds
       DEF Turn, TypeOK, SeekMedium, Seeks, media, fill

LEMMA SeekRefusedKeeps ==
  ASSUME NEW t \in Thread, Turn(t), Alone(t), SeekRefused(t)
  PROVE  TypeOK' /\ HeldRight'
  <1>1. /\ TypeOK /\ Fwd <= pos /\ pc[t] = "idle" /\ low = base + pos
        /\ rp' = rp /\ wp' = wp /\ buf' = buf /\ pos' = pos /\ base' = base
        /\ valid' \in {0, valid} /\ pc' = pc /\ op' = op /\ target' = target
        /\ left' = left /\ got' = got
        /\ low' \in {base + pos, low}
        /\ UNCHANGED media /\ UNCHANGED fill
    BY DEF SeekRefused, Seeks, Turn, InFlight
  <1>2. ret' \in [Thread -> RetType]
    <2>1. PICK offset \in 0..MaxSeek :
            \/ ret' = [ret EXCEPT ![t] = Answer("refused", offset, pos)]
            \/ ret' = [ret EXCEPT ![t] = Answer("refused", offset, Fail)]
      BY DEF SeekRefused
    <2>2. /\ Answer("refused", offset, pos) \in RetType
          /\ Answer("refused", offset, Fail) \in RetType
          /\ ret \in [Thread -> RetType]
      BY <1>1, SizesOK, AnswerType DEF TypeOK, Fail
    <2> QED
      BY <2>1, <2>2
  <1>3. TypeOK'
    BY <1>1, <1>2 DEF TypeOK, media, fill
  <1>4. CASE valid' = valid
    BY <1>1, <1>3, <1>4, RingKeeps DEF ring
  <1>5. CASE valid' = 0
    <2>1. Held' = Fwd /\ Fwd \in Nat /\ Held \in Nat /\ Fwd <= Held
      <3>1. Fwd \in 0..Size - 1 /\ Held \in 0..Size /\ Fwd <= Held
        BY <1>1, Amounts
      <3>2. Fwd' = Fwd
        BY <1>1 DEF Fwd
      <3> QED
        BY <3>1, <3>2, <1>5, SizesOK DEF Held
    <2>2. AllRight
      BY <1>1, Whole
    <2>3. AllRight'
      BY <1>1, <2>1, <2>2 DEF AllRight, Unwrap
    <2> QED
      BY <1>3, <2>3, WholeNext
  <1> QED
    BY <1>1, <1>3, <1>4, <1>5

LEMMA SeekEndKeeps ==
  ASSUME NEW t \in Thread, Turn(t), Alone(t), SeekEnd(t)
  PROVE  TypeOK' /\ Fwd' <= pos' /\ HeldRight'
  <1>1. /\ TypeOK /\ Fwd <= pos /\ pc[t] = "idle" /\ base' = base
        /\ pc' = pc /\ op' = op /\ left' = left /\ got' = got
        /\ target' = target /\ UNCHANGED media /\ UNCHANGED fill
        /\ ret \in [Thread -> RetType]
    BY DEF SeekEnd, Seeks, Turn, TypeOK
  <1>2. PICK offset \in 0..Length :
          \/ /\ Empty /\ pos' = offset /\ low' = base + offset
             /\ ret' = [ret EXCEPT ![t] = Answer("seek", offset, offset)]
          \/ /\ ret' = [ret EXCEPT ![t] = Answer("seek", offset, Fail)]
             /\ ring' = ring /\ low' = low
    BY DEF SeekEnd
  <1>3. ret' \in [Thread -> RetType]
    <2>1. /\ Answer("seek", offset, offset) \in RetType
          /\ Answer("seek", offset, Fail) \in RetType
      BY SizesOK, AnswerType DEF Fail
    <2> QED
      BY <2>1, <1>1, <1>2
  <1>4. CASE ring' = ring /\ low' = low
    <2>1. HeldRight'
      BY <1>1, <1>4, RingKeeps
    <2>2. TypeOK' /\ Fwd' <= pos'
      BY <1>1, <1>3, <1>4 DEF TypeOK, ring, media, fill, Fwd
    <2> QED
      BY <2>1, <2>2
  <1>5. CASE Empty /\ pos' = offset /\ low' = base + offset
    <2>1. pos' \in Nat /\ low' \in Nat /\ Fwd' <= pos'
      BY <1>1, <1>5, EmptyHolds, SizesOK DEF TypeOK
    <2>2. TypeOK'
      BY <1>1, <1>3, <1>5, <2>1, EmptyHolds DEF TypeOK, media, fill
    <2> QED
      BY <1>1, <1>5, <2>1, <2>2, EmptyHolds, WholeNext
  <1> QED
    BY <1>2, <1>4, <1>5

LEMMA SeekToTimeKeeps ==
  ASSUME NEW t \in Thread, Turn(t), Alone(t), SeekToTime(t)
  PROVE  /\ TypeOK' /\ Fwd' <= pos' /\ HeldRight'
         /\ InFlight(t)'
  <1>1. /\ TypeOK /\ Fwd <= pos /\ pc[t] = "idle" /\ low = base + pos
        /\ pc' = pc /\ op' = op /\ left' = left /\ got' = got
        /\ target' = target /\ UNCHANGED media /\ UNCHANGED fill
        /\ ret \in [Thread -> RetType]
    BY DEF SeekToTime, Seeks, Turn, TypeOK, InFlight
  <1>2. \/ /\ Empty /\ pos' = 0 /\ base' \in Segments /\ low' = base'
           /\ ret' = [ret EXCEPT ![t] = Answer("time", 0, 0)]
        \/ /\ ret' = [ret EXCEPT ![t] = Answer("time", 0, Fail)]
           /\ ring' = ring /\ low' = low /\ base' = base
    BY DEF SeekToTime
  <1>3. ret' \in [Thread -> RetType]
    <2>1. /\ Answer("time", 0, 0) \in RetType
          /\ Answer("time", 0, Fail) \in RetType
      BY AnswerType DEF Fail
    <2> QED
      BY <2>1, <1>1, <1>2
  <1>4. CASE ring' = ring /\ low' = low /\ base' = base
    <2>1. HeldRight'
      BY <1>1, <1>4, RingKeeps
    <2>2. TypeOK' /\ Fwd' <= pos'
      BY <1>1, <1>3, <1>4 DEF TypeOK, ring, media, fill, Fwd
    <2>3. InFlight(t)'
      BY <1>1, <1>4 DEF InFlight, ring
    <2> QED
      BY <2>1, <2>2, <2>3
  <1>5. CASE Empty /\ pos' = 0 /\ base' \in Segments /\ low' = base'
    <2>1. /\ pos' \in Nat /\ low' \in Nat /\ base' \in Nat
          /\ Fwd' <= pos' /\ low' = base' + pos'
      <3>1. base' \in 0..Length
        BY <1>5, ModesOK
      <3>2. Fwd' = 0
        BY <1>1, <1>5, EmptyHolds
      <3>3. base' \in Nat
        BY <3>1, SizesOK
      <3>4. Fwd' <= pos'
        BY <3>2, <1>5
      <3>5. base' + 0 = base' /\ 0 \in Nat
        BY <3>3, Sums
      <3> QED
        BY <3>3, <3>4, <3>5, <1>5
    <2>2. TypeOK'
      BY <1>1, <1>3, <1>5, <2>1, EmptyHolds DEF TypeOK, media, fill
    <2>3. InFlight(t)'
      BY <1>1, <2>1 DEF InFlight
    <2> QED
      BY <1>1, <1>5, <2>1, <2>2, <2>3, EmptyHolds, WholeNext
  <1> QED
    BY <1>2, <1>4, <1>5

LEMMA ReadInv ==
  ASSUME NEW t \in Thread, Turn(t), Alone(t), Read(t)
  PROVE  Turn(t)'
  <1>1. TypeOK'
    BY DEF Turn, TypeOK, Read, RetType, ring, media, fill, NoRet
  <1>2. Fwd' <= pos'
    BY DEF Turn, Read, ring, Fwd
  <1>3. HeldRight'
    BY DEF Turn, HeldRight, Held, Read, ring, fill, Fwd
  <1>4. InFlight(t)'
    BY DEF Turn, InFlight, Read, ring
  <1>5. InCall(t)'
    BY DEF Turn, TypeOK, InCall, Read
  <1>6. OneThread => NoFalseEnd'
    BY DEF OneThread, Turn, TypeOK, NoFalseEnd, Read, NoRet
  <1>7. OneThread => SeekLands'
    BY DEF OneThread, Turn, TypeOK, SeekLands, Read, NoRet
  <1> QED
    BY <1>1, <1>2, <1>3, <1>4, <1>5, <1>6, <1>7 DEF Turn

LEMMA NeedFillInv ==
  ASSUME NEW t \in Thread, Turn(t), Alone(t), NeedFill(t)
  PROVE  Turn(t)'
  <1>1. TypeOK'
    BY DEF Turn, TypeOK, NeedFill, ring, media, fill
  <1>2. Fwd' <= pos'
    BY DEF Turn, NeedFill, ring, Fwd
  <1>3. HeldRight'
    BY DEF Turn, HeldRight, Held, NeedFill, ring, fill, Fwd
  <1>4. InFlight(t)'
    BY DEF Turn, InFlight, NeedFill, ring
  <1>5. InCall(t)'
    BY SizesOK DEF Turn, TypeOK, InCall, NeedFill, ring, Run, Fwd,
         PosOnRead, Place
  <1>6. OneThread => NoFalseEnd'
    BY DEF OneThread, Turn, InCall, NoFalseEnd, NeedFill, NoRet
  <1>7. OneThread => SeekLands'
    BY DEF Turn, SeekLands, NeedFill, ring, Fwd, PosOnRead
  <1> QED
    BY <1>1, <1>2, <1>3, <1>4, <1>5, <1>6, <1>7 DEF Turn

LEMMA BufferInv ==
  ASSUME NEW t \in Thread, Turn(t), Alone(t), Buffer(t)
  PROVE  Turn(t)'
  <1>1. TypeOK'
    BY DEF Turn, TypeOK, Buffer, RetType, ring, media, fill, NoRet
  <1>2. Fwd' <= pos'
    BY DEF Turn, Buffer, ring, Fwd
  <1>3. HeldRight'
    BY DEF Turn, HeldRight, Held, Buffer, ring, fill, Fwd
  <1>4. InFlight(t)'
    BY DEF Turn, InFlight, Buffer, ring
  <1>5. InCall(t)'
    BY DEF Turn, TypeOK, InCall, Buffer
  <1>6. OneThread => NoFalseEnd'
    BY DEF OneThread, Turn, TypeOK, NoFalseEnd, Buffer, NoRet
  <1>7. OneThread => SeekLands'
    BY DEF OneThread, Turn, TypeOK, SeekLands, Buffer, NoRet
  <1> QED
    BY <1>1, <1>2, <1>3, <1>4, <1>5, <1>6, <1>7 DEF Turn

LEMMA NothingToFillInv ==
  ASSUME NEW t \in Thread, Turn(t), Alone(t), NothingToFill(t)
  PROVE  Turn(t)'
  <1>1. TypeOK' /\ HeldRight'
    BY NothingToFillKeeps
  <1>2. Fwd' <= pos'
    BY DEF Turn, NothingToFill, ring, Fwd
  <1>3. InFlight(t)'
    BY DEF Turn, TypeOK, InFlight, NothingToFill, ring, Back2Caller
  <1>4. InCall(t)'
    BY DEF Turn, TypeOK, InCall, NothingToFill, ring, Back2Caller, Fwd,
       PosOnRead
  <1>5. OneThread => NoFalseEnd'
    BY SizesOK DEF OneThread, Turn, TypeOK, InCall, NoFalseEnd, NothingToFill,
         ring, Back2Caller, Room, Fwd, PosOnRead, Least, Place
  <1>6. OneThread => SeekLands'
    <2>1. op[t] # "buffer" => rp = wp
      BY DEF Turn, InCall, NothingToFill
    <2>2. rp = wp => Room > 0
      BY SizesOK DEF Turn, TypeOK, Room, Least, Place
    <2>3. op[t] = "buffer"
      BY <2>1, <2>2, SizesOK DEF NothingToFill, Turn, TypeOK, Room, Least, Place
    <2>4. ret' = ret
      BY <2>3 DEF NothingToFill, Back2Caller
    <2>5. PosOnRead' = PosOnRead /\ base' = base
      BY DEF NothingToFill, ring, PosOnRead, Fwd
    <2> QED
      BY <2>4, <2>5 DEF Turn, SeekLands
  <1> QED
    BY <1>1, <1>2, <1>3, <1>4, <1>5, <1>6 DEF Turn

LEMMA FileEndedInv ==
  ASSUME NEW t \in Thread, Turn(t), Alone(t), FileEnded(t)
  PROVE  Turn(t)'
  <1>1. HeldRight'
    BY FileEndedKeeps
  <1>2. TypeOK'
    <2>1. TypeOK /\ Back2Caller(t, 0)
      BY DEF Turn, FileEnded
    <2>2. /\ pc' \in [Thread -> {"idle", "read", "fill", "call", "reading",
                                 "filled"}]
          /\ left' \in [Thread -> Nat] /\ got' \in [Thread -> Nat]
          /\ ret' \in [Thread -> RetType]
      BY <2>1, BackTypes
    <2>3. \A s \in Thread : pc'[s] # "reading"
      BY <2>1 DEF Alone, FileEnded, Back2Caller, TypeOK
    <2> QED
      BY <2>1, <2>2, <2>3 DEF TypeOK, FileEnded, ring, media, fill
  <1>3. Fwd' <= pos'
    BY DEF Turn, FileEnded, ring, Fwd
  <1>4. InFlight(t)'
    BY DEF Turn, TypeOK, InFlight, FileEnded, ring, Back2Caller
  <1>5. InCall(t)'
    BY DEF Turn, TypeOK, InCall, FileEnded, ring, Back2Caller, Fwd, PosOnRead
  <1>6. PosOnRead' = PosOnRead /\ base' = base
    BY DEF FileEnded, ring, PosOnRead, Fwd
  <1>7. op[t] # "buffer" => base + PosOnRead >= Length
    <2>1. op[t] # "buffer" => rp = wp
      BY DEF Turn, InCall, FileEnded
    <2>2. rp = wp => PosOnRead = pos
      BY DEF Turn, TypeOK, Place, PosOnRead, Fwd
    <2>3. pos >= Length /\ base \in Nat /\ pos \in Nat
      BY SizesOK DEF Turn, TypeOK, FileEnded
    <2> QED
      BY <2>1, <2>2, <2>3, SizesOK
  <1>8. op[t] = "buffer" => ret' = ret
    BY DEF FileEnded, Back2Caller
  <1>9. OneThread => NoFalseEnd' /\ SeekLands'
    <2>1. CASE op[t] = "buffer"
      BY <1>6, <1>8, <2>1 DEF Turn, NoFalseEnd, SeekLands
    <2>2. CASE op[t] # "buffer"
      BY <1>6, <1>7, <2>2 DEF NoFalseEnd, SeekLands
    <2> QED
      BY <2>1, <2>2
  <1> QED
    BY <1>1, <1>2, <1>3, <1>4, <1>5, <1>9 DEF Turn

LEMMA StartFillInv ==
  ASSUME NEW t \in Thread, Turn(t), Alone(t), StartFill(t)
  PROVE  Turn(t)'
  <1>1. TypeOK'
    <2>1. TypeOK /\ Room > 0 /\ low' = low
      BY DEF Turn, StartFill
    <2>2. Room \in Nat
      BY <2>1, SizesOK DEF TypeOK, Place, Room, Least
    <2>3. \A s \in Thread : pc'[s] # "reading"
      BY <2>1 DEF Alone, StartFill, TypeOK
    <2> QED
      BY <2>1, <2>2, <2>3 DEF TypeOK, StartFill, ring, media
  <1>2. Fwd' <= pos'
    BY DEF Turn, StartFill, ring, Fwd
  <1>3. HeldRight'
    BY DEF Turn, HeldRight, Held, StartFill, ring, Fwd
  <1>4. InFlight(t)'
    <2>1. TypeOK /\ Room > 0 /\ low = base + pos /\ low' = low
      BY DEF Turn, InFlight, StartFill
    <2>2. Room \in Nat /\ Room >= 1 /\ wp + Room <= Size /\ Fwd + Room < Size
      BY <2>1, SizesOK DEF TypeOK, Room, Fwd, Least, Place
    <2>3. /\ want'[t] = Room /\ tmp'[t] = pos /\ pc'[t] = "call"
          /\ wp' = wp /\ pos' = pos /\ base' = base /\ Fwd' = Fwd
      BY <2>1 DEF StartFill, TypeOK, ring, Fwd
    <2> QED
      BY <2>1, <2>2, <2>3 DEF InFlight
  <1>5. InCall(t)'
    BY DEF Turn, InCall, StartFill, ring, Fwd, PosOnRead
  <1>6. OneThread => NoFalseEnd'
    BY DEF OneThread, Turn, InCall, NoFalseEnd, StartFill, NoRet
  <1>7. OneThread => SeekLands'
    BY DEF OneThread, Turn, InCall, SeekLands, StartFill, NoRet
  <1> QED
    BY <1>1, <1>2, <1>3, <1>4, <1>5, <1>6, <1>7 DEF Turn

LEMMA CallReadInv ==
  ASSUME NEW t \in Thread, Turn(t), Alone(t), CallRead(t)
  PROVE  Turn(t)'
  <1>1. TypeOK'
    BY DEF Turn, TypeOK, InFlight, CallRead, ring, media
  <1>2. Fwd' <= pos'
    BY DEF Turn, CallRead, ring, Fwd
  <1>3. HeldRight'
    BY DEF Turn, HeldRight, Held, CallRead, ring, Fwd
  <1>4. InFlight(t)'
    BY DEF Turn, TypeOK, InFlight, CallRead, ring, Fwd
  <1>5. InCall(t)'
    BY DEF Turn, InCall, CallRead, ring, Fwd, PosOnRead
  <1>6. OneThread => NoFalseEnd'
    BY DEF OneThread, Turn, InCall, NoFalseEnd, CallRead, NoRet
  <1>7. OneThread => SeekLands'
    BY DEF OneThread, Turn, InCall, SeekLands, CallRead, NoRet
  <1> QED
    BY <1>1, <1>2, <1>3, <1>4, <1>5, <1>6, <1>7 DEF Turn

LEMMA MediumGivesInv ==
  ASSUME NEW t \in Thread, Turn(t), Alone(t), MediumGives(t)
  PROVE  Turn(t)'
  <1>1. TypeOK' /\ HeldRight' /\ InFlight(t)'
    BY MediumGivesKeeps
  <1>2. Fwd' <= pos'
    BY DEF Turn, MediumGives, Fwd
  <1>3. InCall(t)'
    BY DEF Turn, InCall, MediumGives, Fwd, PosOnRead
  <1>4. OneThread => NoFalseEnd'
    BY DEF Turn, NoFalseEnd, MediumGives, Fwd, PosOnRead
  <1>5. OneThread => SeekLands'
    BY DEF Turn, SeekLands, MediumGives, Fwd, PosOnRead
  <1> QED
    BY <1>1, <1>2, <1>3, <1>4, <1>5 DEF Turn

LEMMA MediumEndsInv ==
  ASSUME NEW t \in Thread, Turn(t), Alone(t), MediumEnds(t)
  PROVE  Turn(t)'
  <1>1. TypeOK' /\ HeldRight'
    BY MediumEndsKeeps
  <1>2. Fwd' <= pos'
    BY DEF Turn, MediumEnds, ring, Fwd
  <1>3. InFlight(t)'
    BY DEF Turn, TypeOK, InFlight, MediumEnds, ring, Fwd, Fail, Again
  <1>4. InCall(t)'
    BY DEF Turn, InCall, MediumEnds, ring, Fwd, PosOnRead
  <1>5. OneThread => NoFalseEnd'
    BY DEF OneThread, Turn, InCall, NoFalseEnd, MediumEnds, NoRet
  <1>6. OneThread => SeekLands'
    BY DEF OneThread, Turn, InCall, SeekLands, MediumEnds, NoRet
  <1> QED
    BY <1>1, <1>2, <1>3, <1>4, <1>5, <1>6 DEF Turn

LEMMA SeekByReadingInv ==
  ASSUME NEW t \in Thread, Turn(t), Alone(t), SeekByReading(t)
  PROVE  Turn(t)'
  <1>1. TypeOK' /\ HeldRight'
    BY SeekByReadingKeeps
  <1>2. Fwd' <= pos'
    BY SizesOK DEF Turn, TypeOK, SeekByReading, Fwd, Wrap, Place
  <1>3. InFlight(t)'
    BY DEF Turn, InFlight, SeekByReading, Seeks
  <1>4. InCall(t)'
    BY SizesOK DEF Turn, TypeOK, InCall, SeekByReading, Back, InBuffer,
         Reads, Fwd, PosOnRead, Least, Wrap, Place
  <1>5. OneThread => NoFalseEnd'
    BY DEF OneThread, Turn, TypeOK, NoFalseEnd, SeekByReading, NoRet
  <1>6. OneThread => SeekLands'
    BY DEF OneThread, Turn, TypeOK, SeekLands, SeekByReading, NoRet
  <1> QED
    BY <1>1, <1>2, <1>3, <1>4, <1>5, <1>6 DEF Turn

LEMMA SeekMediumInv ==
  ASSUME NEW t \in Thread, Turn(t), Alone(t), SeekMedium(t)
  PROVE  Turn(t)'
  <1>1. TypeOK'
    BY SeekMediumKeeps
  <1>2. Fwd' <= pos'
    BY DEF SeekMedium, Empty, Fwd
  <1>3. HeldRight'
    BY DEF HeldRight, Held, SeekMedium, Empty, Fwd
  <1>4. InFlight(t)'
    BY DEF InFlight, SeekMedium, Seeks
  <1>5. InCall(t)'
    BY DEF InCall, SeekMedium, Seeks
  <1>6. OneThread => NoFalseEnd'
    BY DEF OneThread, Turn, TypeOK, NoFalseEnd, SeekMedium, Answer
  <1>7. OneThread => SeekLands'
    BY DEF OneThread, Turn, TypeOK, SeekLands, SeekMedium, Answer, Empty, Fwd,
         PosOnRead
  <1> QED
    BY <1>1, <1>2, <1>3, <1>4, <1>5, <1>6, <1>7 DEF Turn

LEMMA SeekRefusedInv ==
  ASSUME NEW t \in Thread, Turn(t), Alone(t), SeekRefused(t)
  PROVE  Turn(t)'
  <1>1. TypeOK' /\ HeldRight'
    BY SeekRefusedKeeps
  <1>2. Fwd' <= pos'
    BY DEF Turn, SeekRefused, Fwd
  <1>3. InFlight(t)'
    BY DEF Turn, InFlight, SeekRefused, Seeks
  <1>4. InCall(t)'
    BY DEF InCall, SeekRefused, Seeks
  <1>5. OneThread => NoFalseEnd'
    BY DEF OneThread, Turn, TypeOK, NoFalseEnd, SeekRefused, Answer
  <1>6. OneThread => SeekLands'
    BY DEF OneThread, Turn, TypeOK, SeekLands, SeekRefused, Answer
  <1> QED
    BY <1>1, <1>2, <1>3, <1>4, <1>5, <1>6 DEF Turn

LEMMA SeekEndInv ==
  ASSUME NEW t \in Thread, Turn(t), Alone(t), SeekEnd(t)
  PROVE  Turn(t)'
  <1>1. TypeOK' /\ Fwd' <= pos' /\ HeldRight'
    BY SeekEndKeeps
  <1>2. InFlight(t)'
    BY DEF Turn, InFlight, SeekEnd, ring, Seeks
  <1>3. InCall(t)'
    BY DEF InCall, SeekEnd, Seeks
  <1>4. OneThread => NoFalseEnd'
    BY DEF OneThread, Turn, TypeOK, NoFalseEnd, SeekEnd, Answer
  <1>5. OneThread => SeekLands'
    BY DEF OneThread, Turn, TypeOK, SeekLands, SeekEnd, Answer, Empty, Fwd,
         PosOnRead, Fail
  <1> QED
    BY <1>1, <1>2, <1>3, <1>4, <1>5 DEF Turn

LEMMA SeekToTimeInv ==
  ASSUME NEW t \in Thread, Turn(t), Alone(t), SeekToTime(t)
  PROVE  Turn(t)'
  <1>1. TypeOK' /\ Fwd' <= pos' /\ HeldRight' /\ InFlight(t)'
    BY SeekToTimeKeeps
  <1>2. InCall(t)'
    BY DEF InCall, SeekToTime, Seeks
  <1>3. OneThread => NoFalseEnd'
    BY DEF OneThread, Turn, TypeOK, NoFalseEnd, SeekToTime, Answer
  <1>4. OneThread => SeekLands'
    BY DEF OneThread, Turn, TypeOK, SeekLands, SeekToTime, Answer
  <1> QED
    BY <1>1, <1>2, <1>3, <1>4 DEF Turn

-----------------------------------------------------------------------------
LEMMA Steps ==
  ASSUME NEW t \in Thread, Continue(t) \/ Start(t)
  PROVE  \/ Read(t) \/ Copy(t) \/ NeedFill(t) \/ Buffer(t)
         \/ NothingToFill(t) \/ FileEnded(t) \/ StartFill(t) \/ CallRead(t)
         \/ MediumGives(t) \/ MediumEnds(t) \/ Filled(t)
         \/ SeekInBuffer(t) \/ SeekByReading(t) \/ SeekMedium(t)
         \/ SeekRefused(t) \/ SeekEnd(t) \/ SeekToTime(t)
  BY DEF Continue, Start, FillStep

LEMMA InitInv ==
  ASSUME Init
  PROVE  IInv
  <1>1. TypeOK
    <2>1. 0 \in Place /\ Unknown \in [Place -> Int]
      BY SizesOK DEF Place, Unknown, None
    <2> QED
      BY <2>1, SizesOK, AnswerType DEF Init, TypeOK
  <1>2. Fwd = 0 /\ Held = 0
    BY SizesOK DEF Init, Fwd, Held, Least
  <1>3. HeldRight
    BY <1>2 DEF HeldRight
  <1>4. \A t \in Thread : InFlight(t) /\ InCall(t)
    <2> SUFFICES ASSUME NEW t \in Thread
                 PROVE  InFlight(t) /\ InCall(t)
      OBVIOUS
    <2>1. pc[t] = "idle" /\ ret[t] = NoRet /\ low = base + pos
      BY DEF Init
    <2> QED
      BY <2>1 DEF InFlight, InCall
  <1>5. NoFalseEnd /\ SeekLands
    BY DEF Init, NoFalseEnd, SeekLands, NoRet
  <1> QED
    BY <1>1, <1>2, <1>3, <1>4, <1>5 DEF IInv, Init

LEMMA TurnKeeps ==
  ASSUME NEW t \in Thread, Turn(t), Alone(t), Continue(t) \/ Start(t)
  PROVE  Turn(t)'
  BY Steps, ReadInv, CopyKeeps, NeedFillInv, BufferInv, NothingToFillInv,
     FileEndedInv, StartFillInv, CallReadInv, MediumGivesInv, MediumEndsInv,
     FilledKeeps, SeekInBufferKeeps, SeekByReadingInv, SeekMediumInv,
     SeekRefusedInv, SeekEndInv, SeekToTimeInv

(* A thread only moves itself. *)
LEMMA OthersStay ==
  ASSUME TypeOK, NEW t \in Thread, Continue(t) \/ Start(t),
         NEW s \in Thread, s # t
  PROVE  pc'[s] = pc[s]
  <1>1. CASE Start(t)
    BY <1>1 DEF Start, Read, Buffer, SeekInBuffer, SeekByReading, SeekMedium,
       SeekRefused, SeekEnd, SeekToTime, TypeOK
  <1>2. CASE Copy(t) \/ NeedFill(t)
    BY <1>2 DEF Copy, NeedFill, TypeOK
  <1>3. CASE NothingToFill(t) \/ FileEnded(t) \/ Filled(t)
    BY <1>3 DEF NothingToFill, FileEnded, Filled, Back2Caller, TypeOK
  <1>4. CASE StartFill(t) \/ CallRead(t) \/ MediumGives(t) \/ MediumEnds(t)
    BY <1>4 DEF StartFill, CallRead, MediumGives, MediumEnds, TypeOK
  <1> QED
    BY <1>1, <1>2, <1>3, <1>4 DEF Continue, FillStep

LEMMA NextInv ==
  ASSUME IInv, [TurnNext]_vars
  PROVE  IInv'
  <1>1. CASE UNCHANGED vars
    BY <1>1 DEF vars, ring, media, fill, IInv, TypeOK, HeldRight, Held, Alone,
       InFlight, InCall, NoFalseEnd, SeekLands, PosOnRead, Fwd, Least, Unwrap
  <1>2. ASSUME NEW t \in Thread, Alone(t), Continue(t) \/ Start(t)
        PROVE  IInv'
    <2>1. Turn(t)'
      BY <1>2, TurnKeeps DEF IInv, Turn
    <2>2. \A s \in Thread : s # t => pc'[s] = "idle"
      BY <1>2, OthersStay DEF IInv, Alone
    <2>3. \A s \in Thread : InCall(s)'
      BY <2>1, <2>2 DEF Turn, InCall
    <2>4. ASSUME NEW s \in Thread, Alone(s)'
          PROVE  InFlight(s)'
      <3>1. s # t => pc'[t] = "idle"
        BY <2>4 DEF Alone
      <3>2. s # t => low' = base' + pos'
        BY <2>1, <3>1 DEF Turn, InFlight
      <3>3. CASE s # t
        BY <2>2, <3>2, <3>3 DEF InFlight
      <3> QED
        BY <2>1, <3>3 DEF Turn
    <2> QED
      BY <2>1, <2>3, <2>4 DEF Turn, IInv
  <1> QED
    BY <1>1, <1>2 DEF TurnNext

LEMMA Reachable ==
  ASSUME IInv
  PROVE  RingRight
  <1> SUFFICES ASSUME \A t \in Thread : ~Filling(t), NEW j \in 1..Fwd + Back
               PROVE  buf[Unwrap(wp - j)] = base + pos - j
    BY DEF RingRight
  <1>1. Fwd + Back <= Held /\ Fwd \in 0..Size - 1 /\ Back \in Nat
        /\ Held \in 0..Size
    BY Amounts DEF IInv
  <1>2. j \in 1..Held
    BY <1>1, SizesOK
  <1> QED
    BY <1>2 DEF IInv, HeldRight, Filling

LEMMA AlwaysInv == TurnSpec => []IInv
  <1>1. Init => IInv
    BY InitInv
  <1>2. IInv /\ [TurnNext]_vars => IInv'
    BY NextInv
  <1> QED
    BY <1>1, <1>2, PTL DEF TurnSpec

LEMMA OneTakesTurns ==
  ASSUME OneThread
  PROVE  Spec => TurnSpec
  <1>1. Next => TurnNext
    BY DEF Next, TurnNext, Alone, OneThread
  <1>2. [Next]_vars => [TurnNext]_vars
    BY <1>1
  <1> QED
    BY <1>2, PTL DEF Spec, TurnSpec

(* The theorems are about a player whose threads take turns: any number of *)
(* them, as long as no call begins while another is under way.  They hold  *)
(* for buffers, blocks and media of any size.                              *)

(* The pointers stay in the buffer, and what url_lpfillbuffer asks of the  *)
(* medium fits in behind the write pointer.                                *)
THEOREM LoopBufferTyped == TurnSpec => []TypeOK
  <1>1. IInv => TypeOK
    BY DEF IInv
  <1> QED
    BY <1>1, AlwaysInv, PTL

(* What url_lpread and url_lpseek can reach without the medium is what the *)
(* medium has at that position.                                            *)
THEOREM LoopBufferRight == TurnSpec => []RingRight
  <1>1. IInv => RingRight
    BY Reachable
  <1> QED
    BY <1>1, AlwaysInv, PTL

(* The last two are about the answers of the only thread: the answer that  *)
(* one thread has got says nothing of where another has gone since.        *)

(* url_lpread only answers 0 when the medium has given its last byte.      *)
THEOREM LoopBufferToldEnd ==
  ASSUME OneThread
  PROVE  Spec => []NoFalseEnd
  <1>1. IInv => NoFalseEnd
    BY DEF IInv
  <1> QED
    BY <1>1, AlwaysInv, OneTakesTurns, PTL

(* A seek that url_lpseek answers with a position goes to the offset it    *)
(* was asked for, be it in the buffer, by reading on or by the medium.     *)
THEOREM LoopBufferSeeks ==
  ASSUME OneThread
  PROVE  Spec => []SeekLands
  <1>1. IInv => SeekLands
    BY DEF IInv
  <1> QED
    BY <1>1, AlwaysInv, OneTakesTurns, PTL

-----------------------------------------------------------------------------
(* Refinement *)

LEMMA CopyDelivers ==
  ASSUME NEW t \in Thread, Turn(t), Alone(t), Copy(t)
  PROVE  Stream!Next
  <1> DEFINE n == Least(left[t], Run)
             at == base + PosOnRead
  <1>1. /\ TypeOK /\ Fwd <= pos /\ left[t] > 0 /\ left[t] \in Nat
        /\ pc[t] = "read" /\ base' = base
    BY DEF Turn, InCall, Copy, TypeOK
  <1>2. /\ n \in Nat /\ n >= 1 /\ n <= Run /\ Run \in Nat /\ Run <= Fwd
        /\ Fwd \in 0..Size - 1 /\ Fwd <= Held /\ Held \in Nat
        /\ PosOnRead \in Nat /\ base \in Nat
    <2>1. /\ Fwd \in 0..Size - 1 /\ Held \in 0..Size /\ Fwd <= Held
          /\ PosOnRead \in Nat /\ Run \in 0..Fwd
      BY <1>1, Amounts
    <2>2. Run > 0 /\ base \in Nat /\ Size \in Nat
      BY <1>1, SizesOK DEF Copy, TypeOK
    <2>3. n \in Nat /\ n >= 1 /\ n <= Run
      BY <1>1, <2>1, <2>2 DEF Least
    <2> QED
      BY <2>1, <2>2, <2>3
  <1>3. PosOnRead' = PosOnRead + n
    BY CopyKeeps
  <1>4. (base + PosOnRead)' = at + n /\ at \in Nat
    BY <1>1, <1>2, <1>3
  <1>5. CASE op[t] = "read"
    <2>1. \A i \in 1..n : buf[rp + i - 1] = at + i - 1
      <3> SUFFICES ASSUME NEW i \in 1..n
                   PROVE  buf[rp + i - 1] = at + i - 1
        OBVIOUS
      <3> DEFINE j == Fwd - i + 1
      <3>1. /\ rp \in 0..Size - 1 /\ wp \in 0..Size - 1 /\ pos \in Nat
            /\ i \in Nat /\ i >= 1 /\ i <= Run /\ Size \in Nat
        BY <1>1, <1>2, SizesOK DEF TypeOK, Place
      <3>2. Unwrap(wp - j) = rp + i - 1
        BY <3>1, <1>2 DEF Unwrap, Fwd, Run
      <3>3. j \in 1..Held
        BY <3>1, <1>2
      <3>4. buf[Unwrap(wp - j)] = base + pos - j
        BY <1>1, <3>3, Whole DEF AllRight
      <3>5. base + pos - j = at + i - 1
        BY <3>1, <1>2 DEF PosOnRead
      <3> QED
        BY <3>2, <3>4, <3>5
    <2>2. out' = [i \in 1..n |-> at + i - 1]
      BY <2>1, <1>5 DEF Copy
    <2>3. (base + PosOnRead)' > at /\ (base + PosOnRead)' - at = n
      BY <1>2, <1>4
    <2> QED
      BY <2>2, <2>3 DEF Stream!Next, Stream!Deliver
  <1>6. CASE op[t] # "read"
    <2>1. out' = << >>
      BY <1>6 DEF Copy
    <2> QED
      BY <2>1, <1>2, <1>4 DEF Stream!Next, Stream!Seek
  <1> QED
    BY <1>5, <1>6

LEMMA FillStays ==
  ASSUME NEW t \in Thread, Turn(t), Alone(t), Filled(t)
  PROVE  base' = base /\ PosOnRead' = PosOnRead /\ out' = out
  <1>1. /\ TypeOK /\ Fwd <= pos /\ tmp[t] = pos /\ want[t] \in Nat
        /\ wp + want[t] <= Size /\ Fwd + want[t] < Size
        /\ rlen[t] <= want[t] /\ rlen[t] \in Int
    BY DEF Turn, InFlight, Filled, TypeOK
  <1>2. Fwd \in 0..Size - 1 /\ wp \in 0..Size - 1 /\ Size \in Nat
    BY <1>1, Amounts, SizesOK DEF TypeOK, Place
  <1>3. CASE rlen[t] > 0
    <2>1. /\ rlen[t] \in Nat /\ wp + rlen[t] <= Size /\ Fwd + rlen[t] < Size
      BY <1>1, <1>2, <1>3
    <2>2. Account(rlen[t]) /\ rp' = rp
      BY <1>1, <1>3 DEF Filled
    <2> QED
      BY <1>1, <1>3, <2>1, <2>2, Forward DEF Filled
  <1>4. CASE rlen[t] <= 0
    BY <1>1, <1>4 DEF Filled, PosOnRead, Fwd
  <1> QED
    BY <1>1, <1>3, <1>4

LEMMA StepRefines ==
  ASSUME IInv, IInv', [TurnNext]_vars
  PROVE  [Stream!Next]_<<base + PosOnRead, out>>
  <1>1. base' + PosOnRead' \in Nat
    <2>1. TypeOK' /\ Fwd' <= pos' /\ base' \in Nat
      BY DEF IInv, TypeOK
    <2>2. pos' \in Nat /\ rp' \in Place /\ wp' \in Place
      BY <2>1 DEF TypeOK
    <2>3. Fwd' \in Nat
      BY <2>2, Distance DEF Fwd
    <2>4. pos' - Fwd' \in Nat
      BY <2>1, <2>2, <2>3, Sums
    <2>5. PosOnRead' \in Nat
      BY <2>4 DEF PosOnRead
    <2> QED
      BY <2>1, <2>5, Sums
  <1>2. CASE UNCHANGED vars
    BY <1>2 DEF vars, ring, PosOnRead, Fwd
  <1>3. ASSUME NEW t \in Thread, Alone(t), Continue(t) \/ Start(t)
        PROVE  [Stream!Next]_<<base + PosOnRead, out>>
    <2>0. Turn(t)
      BY <1>3 DEF IInv, Turn
    <2>1. CASE Copy(t)
      BY <1>3, <2>0, <2>1, CopyDelivers
    <2>2. CASE Filled(t)
      BY <1>3, <2>0, <2>2, FillStays
    <2>3. CASE \/ SeekInBuffer(t) \/ SeekByReading(t) \/ SeekMedium(t)
               \/ SeekRefused(t) \/ SeekEnd(t) \/ SeekToTime(t)
      <3>1. out' = << >>
        BY <2>3 DEF Seeks, SeekInBuffer, SeekByReading, SeekMedium,
           SeekRefused, SeekEnd, SeekToTime
      <3> QED
        BY <1>1, <3>1 DEF Stream!Next, Stream!Seek
    <2>4. CASE \/ Read(t) \/ NeedFill(t) \/ Buffer(t) \/ NothingToFill(t)
               \/ FileEnded(t) \/ StartFill(t) \/ CallRead(t)
               \/ MediumGives(t) \/ MediumEnds(t)
      <3>1. /\ base' = base /\ rp' = rp /\ wp' = wp /\ pos' = pos
            /\ out' = out
        BY <2>4 DEF ring, Read, NeedFill, Buffer, NothingToFill, FileEnded,
           StartFill, CallRead, MediumGives, MediumEnds
      <3> QED
        BY <3>1 DEF PosOnRead, Fwd
    <2> QED
      BY <1>3, <2>1, <2>2, <2>3, <2>4, Steps
  <1> QED
    BY <1>2, <1>3 DEF TurnNext

(* The loop buffer implements the seekable stream the demuxers take it     *)
(* for: every step hands out the next bytes of the stream, is a seek, or   *)
(* is not to be noticed.                                                   *)
THEOREM LoopBufferIsStream == TurnSpec => IsStream
  <1>1. Init => Stream!Init
    BY SizesOK DEF Init, Stream!Init, PosOnRead, Fwd
  <1>2. Init => IInv
    BY InitInv
  <1>3. IInv /\ [TurnNext]_vars => IInv'
    BY NextInv
  <1>4. IInv /\ IInv' /\ [TurnNext]_vars
          => [Stream!Next]_<<base + PosOnRead, out>>
    BY StepRefines
  <1> QED
    BY <1>1, <1>2, <1>3, <1>4, PTL DEF TurnSpec, IsStream, Stream!Spec
=============================================================================
