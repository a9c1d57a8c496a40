-------------------------- MODULE ListStreamProofs --------------------------
(***************************************************************************)
(* The safety properties of ListStream, whatever the sizes: for a list     *)
(* with an end, which stays as it has been loaded and in which the player  *)
(* seeks, and for a list without one, which is loaded again while the      *)
(* server goes on.  Both rest on the same order: what comes next into the  *)
(* fifo is never behind what is in it.                                     *)
(***************************************************************************)
EXTENDS ListTypeProofs

-----------------------------------------------------------------------------
(* Positions. *)

LEMMA PosInt ==
  ASSUME NEW s \in Int, NEW n \in Int
  PROVE  Pos(s, n) \in Int
  BY SizesOK DEF Pos

(* A segment is followed by the next one. *)
LEMMA PosNext ==
  ASSUME NEW s \in Int, NEW n \in Int
  PROVE  /\ Pos(s, n + 1) = Pos(s, n) + 1
         /\ Pos(s, 1) + Units = Pos(s + 1, 1)
         /\ Pos(s, n) = Pos(s, 1) + n - 1
  <1>1. (s - 1) * Units + Units = s * Units
    BY SizesOK
  <1> QED BY <1>1, SizesOK DEF Pos

(* A later segment is further on. *)
LEMMA PosLater ==
  ASSUME NEW a \in Int, NEW b \in Int, a <= b
  PROVE  Pos(a, 1) <= Pos(b, 1)
  <1>1. b - a \in Nat /\ Units \in Nat
    BY SizesOK
  <1>2. (b - a) * Units \in Nat /\ (a - 1) * Units \in Int
    BY <1>1
  <1>3. (b - 1) * Units = (a - 1) * Units + (b - a) * Units
    BY <1>1
  <1> QED BY <1>2, <1>3 DEF Pos

-----------------------------------------------------------------------------
(* A list with an end. *)

(* The list stays as it has been loaded. *)
Loaded ==
  /\ over /\ ended
  /\ Len(list) = Segs + 1
  /\ \A i \in 1..Segs : list[i].seg = i
  /\ list[Segs + 1].seg = End

Typed ==
  /\ cur \in 0..Segs + 1 /\ nxt \in 0..Segs + 1
  /\ seg \in 0..Segs /\ off \in 0..Units /\ pend \in 0..off
  /\ at \in Int /\ fifo \in Seq(Int) /\ Len(fifo) <= FifoSize
  /\ exit \in BOOLEAN /\ exited \in BOOLEAN /\ reset \in BOOLEAN
  /\ finish \in BOOLEAN /\ stop \in BOOLEAN /\ eof \in BOOLEAN
  /\ hasEnd \in BOOLEAN
  /\ pc \in {"top", "get", "got", "open", "read", "put", "skip", "switch",
             "switched", "ended"}
  /\ call \in {"idle", "seeking", "resetting", "placing", "closing", "closed"}

(* What is in the fifo is what the player expects next. *)
Order == \A i \in 1..Len(fifo) : fifo[i] = at + i - 1

(* The position of the unit to put into the fifo next, and the segment it  *)
(* is the first of.                                                        *)
Ahead == at + Len(fifo)
Before(i) == i \in 1..Segs + 1 /\ Ahead = Pos(i, 1)

(* The flags tell what each thread is doing. *)
Handshake ==
  /\ reset <=> call = "resetting"
  /\ exit <=> call \in {"closing", "closed"}
  /\ exited <=> pc = "ended"
  /\ exited => stop \/ exit
  /\ OnSegment => resetFlag = 0

(* While the player seeks, the downloader has no item to begin; when it    *)
(* has emptied the fifo, nobody fills it.                                  *)
Player ==
  /\ Seeking => /\ cur = 0 /\ goal \in 1..Segs /\ ~eof
                /\ OnSegment \/ pc \in {"top", "get", "ended"}
  /\ call = "placing" => /\ pc \in {"top", "get", "ended"}
                         /\ fifo = << >> /\ ~finish

(* What comes next into the fifo, by where the downloader is. *)
Loader ==
  /\ pc = "top" => Seeking \/ exit \/ stop \/ Before(cur)
  /\ pc = "get" => Seeking \/ Before(cur)
  /\ pc = "got" => Before(cur) /\ seg = list[cur].seg /\ hasEnd
  /\ OnSegment => /\ seg \in 1..Segs /\ hasEnd
                  /\ Ahead = Pos(seg, 1) + off - pend
                  /\ Seeking \/ cur = seg
  /\ pc \notin {"read", "put", "skip", "ended"} => off = 0 /\ pend = 0
  /\ pc = "skip" => Leaves \/ (off = Units /\ pend = 0)
  /\ pc = "switch" => cur \in 1..Segs /\ (exit \/ stop \/ Before(cur + 1))
  /\ pc = "switched" => exit \/ stop \/ Before(nxt)

(* The end is told after the last unit only. *)
Told ==
  /\ finish => \/ Seeking
               \/ /\ cur = Segs + 1 /\ Before(cur)
                  /\ pc \in {"top", "get", "got", "ended"}
  /\ eof => stop \/ at = Pos(Segs + 1, 1)

Sound == Loaded /\ Typed /\ Order /\ Handshake /\ Player /\ Loader /\ Told

(* Nothing is left of it once a seek has raced. *)
VodInv == ~live /\ raced \in BOOLEAN /\ (raced \/ Sound)

LEMMA OnList ==
  ASSUME Loaded, NEW i \in 1..Segs + 1
  PROVE  /\ list[i].seg \in 0..Segs
         /\ IF i = Segs + 1 THEN list[i].seg = End
                           ELSE i \in 1..Segs /\ list[i].seg = i
  <1>1. CASE i = Segs + 1
    BY <1>1, SizesOK DEF Loaded, End
  <1>2. CASE i # Segs + 1
    BY <1>2, SizesOK DEF Loaded
  <1> QED BY <1>1, <1>2

LEMMA TopStep ==
  ASSUME VodInv, ~raced', Top
  PROVE  Sound'
  <1>1. Loaded'
    BY DEF Top, VodInv, Sound, Loaded, server, mgt
  <1>2. Typed'
    BY DEF Top, VodInv, Sound, Typed, mgt, loader, player
  <1>3. Order'
    BY DEF Top, VodInv, Sound, Order, player
  <1>4. Handshake'
    BY DEF Top, VodInv, Sound, OnSegment, Handshake, player
  <1>5. Player'
    BY DEF Top, VodInv, Sound, Seeking, Player, mgt, player
  <1>6. Loader'
    BY DEF Top, VodInv, Sound, Ahead, Before, Seeking, OnSegment, Loader, mgt,
         loader, player
  <1>7. Told'
    BY DEF Top, VodInv, Sound, Ahead, Before, Seeking, Told, mgt, player
  <1> QED BY <1>1, <1>2, <1>3, <1>4, <1>5, <1>6, <1>7 DEF Sound

LEMMA GetStep ==
  ASSUME VodInv, ~raced', Get
  PROVE  Sound'
  <1>0. cur # 0 => cur \in 1..Segs + 1 /\ list[cur].seg \in 0..Segs
    BY OnList, SizesOK DEF Get, VodInv, Sound, Typed
  <1>1. Loaded'
    BY DEF Get, VodInv, Sound, Loaded, server, mgt
  <1>2. Typed'
    <2>1. seg' \in 0..Segs /\ hasEnd' \in BOOLEAN /\ pc' \in {"top", "got"}
      BY <1>0 DEF Get, VodInv, Sound, Loaded, Typed
    <2> QED
      BY <2>1 DEF Get, VodInv, Sound, Typed, mgt, flags, player
  <1>3. Order'
    BY DEF Get, VodInv, Sound, Order, player
  <1>4. Handshake'
    BY DEF Get, VodInv, Sound, OnSegment, Handshake, flags, player
  <1>5. Player'
    BY DEF Get, VodInv, Sound, Seeking, Player, mgt, flags, player
  <1>6. Loader'
    BY DEF Get, VodInv, Sound, Loaded, Ahead, Before, Seeking, OnSegment, Player,
         Loader, mgt, player
  <1>7. Told'
    BY DEF Get, VodInv, Sound, Ahead, Before, Seeking, Told, mgt, flags, player
  <1> QED BY <1>1, <1>2, <1>3, <1>4, <1>5, <1>6, <1>7 DEF Sound

LEMMA BeginStep ==
  ASSUME VodInv, ~raced', Begin
  PROVE  Sound'
  <1>b. /\ Before(cur) /\ cur \in 1..Segs + 1 /\ seg = list[cur].seg
        /\ hasEnd /\ off = 0 /\ pend = 0 /\ pc = "got"
    BY SizesOK DEF Begin, VodInv, Sound, Loader, Before
  <1>0. IF seg = End THEN cur = Segs + 1 ELSE seg \in 1..Segs /\ cur = seg
    BY <1>b, OnList, SizesOK DEF Begin, VodInv, Sound, End
  <1>a. Ahead' = Ahead /\ cur' = cur /\ seg' = seg
    BY DEF Begin, Ahead, mgt, loader, player
  <1>1. Loaded'
    BY DEF Begin, VodInv, Sound, Loaded, server, mgt
  <1>2. Typed'
    BY DEF Begin, VodInv, Sound, Typed, mgt, loader, player
  <1>3. Order'
    BY DEF Begin, VodInv, Sound, Order, player
  <1>4. Handshake'
    BY DEF Begin, VodInv, Sound, Handshake, player
  <1>5. Player'
    BY DEF Begin, VodInv, Sound, Seeking, OnSegment, Player, player
  <1>6. Loader'
    <2>1. CASE seg = End
      <3>1. pc' = "top" /\ off' = 0 /\ pend' = 0 /\ Before(cur)'
        BY <2>1, <1>a, <1>b DEF Begin, Before, server, mgt, flags, loader, player
      <3> QED BY <3>1 DEF Loader, OnSegment
    <2>2. CASE seg # End
      <3>1. pc' = "open" /\ off' = 0 /\ pend' = 0 /\ hasEnd'
        BY <2>2, <1>b DEF Begin, server, mgt, flags, loader, player
      <3>2. seg \in 1..Segs /\ cur = seg /\ Pos(seg, 1) \in Int
        BY <2>2, <1>0, PosInt, SizesOK
      <3>3. Ahead' = Pos(seg', 1) + off' - pend'
        BY <3>1, <3>2, <1>a, <1>b DEF Before
      <3> QED BY <3>1, <3>2, <3>3, <1>a DEF Loader, OnSegment
    <2> QED BY <2>1, <2>2
  <1>7. Told'
    BY <1>0, <1>a, <1>b DEF Begin, VodInv, Sound, Before, Told, player
  <1> QED BY <1>1, <1>2, <1>3, <1>4, <1>5, <1>6, <1>7 DEF Sound

LEMMA OpenStep ==
  ASSUME VodInv, ~raced', Open
  PROVE  Sound'
  BY DEF Open, VodInv, Sound, Loaded, Typed, Order, Ahead, Seeking, OnSegment,
       Handshake, Player, Loader, Told, server, mgt, flags, player

LEMMA OpenGoneStep ==
  ASSUME VodInv, ~raced', OpenGone
  PROVE  Sound'
  BY DEF OpenGone, VodInv, Sound, OnSegment, Loader

LEMMA OpenFailsStep ==
  ASSUME VodInv, ~raced', OpenFails
  PROVE  Sound'
  BY DEF OpenFails, VodInv, Sound, Loaded, Typed, Order, Seeking, OnSegment,
       Handshake, Player, Loader, Told, server, mgt, loader, player

LEMMA LeaveStep ==
  ASSUME VodInv, ~raced', Leave
  PROVE  Sound'
  BY DEF Leave, VodInv, Sound, Loaded, Typed, Order, Ahead, Seeking, OnSegment,
       Handshake, Player, Loader, Told, server, mgt, flags, loader, player, Leaves

LEMMA FetchStep ==
  ASSUME VodInv, ~raced', Fetch
  PROVE  Sound'
  <1>0. PICK n \in 1..Least(Piece, Units - off) : off' = off + n /\ pend' = n
    BY DEF Fetch
  <1>b. pend = 0 /\ off \in 0..Units /\ Pos(seg, 1) \in Int
    <2>1. pend = 0 /\ off \in 0..Units /\ seg \in 0..Segs
      BY DEF Fetch, VodInv, Sound, Typed
    <2>2. seg \in Int /\ 1 \in Int
      BY <2>1, SizesOK
    <2> QED BY <2>1, <2>2, PosInt
  <1>a. n \in Int /\ n >= 1 /\ off + n <= Units
    BY <1>0, <1>b, SizesOK DEF Least
  <1>1. Loaded'
    BY DEF Fetch, VodInv, Sound, Loaded, server, mgt
  <1>2. Typed'
    BY <1>0, <1>a, <1>b DEF Fetch, VodInv, Sound, Typed, mgt, flags, player
  <1>3. Order'
    BY DEF Fetch, VodInv, Sound, Order, player
  <1>4. Handshake'
    BY DEF Fetch, VodInv, Sound, OnSegment, Handshake, flags, player
  <1>5. Player'
    BY DEF Fetch, VodInv, Sound, Seeking, OnSegment, Player, mgt, player
  <1>6. Loader'
    BY <1>0, <1>a, <1>b DEF Fetch, VodInv, Sound, Ahead, Seeking, OnSegment, Loader,
         mgt, player
  <1>7. Told'
    BY DEF Fetch, VodInv, Sound, Seeking, Told, flags, player
  <1> QED BY <1>1, <1>2, <1>3, <1>4, <1>5, <1>6, <1>7 DEF Sound

LEMMA FetchEndsStep ==
  ASSUME VodInv, ~raced', FetchEnds
  PROVE  Sound'
  BY DEF FetchEnds, VodInv, Sound, Loaded, Typed, Order, Ahead, Seeking, OnSegment,
       Handshake, Player, Loader, Told, server, mgt, flags, loader, player

LEMMA PutRestStep ==
  ASSUME VodInv, ~raced', PutRest
  PROVE  Sound'
  BY DEF PutRest, VodInv, Sound, Loaded, Typed, Order, Ahead, Seeking, OnSegment,
       Handshake, Player, Loader, Told, server, mgt, flags, loader, player

LEMMA SkipStep ==
  ASSUME VodInv, ~raced', Skip
  PROVE  Sound'
  <1>0. /\ seg \in 1..Segs /\ Pos(seg, 1) \in Int
        /\ Pos(seg, 1) + Units = Pos(seg + 1, 1)
        /\ Ahead = Pos(seg, 1) + off - pend
        /\ Leaves \/ (off = Units /\ pend = 0)
    <2>1. pc = "skip" /\ seg \in 1..Segs
      BY DEF Skip, VodInv, Sound, Loader, OnSegment
    <2>2. Pos(seg, 1) \in Int /\ Pos(seg, 1) + Units = Pos(seg + 1, 1)
      BY <2>1, PosInt, PosNext, SizesOK
    <2> QED BY <2>1, <2>2 DEF Skip, VodInv, Sound, Loader, OnSegment
  <1>a. Ahead' = Ahead /\ cur' = cur /\ seg' = seg
    BY DEF Skip, Ahead, mgt, loader, player
  <1>b. reset \/ (~Seeking /\ cur = seg)
    BY DEF Skip, VodInv, Sound, Typed, Handshake, Player, Loader, OnSegment, Seeking
  <1>1. Loaded'
    BY DEF Skip, VodInv, Sound, Loaded, server, mgt
  <1>2. Typed'
    BY SizesOK DEF Skip, VodInv, Sound, Typed, mgt, flags, player
  <1>3. Order'
    BY DEF Skip, VodInv, Sound, Order, player
  <1>4. Handshake'
    BY DEF Skip, VodInv, Sound, OnSegment, Handshake, flags, player
  <1>5. Player'
    BY DEF Skip, VodInv, Sound, Seeking, Handshake, Player, mgt, player
  <1>6. Loader'
    <2>1. CASE reset
      <3>1. pc' = "top" /\ Seeking' /\ off' = 0 /\ pend' = 0
        BY <2>1
           DEF Skip, VodInv, Sound, Handshake, Seeking, server, mgt, flags, loader, player
      <3> QED BY <3>1 DEF Loader, OnSegment
    <2>2. CASE ~reset
      <3>1. /\ pc' = "switch" /\ off' = 0 /\ pend' = 0
            /\ exit' = exit /\ stop' = stop
        BY <2>2 DEF Skip, server, mgt, flags, loader, player
      <3>2. exit \/ stop \/ Ahead = Pos(seg + 1, 1)
        BY <2>2, <1>0, SizesOK DEF Leaves, VodInv, Sound, Typed
      <3>3. cur' \in 1..Segs /\ (exit' \/ stop' \/ Before(cur + 1)')
        BY <3>1, <3>2, <1>0, <1>a, <1>b, <2>2, SizesOK DEF Before
      <3> QED BY <3>1, <3>3, <1>a DEF Loader, OnSegment
    <2> QED BY <2>1, <2>2
  <1>7. Told'
    BY DEF Skip, VodInv, Sound, Seeking, Told, flags, player
  <1> QED BY <1>1, <1>2, <1>3, <1>4, <1>5, <1>6, <1>7 DEF Sound

LEMMA SwitchNextStep ==
  ASSUME VodInv, ~raced', SwitchNext
  PROVE  Sound'
  <1>0. cur \in 1..Segs /\ (nxt' = 0 \/ nxt' = cur + 1)
    BY DEF SwitchNext, VodInv, Sound, Loader, Returns
  <1>1. Loaded'
    BY DEF SwitchNext, VodInv, Sound, Loaded, server, mgt
  <1>2. Typed'
    BY <1>0, SizesOK DEF SwitchNext, VodInv, Sound, Typed, mgt, flags, player,
         Returns
  <1>3. Order'
    BY DEF SwitchNext, VodInv, Sound, Order, player
  <1>4. Handshake'
    BY DEF SwitchNext, VodInv, Sound, OnSegment, Handshake, flags, player, Returns
  <1>5. Player'
    BY DEF SwitchNext, VodInv, Sound, Seeking, OnSegment, Player, player
  <1>6. Loader'
    BY DEF SwitchNext, VodInv, Sound, Ahead, Before, OnSegment, Loader, flags, player,
         Returns
  <1>7. Told'
    BY DEF SwitchNext, VodInv, Sound, Player, Loader, Told, flags, player
  <1> QED BY <1>1, <1>2, <1>3, <1>4, <1>5, <1>6, <1>7 DEF Sound

LEMMA ReloadStep ==
  ASSUME VodInv, ~raced', Reload
  PROVE  Sound'
  <1>1. ~raced /\ Sound /\ pc = "switch" /\ AtLast
    BY DEF Reload, VodInv
  <1>2. cur \in 1..Segs /\ Len(list) = Segs + 1
    BY <1>1 DEF Sound, Loader, Loaded
  <1> QED BY <1>1, <1>2, SizesOK DEF AtLast

LEMMA TooEarlyStep ==
  ASSUME VodInv, ~raced', TooEarly
  PROVE  Sound'
  <1>1. ~raced /\ Sound /\ pc = "switch" /\ AtLast
    BY DEF TooEarly, VodInv
  <1>2. cur \in 1..Segs /\ Len(list) = Segs + 1
    BY <1>1 DEF Sound, Loader, Loaded
  <1> QED BY <1>1, <1>2, SizesOK DEF AtLast

LEMMA ReloadFailsStep ==
  ASSUME VodInv, ~raced', ReloadFails
  PROVE  Sound'
  <1>1. ~raced /\ Sound /\ pc = "switch" /\ AtLast
    BY DEF ReloadFails, VodInv
  <1>2. cur \in 1..Segs /\ Len(list) = Segs + 1
    BY <1>1 DEF Sound, Loader, Loaded
  <1> QED BY <1>1, <1>2, SizesOK DEF AtLast

LEMMA SwitchStoppedStep ==
  ASSUME VodInv, ~raced', SwitchStopped
  PROVE  Sound'
  <1>1. ~raced /\ Sound /\ pc = "switch" /\ AtLast
    BY DEF SwitchStopped, VodInv
  <1>2. cur \in 1..Segs /\ Len(list) = Segs + 1
    BY <1>1 DEF Sound, Loader, Loaded
  <1> QED BY <1>1, <1>2, SizesOK DEF AtLast

LEMMA SwitchedStep ==
  ASSUME VodInv, ~raced', Switched
  PROVE  Sound'
  BY DEF Switched, VodInv, Sound, Loaded, Typed, Order, Ahead, Before, Seeking,
       OnSegment, Handshake, Player, Loader, Told, server, flags, player

(* Units put behind those in the fifo, and units taken from its front. *)
LEMMA AppendRun ==
  ASSUME NEW f \in Seq(Int), NEW a \in Int, NEW n \in Nat,
         \A i \in 1..Len(f) : f[i] = a + i - 1,
         NEW g, g = f \o [i \in 1..n |-> a + Len(f) + i - 1]
  PROVE  /\ g \in Seq(Int) /\ Len(g) = Len(f) + n
         /\ \A i \in 1..Len(g) : g[i] = a + i - 1
  <1> DEFINE h == [i \in 1..n |-> a + Len(f) + i - 1]
  <1>1. h \in Seq(Int) /\ Len(h) = n
    BY LenProperties
  <1>2. /\ g \in Seq(Int) /\ Len(g) = Len(f) + n
        /\ \A i \in 1..Len(f) + n :
             g[i] = IF i <= Len(f) THEN f[i] ELSE h[i - Len(f)]
    BY <1>1, ConcatProperties
  <1>3. Len(f) \in Nat
    BY LenProperties
  <1>4. \A i \in 1..Len(f) + n : i > Len(f) => h[i - Len(f)] = a + i - 1
    BY <1>3
  <1> QED BY <1>2, <1>3, <1>4

LEMMA DropRun ==
  ASSUME NEW f \in Seq(Int), NEW a \in Int, NEW n \in 1..Len(f),
         \A i \in 1..Len(f) : f[i] = a + i - 1
  PROVE  /\ f[n] = a + n - 1
         /\ SubSeq(f, n + 1, Len(f)) \in Seq(Int)
         /\ Len(SubSeq(f, n + 1, Len(f))) = Len(f) - n
         /\ \A i \in 1..Len(f) - n : SubSeq(f, n + 1, Len(f))[i] = a + n + i - 1
  <1> DEFINE g == SubSeq(f, n + 1, Len(f))
  <1>1. Len(f) \in Nat /\ n \in 0..Len(f)
    BY LenProperties
  <1>2. /\ g \in Seq(Int) /\ Len(g) = Len(f) - n
        /\ \A i \in 1..Len(f) - n : g[i] = f[n + i]
    BY <1>1, TailFrom
  <1> HIDE DEF g
  <1>3. \A i \in 1..Len(f) - n : g[i] = a + n + i - 1
    <2> TAKE i \in 1..Len(f) - n
    <2>1. n + i \in 1..Len(f) /\ a + (n + i) - 1 = a + n + i - 1
      BY <1>1
    <2> QED BY <1>2, <2>1
  <1> QED BY <1>2, <1>3 DEF g

LEMMA PutStep ==
  ASSUME VodInv, ~raced', Put
  PROVE  Sound'
  <1>0. PICK n : n = Least(Space, pend)
    OBVIOUS
  <1>a. /\ fifo \in Seq(Int) /\ at \in Int /\ Len(fifo) <= FifoSize
        /\ off \in 0..Units /\ pend \in 0..off /\ seg \in 1..Segs
        /\ Ahead = Pos(seg, 1) + off - pend
    BY DEF Put, VodInv, Sound, Typed, Loader, OnSegment
  <1>b. Len(fifo) \in Nat /\ Pos(seg, 1) \in Int
    BY <1>a, PosInt, LenProperties, SizesOK
  <1>1. n \in Nat /\ n <= pend /\ Len(fifo) + n <= FifoSize
    BY <1>0, <1>a, <1>b, SizesOK DEF Least, Space
  <1>2. \A i \in 1..n : Pos(seg, off - pend + i) = at + Len(fifo) + i - 1
    <2> TAKE i \in 1..n
    <2>1. Pos(seg, off - pend + i) = Pos(seg, 1) + (off - pend + i) - 1
      BY <1>1, <1>a, PosNext, SizesOK
    <2>2. Pos(seg, 1) + off - pend = at + Len(fifo)
      BY <1>a DEF Ahead
    <2>3. /\ Pos(seg, 1) \in Int /\ at \in Int /\ Len(fifo) \in Int
          /\ off \in Int /\ pend \in Int /\ i \in Int
      BY <1>1, <1>a, <1>b, SizesOK
    <2> QED BY <2>1, <2>2, <2>3
  <1>3. fifo' = fifo \o [i \in 1..n |-> at + Len(fifo) + i - 1]
    BY <1>0, <1>2 DEF Put
  <1>4. /\ fifo' \in Seq(Int) /\ Len(fifo') = Len(fifo) + n
        /\ \A i \in 1..Len(fifo') : fifo'[i] = at + i - 1
    <2>1. \A i \in 1..Len(fifo) : fifo[i] = at + i - 1
      BY DEF VodInv, Sound, Order, Put
    <2> QED BY <2>1, <1>1, <1>3, <1>a, AppendRun
  <1>c. pend' = pend - n /\ pc' = "read" /\ pc = "put" /\ at' = at
    BY <1>0 DEF Put, player
  <1>5. Ahead' = Pos(seg, 1) + off - pend'
    <2>1. Ahead' = Ahead + n
      BY <1>1, <1>4, <1>a, <1>b, <1>c DEF Ahead
    <2> QED BY <2>1, <1>1, <1>a, <1>b, <1>c
  <1>6. Loaded'
    BY <1>1, <1>4, <1>5, <1>a, <1>b, <1>c DEF Put, VodInv, Sound, Loaded, server,
         mgt
  <1>7. Typed'
    <2>1. Typed
      BY DEF Put, VodInv, Sound
    <2>2. cur' = cur
      BY DEF Put, mgt
    <2>3. UNCHANGED <<nxt, seg, off, exit, exited, reset, finish, stop, eof,
                     hasEnd, call>>
      BY DEF Put, mgt, flags, loader, player
    <2> QED BY <2>1, <2>2, <2>3, <1>1, <1>4, <1>a, <1>b, <1>c, SizesOK DEF Typed
  <1>8. Order'
    BY <1>1, <1>4, <1>5, <1>a, <1>b, <1>c DEF Order
  <1>9. Handshake'
    BY <1>1, <1>4, <1>5, <1>a, <1>b, <1>c DEF Put, VodInv, Sound, OnSegment,
         Handshake, flags, player
  <1>10. Player'
    BY <1>1, <1>4, <1>5, <1>a, <1>b, <1>c DEF Put, VodInv, Sound, Seeking,
         OnSegment, Player, mgt, player
  <1>11. Loader'
    BY <1>1, <1>4, <1>5, <1>a, <1>b, <1>c DEF Put, VodInv, Sound, Seeking,
         OnSegment, Loader, mgt, player
  <1>12. Told'
    BY <1>1, <1>4, <1>5, <1>a, <1>b, <1>c DEF Put, VodInv, Sound, Seeking, Told,
         flags, player
  <1> QED BY <1>6, <1>7, <1>8, <1>9, <1>10, <1>11, <1>12 DEF Sound

LEMMA ReadStep ==
  ASSUME VodInv, ~raced', Read
  PROVE  Sound'
  <1>1. PICK n \in 1..Len(fifo) : /\ at' = fifo[n] + 1
                                 /\ fifo' = SubSeq(fifo, n + 1, Len(fifo))
    BY DEF Read
  <1>2. /\ fifo \in Seq(Int) /\ Len(fifo) \in Nat /\ at \in Int /\ n \in Int
        /\ \A i \in 1..Len(fifo) : fifo[i] = at + i - 1
    BY <1>1, LenProperties DEF Read, VodInv, Sound, Typed, Order
  <1>a. /\ fifo' \in Seq(Int) /\ Len(fifo') = Len(fifo) - n
        /\ \A i \in 1..Len(fifo') : fifo'[i] = at + n + i - 1
    <2> DEFINE rest == SubSeq(fifo, n + 1, Len(fifo))
    <2>1. /\ rest \in Seq(Int) /\ Len(rest) = Len(fifo) - n
          /\ \A i \in 1..Len(fifo) - n : rest[i] = at + n + i - 1
      BY <1>2, DropRun
    <2> HIDE DEF rest
    <2>2. fifo' = rest
      BY <1>1 DEF rest
    <2> QED BY <2>1, <2>2
  <1>3. at' = at + n
    BY <1>1, <1>2
  <1>4. Ahead' = Ahead /\ ~eof' /\ call = "idle" /\ Len(fifo') <= Len(fifo)
    <2>1. ~eof' /\ call = "idle"
      BY DEF Read
    <2>2. at' + Len(fifo') = at + Len(fifo) /\ Len(fifo') <= Len(fifo)
      BY <1>2, <1>3, <1>a
    <2> QED BY <2>1, <2>2 DEF Ahead
  <1>5. Loaded'
    BY <1>2, <1>3, <1>4, <1>a DEF Read, VodInv, Sound, Loaded, server, mgt
  <1>6. Typed'
    <2>1. Typed
      BY DEF Read, VodInv, Sound
    <2>2. cur' = cur /\ eof' \in BOOLEAN
      BY DEF Read, mgt
    <2>3. UNCHANGED <<nxt, seg, off, pend, exit, exited, reset, finish, stop,
                     hasEnd, pc, call>>
      BY DEF Read, mgt, flags, loader, player
    <2>4. Len(fifo') <= Len(fifo)
      BY <1>4
    <2> QED BY <2>1, <2>2, <2>3, <2>4, <1>2, <1>3, <1>a, SizesOK DEF Typed
  <1>7. Order'
    BY <1>2, <1>3, <1>4, <1>a DEF Order
  <1>8. Handshake'
    BY <1>2, <1>3, <1>4, <1>a DEF Read, VodInv, Sound, OnSegment, Handshake, flags
  <1>9. Player'
    BY <1>2, <1>3, <1>4, <1>a DEF Read, Seeking, Player
  <1>10. Loader'
    BY <1>2, <1>3, <1>4, <1>a DEF Read, VodInv, Sound, Before, Seeking, OnSegment,
         Loader, mgt, flags, loader, Leaves
  <1>11. Told'
    BY <1>2, <1>3, <1>4, <1>a DEF Read, VodInv, Sound, Before, Seeking, Told, mgt,
         flags
  <1> QED BY <1>5, <1>6, <1>7, <1>8, <1>9, <1>10, <1>11 DEF Sound

LEMMA ReadEndStep ==
  ASSUME VodInv, ~raced', ReadEnd
  PROVE  Sound'
  <1>1. Loaded'
    BY DEF ReadEnd, VodInv, Sound, Loaded, server, mgt
  <1>2. Typed'
    BY DEF ReadEnd, VodInv, Sound, Typed, mgt, flags, loader
  <1>3. Order'
    BY DEF ReadEnd, Order
  <1>4. Handshake'
    BY DEF ReadEnd, VodInv, Sound, OnSegment, Handshake, flags
  <1>5. Player'
    BY DEF ReadEnd, Seeking, Player
  <1>6. Loader'
    BY DEF ReadEnd, VodInv, Sound, Ahead, Before, Seeking, OnSegment, Loader, mgt,
         flags, loader, Leaves
  <1>7. Told'
    BY DEF ReadEnd, VodInv, Sound, Typed, Ahead, Before, Seeking, Handshake, Told, mgt
  <1> QED BY <1>1, <1>2, <1>3, <1>4, <1>5, <1>6, <1>7 DEF Sound

LEMMA InterruptStep ==
  ASSUME VodInv, ~raced', Interrupt
  PROVE  Sound'
  BY DEF Interrupt, VodInv, Sound, Loaded, Typed, Order, Ahead, Before, Seeking,
       OnSegment, Handshake, Player, Loader, Told, server, mgt, flags, loader,
       Leaves

LEMMA PublishStep ==
  ASSUME VodInv, ~raced', Publish
  PROVE  Sound'
  BY DEF Publish, VodInv

LEMMA FinishStep ==
  ASSUME VodInv, ~raced', Finish
  PROVE  Sound'
  BY DEF Finish, VodInv

LEMMA SeekStep ==
  ASSUME VodInv, ~raced', Seek
  PROVE  Sound'
  <1>0. goal' \in 1..Segs
    BY SizesOK DEF Seek, VodInv, Sound, Loaded
  <1>1. Loaded'
    BY DEF Seek, VodInv, Sound, Loaded, server
  <1>2. Typed'
    <2>1. Typed
      BY DEF Seek, VodInv, Sound
    <2>2. cur' = 0 /\ call' = "seeking" /\ eof' \in BOOLEAN
      BY DEF Seek
    <2>3. UNCHANGED <<nxt, seg, off, pend, at, fifo, exit, exited, reset, finish,
                     stop, hasEnd, pc>>
      BY DEF Seek, flags, loader, player
    <2> QED BY <2>1, <2>2, <2>3, SizesOK DEF Typed
  <1>3. Order'
    BY DEF Seek, VodInv, Sound, Order
  <1>4. Handshake'
    BY DEF Seek, VodInv, Sound, OnSegment, Handshake, flags
  <1>5. Player'
    BY <1>0 DEF Seek, VodInv, Sound, Typed, OnSegment, Player
  <1>6. Loader'
    BY DEF Seek, VodInv, Sound, Ahead, Seeking, OnSegment, Loader, flags, loader,
         Leaves
  <1>7. Told'
    BY DEF Seek, Seeking, Told
  <1> QED BY <1>1, <1>2, <1>3, <1>4, <1>5, <1>6, <1>7 DEF Sound

LEMMA ResetStep ==
  ASSUME VodInv, ~raced', Reset
  PROVE  Sound'
  BY DEF Reset, VodInv, Sound, Loaded, Typed, Order, Ahead, Seeking, OnSegment,
       Handshake, Player, Loader, Told, server, mgt, loader, Leaves

LEMMA EmptiedStep ==
  ASSUME VodInv, ~raced', Emptied
  PROVE  Sound'
  <1>1. Loaded'
    BY DEF Emptied, VodInv, Sound, Loaded, server, mgt
  <1>2. Typed'
    <2>1. Typed
      BY DEF Emptied, VodInv, Sound
    <2>0. << >> \in Seq(Int) /\ Len(<< >>) = 0
      BY EmptySeq
    <2>2. /\ fifo' = << >> /\ call' = "placing"
          /\ reset' \in BOOLEAN /\ finish' \in BOOLEAN
      BY DEF Emptied, mgt
    <2>3. UNCHANGED <<cur, nxt, seg, off, pend, at, exit, exited, stop, eof,
                     hasEnd, pc>>
      BY DEF Emptied, mgt, flags, loader, player
    <2> QED BY <2>1, <2>2, <2>3, <2>0, SizesOK DEF Typed
  <1>3. Order'
    BY DEF Emptied, Order
  <1>4. Handshake'
    BY DEF Emptied, VodInv, Sound, OnSegment, Handshake
  <1>5. Player'
    BY DEF Emptied, VodInv, Sound, Seeking, Handshake, Player, mgt
  <1>6. Loader'
    BY DEF Emptied, VodInv, Sound, Seeking, OnSegment, Handshake, Player, Loader,
         loader
  <1>7. Told'
    BY DEF Emptied, VodInv, Sound, Told
  <1> QED BY <1>1, <1>2, <1>3, <1>4, <1>5, <1>6, <1>7 DEF Sound

LEMMA PlacedStep ==
  ASSUME VodInv, ~raced', Placed
  PROVE  Sound'
  <1>a. /\ goal \in 1..Segs /\ fifo = << >> /\ call = "placing"
        /\ pc \in {"top", "get", "ended"}
    BY DEF Placed, VodInv, Sound, Player, Seeking
  <1>0. list[goal].seg = goal /\ Pos(goal, 1) \in Int /\ Len(fifo) = 0
    <2>1. Len(<< >>) = 0
      BY EmptySeq
    <2>2. goal \in Int /\ Pos(goal, 1) \in Int
      BY <1>a, PosInt, SizesOK
    <2> QED BY <2>1, <2>2, <1>a DEF VodInv, Sound, Loaded, Placed
  <1>1. Loaded'
    BY DEF Placed, VodInv, Sound, Loaded, server
  <1>2. Typed'
    BY <1>0, <1>a, SizesOK
       DEF Placed, VodInv, Sound, Typed, server, mgt, flags, loader, player
  <1>3. Order'
    BY DEF Placed, VodInv, Sound, Order, Player
  <1>4. Handshake'
    BY DEF Placed, VodInv, Sound, OnSegment, Handshake, flags
  <1>5. Player'
    BY DEF Placed, Seeking, Player
  <1>6. Loader'
    BY <1>0, <1>a, SizesOK DEF Placed, VodInv, Sound, Ahead, Before, OnSegment,
         Loader, loader
  <1>7. Told'
    BY DEF Placed, VodInv, Sound, Seeking, Player, Told, flags
  <1> QED BY <1>1, <1>2, <1>3, <1>4, <1>5, <1>6, <1>7 DEF Sound

LEMMA CloseStep ==
  ASSUME VodInv, ~raced', Close
  PROVE  Sound'
  BY DEF Close, VodInv, Sound, Loaded, Typed, Order, Ahead, Before, Seeking,
       OnSegment, Handshake, Player, Loader, Told, server, mgt, loader, Leaves

LEMMA JoinedStep ==
  ASSUME VodInv, ~raced', Joined
  PROVE  Sound'
  BY DEF Joined, VodInv, Sound, Loaded, Typed, Order, Ahead, Before, Seeking,
       OnSegment, Handshake, Player, Loader, Told, server, mgt, flags, loader

LEMMA ClosedStep ==
  ASSUME VodInv, ~raced', Closed
  PROVE  Sound'
  BY DEF Closed, VodInv, Sound, Loaded, Typed, Order, Ahead, Before, Seeking,
       OnSegment, Handshake, Player, Loader, Told, server, mgt, flags, loader,
       player, Leaves, vars

LEMMA VodInit ==
  ASSUME Init, ~live
  PROVE  VodInv
  <1>1. ~live /\ over /\ ended /\ pub = Segs /\ cur = 1
    BY DEF Init
  <1>2. Lines = [i \in 1..Segs |-> i] \o <<End>>
    BY <1>1, SizesOK DEF Lines, Oldest
  <1>3. /\ Lines \in Seq(Int) /\ Len(Lines) = Segs + 1
        /\ \A i \in 1..Segs + 1 :
             Lines[i] = IF i <= Segs THEN i ELSE End
    <2> DEFINE a == [i \in 1..Segs |-> i]
    <2>1. a \in Seq(Int) /\ Len(a) = Segs
      BY SizesOK
    <2>2. <<End>> \in Seq(Int) /\ Len(<<End>>) = 1 /\ <<End>>[1] = End
      BY DEF End
    <2>3. /\ a \o <<End>> \in Seq(Int) /\ Len(a \o <<End>>) = Segs + 1
          /\ \A i \in 1..Segs + 1 : (a \o <<End>>)[i] =
                IF i <= Segs THEN a[i] ELSE <<End>>[i - Segs]
      BY <2>1, <2>2, ConcatProperties, SizesOK
    <2> QED BY <1>2, <2>2, <2>3, SizesOK
  <1>4. /\ Len(list) = Segs + 1
        /\ \A i \in 1..Segs + 1 : list[i].seg = Lines[i]
    <2>1. list = [i \in 1..Segs + 1 |->
                    Item(Lines[i], IF numbered = "none" THEN -1 ELSE i)]
      BY <1>3 DEF Init
    <2>2. \A s, q : Item(s, q).seg = s
      BY DEF Item
    <2> QED BY <2>1, <2>2, SizesOK
  <1>5. Loaded
    BY <1>1, <1>3, <1>4, SizesOK DEF Loaded, Item
  <1>6. /\ fifo \in Seq(Int) /\ Len(fifo) = 0
        /\ at = Pos(1, 1) /\ at \in Int
    <2>1. fifo = << >> /\ << >> \in Seq(Int) /\ Len(<< >>) = 0
      BY EmptySeq DEF Init
    <2>2. list[1].seg = 1 /\ Pos(1, 1) \in Int
      BY <1>5, PosInt, SizesOK DEF Loaded
    <2> QED BY <1>1, <2>1, <2>2 DEF Init
  <1>9. /\ exit \in BOOLEAN /\ exited \in BOOLEAN /\ reset \in BOOLEAN
        /\ finish \in BOOLEAN /\ stop \in BOOLEAN /\ eof \in BOOLEAN
        /\ hasEnd \in BOOLEAN
    BY DEF Init
  <1>a. Typed
    <2>1. pc = "top" /\ call = "idle" /\ nxt = 0 /\ seg = 0 /\ off = 0 /\ pend = 0
      BY DEF Init, End
    <2> QED BY <1>1, <1>6, <1>9, <2>1, SizesOK DEF Typed
  <1>b. Order
    BY <1>6 DEF Order
  <1>c. Handshake /\ Player /\ Told
    BY DEF Init, Handshake, Player, Told, Seeking, OnSegment
  <1>7. Typed /\ Order /\ Handshake /\ Player /\ Told
    BY <1>a, <1>b, <1>c
  <1>8. Loader
    BY <1>1, <1>6, PosInt, SizesOK DEF Init, Loader, OnSegment, Before, Ahead
  <1> QED BY <1>1, <1>5, <1>7, <1>8 DEF VodInv, Sound, Init

LEMMA VodStep ==
  ASSUME VodInv, [Next]_vars
  PROVE  VodInv'
  <1>1. ~live' /\ raced' \in BOOLEAN /\ (raced => raced')
    <2>1. CASE UNCHANGED vars
      BY <2>1 DEF vars, server, VodInv
    <2>2. CASE Top
      BY <2>2 DEF Top, server, VodInv
    <2>3. CASE Get
      BY <2>3 DEF Get, server, VodInv
    <2>4. CASE Begin
      BY <2>4 DEF Begin, server, VodInv
    <2>5. CASE Open
      BY <2>5 DEF Open, server, VodInv
    <2>6. CASE OpenGone
      BY <2>6 DEF OpenGone, server, VodInv
    <2>7. CASE OpenFails
      BY <2>7 DEF OpenFails, server, VodInv
    <2>8. CASE Leave
      BY <2>8 DEF Leave, server, VodInv
    <2>9. CASE Fetch
      BY <2>9 DEF Fetch, server, VodInv
    <2>10. CASE FetchEnds
      BY <2>10 DEF FetchEnds, server, VodInv
    <2>11. CASE PutRest
      BY <2>11 DEF PutRest, server, VodInv
    <2>12. CASE Put
      BY <2>12 DEF Put, server, VodInv
    <2>13. CASE Skip
      BY <2>13 DEF Skip, server, VodInv
    <2>14. CASE SwitchNext
      BY <2>14 DEF SwitchNext, server, VodInv
    <2>15. CASE Reload
      BY <2>15 DEF Reload, server, VodInv
    <2>16. CASE TooEarly
      BY <2>16 DEF TooEarly, server, VodInv
    <2>17. CASE SwitchStopped
      BY <2>17 DEF SwitchStopped, server, VodInv
    <2>18. CASE Switched
      BY <2>18 DEF Switched, server, VodInv
    <2>19. CASE Publish
      BY <2>19 DEF Publish, server, VodInv
    <2>20. CASE Finish
      BY <2>20 DEF Finish, server, VodInv
    <2>21. CASE Interrupt
      BY <2>21 DEF Interrupt, server, VodInv
    <2>22. CASE Read
      BY <2>22 DEF Read, server, VodInv
    <2>23. CASE ReadEnd
      BY <2>23 DEF ReadEnd, server, VodInv
    <2>24. CASE Seek
      BY <2>24 DEF Seek, server, VodInv
    <2>25. CASE Reset
      BY <2>25 DEF Reset, server, VodInv
    <2>26. CASE Emptied
      BY <2>26 DEF Emptied, server, VodInv
    <2>27. CASE Placed
      BY <2>27 DEF Placed, server, VodInv
    <2>28. CASE Joined
      BY <2>28 DEF Joined, server, VodInv
    <2>29. CASE Close
      BY <2>29 DEF Close, server, VodInv
    <2>30. CASE Closed
      BY <2>30 DEF Closed, vars, server, VodInv
    <2>31. CASE ReloadFails
      BY <2>31 DEF ReloadFails, server, VodInv
    <2>32. CASE OpenAgain \/ FetchAgain
      BY <2>1, <2>32 DEF OpenAgain, FetchAgain
    <2> QED BY <2>1, <2>2, <2>3, <2>4, <2>5, <2>6, <2>7, <2>8, <2>9, <2>10, <2>11, <2>12, <2>13,
            <2>14, <2>15, <2>16, <2>17, <2>18, <2>19, <2>20, <2>21, <2>22, <2>23, <2>24,
            <2>25,
            <2>26, <2>27, <2>28, <2>29, <2>30, <2>31, <2>32
         DEF Next, Download, Reads, Carry
  <1>2. ASSUME ~raced'
        PROVE  Sound'
    <2>1. CASE UNCHANGED vars
      BY <2>1, <1>1, <1>2 DEF vars, server, mgt, flags, loader, player, VodInv,
           Sound, Loaded, Typed, Order, Ahead, Before, Seeking, OnSegment,
           Handshake, Player, Loader, Told, Leaves
    <2>2. CASE OpenAgain \/ FetchAgain
      BY <2>1, <2>2 DEF OpenAgain, FetchAgain
    <2>3. CASE Download /\ ~OpenAgain /\ ~FetchAgain
      BY <2>3, <1>2, TopStep, GetStep, BeginStep, OpenStep, OpenGoneStep,
         OpenFailsStep, LeaveStep, FetchStep, FetchEndsStep, PutRestStep,
         PutStep, SkipStep, SwitchNextStep, ReloadStep, TooEarlyStep,
         ReloadFailsStep, SwitchStoppedStep, SwitchedStep DEF Download
    <2>4. CASE Next /\ ~Download
      BY <2>4, <1>2, PublishStep, FinishStep, InterruptStep, ReadStep,
         ReadEndStep, SeekStep, ResetStep, EmptiedStep, PlacedStep, JoinedStep,
         CloseStep, ClosedStep DEF Next, Reads, Carry
    <2> QED BY <2>1, <2>2, <2>3, <2>4
  <1> QED BY <1>1, <1>2 DEF VodInv

LEMMA VodRight ==
  ASSUME VodInv
  PROVE  InOrder /\ OnlyEndTold
  <1>1. Pos(Segs, Units) + 1 = Pos(Segs + 1, 1)
    <2>1. /\ Pos(Segs, 1) + Units = Pos(Segs + 1, 1)
          /\ Pos(Segs, Units) = Pos(Segs, 1) + Units - 1
          /\ Pos(Segs, 1) \in Int
      BY PosInt, PosNext, SizesOK
    <2> QED BY <2>1, SizesOK
  <1>2. InOrder
    BY DEF VodInv, Sound, Order, InOrder
  <1>3. OnlyEndTold
    BY <1>1 DEF VodInv, Sound, Told, OnlyEndTold
  <1> QED BY <1>2, <1>3

-----------------------------------------------------------------------------
(* A list without an end. *)

(* The least position that may come next into the fifo. *)
Edge == IF Len(fifo) = 0 THEN at ELSE fifo[Len(fifo)] + 1
Upward == \A i \in 1..Len(fifo) :
            fifo[i] >= IF i = 1 THEN at ELSE fifo[i - 1] + 1

(* The list shows nothing the server has not, its segments ascend from the *)
(* current one on, and an end is the last item of a list that has one.     *)
LiveList ==
  /\ over => pub = Segs
  /\ ended => over /\ Len(list) # 0 /\ list[Len(list)].seg = End
  /\ \A i \in 1..Len(list) :
       /\ list[i].seg <= pub
       /\ list[i].seg = End => i = Len(list) /\ ended
  /\ cur # 0 => \A i, j \in cur..Len(list) :
                  i < j => list[j].seg = End \/ list[i].seg < list[j].seg

(* Item i is not behind what is in the fifo. *)
Due(i) == list[i].seg = End \/ Edge <= Pos(list[i].seg, 1)

(* Where the downloader is, and that it is never behind the fifo. *)
LiveLoader ==
  /\ pc \in {"top", "get", "got"} /\ cur # 0 => Due(cur)
  /\ OnSegment \/ pc \in {"got", "switch"} => cur # 0 /\ seg = list[cur].seg
  /\ OnSegment => Edge <= Pos(seg, off - pend + 1)
  /\ pc \notin {"read", "put", "skip", "ended"} => off = 0 /\ pend = 0
  /\ pc = "switch" => seg # End /\ Edge <= Pos(seg + 1, 1)
  /\ pc = "switched" /\ nxt # 0 => cur # 0 /\ nxt = cur + 1 /\ Due(nxt)

LiveTold == (finish => over) /\ (eof => exited \/ over)

LivePart == ~raced /\ ~reset /\ LiveList /\ Upward /\ LiveLoader /\ LiveTold
LiveInv == TInv /\ live /\ LivePart

LEMMA ListKept ==
  ASSUME LiveList, UNCHANGED <<server, mgt>>
  PROVE  LiveList'
  BY DEF LiveList, server, mgt

LEMMA FifoKept ==
  ASSUME Upward, UNCHANGED <<fifo, at>>
  PROVE  Upward' /\ Edge' = Edge
  BY DEF Upward, Edge

LEMMA DueKept ==
  ASSUME UNCHANGED <<fifo, at, list>>, NEW i, Due(i)
  PROVE  Due(i)'
  BY DEF Due, Edge
 
LEMMA EdgeInt ==
  ASSUME TypeOK
  PROVE  Edge \in Int
  <1>1. fifo \in Seq(Nat) /\ at \in Nat /\ Len(fifo) \in Nat
    BY LenProperties DEF TypeOK
  <1>2. Len(fifo) # 0 => fifo[Len(fifo)] \in Nat
    BY <1>1, ElementOfSeq
  <1> QED BY <1>1, <1>2 DEF Edge

LEMMA TopLive ==
  ASSUME LiveInv, Top
  PROVE  LivePart'
  <1>1. LivePart /\ TInv
    BY DEF LiveInv
  <1>2. UNCHANGED <<server, mgt, fifo, at, reset, raced>>
    BY DEF Top, flags, player, server, mgt
  <1>3. LiveList' /\ Upward' /\ Edge' = Edge
    BY <1>1, <1>2, ListKept, FifoKept DEF LivePart
  <1>4. LiveLoader'
    BY <1>1, <1>2, <1>3
       DEF Top, LivePart, LiveLoader, Due, OnSegment, mgt, flags, loader, player,
       TInv, TypeOK, Aside
  <1>5. LiveTold'
    BY <1>1, <1>2 DEF Top, LivePart, LiveTold, server, mgt, flags, player
  <1> QED BY <1>1, <1>2, <1>3, <1>4, <1>5 DEF LivePart

LEMMA GetLive ==
  ASSUME LiveInv, Get
  PROVE  LivePart'
  <1>1. LivePart /\ TInv
    BY DEF LiveInv
  <1>2. UNCHANGED <<server, mgt, fifo, at, reset, raced>>
    BY DEF Get, flags, player, server, mgt
  <1>3. LiveList' /\ Upward' /\ Edge' = Edge
    BY <1>1, <1>2, ListKept, FifoKept DEF LivePart
  <1>4. LiveLoader'
    BY <1>1, <1>2, <1>3
       DEF Get, LivePart, LiveLoader, Due, OnSegment, mgt, flags, loader, player,
       TInv, TypeOK, Aside
  <1>5. LiveTold'
    BY <1>1, <1>2 DEF Get, LivePart, LiveTold, server, mgt, flags, player
  <1> QED BY <1>1, <1>2, <1>3, <1>4, <1>5 DEF LivePart

LEMMA OpenLive ==
  ASSUME LiveInv, Open
  PROVE  LivePart'
  <1>1. LivePart /\ TInv
    BY DEF LiveInv
  <1>2. UNCHANGED <<server, mgt, fifo, at, reset, raced>>
    BY DEF Open, flags, player, server, mgt
  <1>3. LiveList' /\ Upward' /\ Edge' = Edge
    BY <1>1, <1>2, ListKept, FifoKept DEF LivePart
  <1>4. LiveLoader'
    BY <1>1, <1>2, <1>3
       DEF Open, LivePart, LiveLoader, Due, OnSegment, mgt, flags, loader, player,
       TInv, TypeOK, Aside
  <1>5. LiveTold'
    BY <1>1, <1>2 DEF Open, LivePart, LiveTold, server, mgt, flags, player
  <1> QED BY <1>1, <1>2, <1>3, <1>4, <1>5 DEF LivePart

LEMMA OpenGoneLive ==
  ASSUME LiveInv, OpenGone
  PROVE  LivePart'
  <1>1. LivePart /\ TInv
    BY DEF LiveInv
  <1>2. UNCHANGED <<server, mgt, fifo, at, reset, raced>>
    BY DEF OpenGone, flags, player, server, mgt
  <1>3. LiveList' /\ Upward' /\ Edge' = Edge
    BY <1>1, <1>2, ListKept, FifoKept DEF LivePart
  <1>4. LiveLoader'
    BY <1>1, <1>2, <1>3
       DEF OpenGone, LivePart, LiveLoader, Due, OnSegment, mgt, flags, loader, player,
       TInv, TypeOK, Aside
  <1>5. LiveTold'
    BY <1>1, <1>2 DEF OpenGone, LivePart, LiveTold, server, mgt, flags, player
  <1> QED BY <1>1, <1>2, <1>3, <1>4, <1>5 DEF LivePart

LEMMA OpenFailsLive ==
  ASSUME LiveInv, OpenFails
  PROVE  LivePart'
  <1>1. LivePart /\ TInv
    BY DEF LiveInv
  <1>2. UNCHANGED <<server, mgt, fifo, at, reset, raced>>
    BY DEF OpenFails, flags, player, server, mgt
  <1>3. LiveList' /\ Upward' /\ Edge' = Edge
    BY <1>1, <1>2, ListKept, FifoKept DEF LivePart
  <1>4. LiveLoader'
    BY <1>1, <1>2, <1>3
       DEF OpenFails, LivePart, LiveLoader, Due, OnSegment, mgt, flags, loader, player,
       TInv, TypeOK, Aside
  <1>5. LiveTold'
    BY <1>1, <1>2 DEF OpenFails, LivePart, LiveTold, server, mgt, flags, player
  <1> QED BY <1>1, <1>2, <1>3, <1>4, <1>5 DEF LivePart

LEMMA LeaveLive ==
  ASSUME LiveInv, Leave
  PROVE  LivePart'
  <1>1. LivePart /\ TInv
    BY DEF LiveInv
  <1>2. UNCHANGED <<server, mgt, fifo, at, reset, raced>>
    BY DEF Leave, flags, player, server, mgt, Leaves
  <1>3. LiveList' /\ Upward' /\ Edge' = Edge
    BY <1>1, <1>2, ListKept, FifoKept DEF LivePart
  <1>4. LiveLoader'
    BY <1>1, <1>2, <1>3 DEF Leave, LivePart, LiveLoader, OnSegment, mgt, loader
  <1>5. LiveTold'
    BY <1>1, <1>2 DEF Leave, LivePart, LiveTold, server, mgt, flags, player, Leaves
  <1> QED BY <1>1, <1>2, <1>3, <1>4, <1>5 DEF LivePart

LEMMA FetchEndsLive ==
  ASSUME LiveInv, FetchEnds
  PROVE  LivePart'
  <1>1. LivePart /\ TInv
    BY DEF LiveInv
  <1>2. UNCHANGED <<server, mgt, fifo, at, reset, raced>>
    BY DEF FetchEnds, flags, player, server, mgt
  <1>3. LiveList' /\ Upward' /\ Edge' = Edge
    BY <1>1, <1>2, ListKept, FifoKept DEF LivePart
  <1>4. LiveLoader'
    BY <1>1, <1>2, <1>3
       DEF FetchEnds, LivePart, LiveLoader, Due, OnSegment, mgt, flags, loader, player,
       TInv, TypeOK, Aside
  <1>5. LiveTold'
    BY <1>1, <1>2 DEF FetchEnds, LivePart, LiveTold, server, mgt, flags, player
  <1> QED BY <1>1, <1>2, <1>3, <1>4, <1>5 DEF LivePart

LEMMA PutRestLive ==
  ASSUME LiveInv, PutRest
  PROVE  LivePart'
  <1>1. LivePart /\ TInv
    BY DEF LiveInv
  <1>2. UNCHANGED <<server, mgt, fifo, at, reset, raced>>
    BY DEF PutRest, flags, player, server, mgt
  <1>3. LiveList' /\ Upward' /\ Edge' = Edge
    BY <1>1, <1>2, ListKept, FifoKept DEF LivePart
  <1>4. LiveLoader'
    BY <1>1, <1>2, <1>3
       DEF PutRest, LivePart, LiveLoader, Due, OnSegment, mgt, flags, loader, player,
       TInv, TypeOK, Aside
  <1>5. LiveTold'
    BY <1>1, <1>2 DEF PutRest, LivePart, LiveTold, server, mgt, flags, player
  <1> QED BY <1>1, <1>2, <1>3, <1>4, <1>5 DEF LivePart

LEMMA SwitchStoppedLive ==
  ASSUME LiveInv, SwitchStopped
  PROVE  LivePart'
  <1>1. LivePart /\ TInv
    BY DEF LiveInv
  <1>2. UNCHANGED <<server, mgt, fifo, at, reset, raced>>
    BY DEF SwitchStopped, flags, player, server, mgt
  <1>3. LiveList' /\ Upward' /\ Edge' = Edge
    BY <1>1, <1>2, ListKept, FifoKept DEF LivePart
  <1>4. LiveLoader'
    BY <1>1, <1>2, <1>3
       DEF SwitchStopped, LivePart, LiveLoader, Due, OnSegment, mgt, flags, loader,
           player,
       TInv, TypeOK, Aside
  <1>5. LiveTold'
    BY <1>1, <1>2 DEF SwitchStopped, LivePart, LiveTold, server, mgt, flags, player
  <1> QED BY <1>1, <1>2, <1>3, <1>4, <1>5 DEF LivePart

LEMMA InterruptLive ==
  ASSUME LiveInv, Interrupt
  PROVE  LivePart'
  <1>1. LivePart /\ TInv
    BY DEF LiveInv
  <1>2. UNCHANGED <<server, mgt, fifo, at, reset, raced>>
    BY DEF Interrupt, flags, player, server, mgt
  <1>3. LiveList' /\ Upward' /\ Edge' = Edge
    BY <1>1, <1>2, ListKept, FifoKept DEF LivePart
  <1>4. LiveLoader'
    BY <1>1, <1>2, <1>3
       DEF Interrupt, LivePart, LiveLoader, Due, OnSegment, mgt, flags, loader, player,
       TInv, TypeOK, Aside
  <1>5. LiveTold'
    BY <1>1, <1>2 DEF Interrupt, LivePart, LiveTold, server, mgt, flags, player
  <1> QED BY <1>1, <1>2, <1>3, <1>4, <1>5 DEF LivePart

LEMMA ReadEndLive ==
  ASSUME LiveInv, ReadEnd
  PROVE  LivePart'
  <1>1. LivePart /\ TInv
    BY DEF LiveInv
  <1>2. UNCHANGED <<server, mgt, fifo, at, reset, raced>>
    BY DEF ReadEnd, flags, player, server, mgt
  <1>3. LiveList' /\ Upward' /\ Edge' = Edge
    BY <1>1, <1>2, ListKept, FifoKept DEF LivePart
  <1>4. LiveLoader'
    BY <1>1, <1>2, <1>3
       DEF ReadEnd, LivePart, LiveLoader, Due, OnSegment, mgt, flags, loader, player,
       TInv, TypeOK, Aside
  <1>5. LiveTold'
    BY <1>1, <1>2 DEF ReadEnd, LivePart, LiveTold, server, mgt, flags, player
  <1> QED BY <1>1, <1>2, <1>3, <1>4, <1>5 DEF LivePart

LEMMA CloseLive ==
  ASSUME LiveInv, Close
  PROVE  LivePart'
  <1>1. LivePart /\ TInv
    BY DEF LiveInv
  <1>2. UNCHANGED <<server, mgt, fifo, at, reset, raced>>
    BY DEF Close, flags, player, server, mgt
  <1>3. LiveList' /\ Upward' /\ Edge' = Edge
    BY <1>1, <1>2, ListKept, FifoKept DEF LivePart
  <1>4. LiveLoader'
    BY <1>1, <1>2, <1>3
       DEF Close, LivePart, LiveLoader, Due, OnSegment, mgt, flags, loader, player,
       TInv, TypeOK, Aside
  <1>5. LiveTold'
    BY <1>1, <1>2 DEF Close, LivePart, LiveTold, server, mgt, flags, player
  <1> QED BY <1>1, <1>2, <1>3, <1>4, <1>5 DEF LivePart

LEMMA JoinedLive ==
  ASSUME LiveInv, Joined
  PROVE  LivePart'
  <1>1. LivePart /\ TInv
    BY DEF LiveInv
  <1>2. UNCHANGED <<server, mgt, fifo, at, reset, raced>>
    BY DEF Joined, flags, player, server, mgt
  <1>3. LiveList' /\ Upward' /\ Edge' = Edge
    BY <1>1, <1>2, ListKept, FifoKept DEF LivePart
  <1>4. LiveLoader'
    BY <1>1, <1>2, <1>3
       DEF Joined, LivePart, LiveLoader, Due, OnSegment, mgt, flags, loader, player,
       TInv, TypeOK, Aside
  <1>5. LiveTold'
    BY <1>1, <1>2 DEF Joined, LivePart, LiveTold, server, mgt, flags, player
  <1> QED BY <1>1, <1>2, <1>3, <1>4, <1>5 DEF LivePart

LEMMA ClosedLive ==
  ASSUME LiveInv, Closed
  PROVE  LivePart'
  <1>1. LivePart /\ TInv
    BY DEF LiveInv
  <1>2. UNCHANGED <<server, mgt, fifo, at, reset, raced>>
    BY DEF Closed, flags, player, server, mgt, vars
  <1>3. LiveList' /\ Upward' /\ Edge' = Edge
    BY <1>1, <1>2, ListKept, FifoKept DEF LivePart
  <1>4. LiveLoader'
    BY <1>1, <1>2, <1>3 DEF Closed, LivePart, LiveLoader, Due, OnSegment, mgt,
         loader, vars
  <1>5. LiveTold'
    BY <1>1, <1>2 DEF Closed, LivePart, LiveTold, server, mgt, flags, player, vars
  <1> QED BY <1>1, <1>2, <1>3, <1>4, <1>5 DEF LivePart

(* What follows the segment that has been fetched is not behind the fifo. *)
LEMMA NextDue ==
  ASSUME LiveInv, pc = "switch", cur < Len(list)
  PROVE  Due(cur + 1)
  <1>1. /\ list \in Seq(Cell) /\ Len(list) \in Nat /\ cur \in 1..Len(list)
        /\ cur + 1 \in 1..Len(list) /\ seg = list[cur].seg
        /\ Edge <= Pos(seg + 1, 1)
    <2>1. list \in Seq(Cell) /\ Len(list) \in Nat /\ cur \in 0..Len(list)
      BY LenProperties DEF LiveInv, TInv, TypeOK, Cell
    <2>2. cur # 0 /\ seg = list[cur].seg /\ Edge <= Pos(seg + 1, 1)
      BY DEF LiveInv, LivePart, LiveLoader
    <2> QED BY <2>1, <2>2
  <1>2. list[cur].seg \in 0..Segs /\ list[cur + 1].seg \in 0..Segs
    <2>1. list[cur] \in Cell /\ list[cur + 1] \in Cell
      BY <1>1, ElementOfSeq
    <2> QED BY <2>1 DEF Cell
  <1>3. list[cur + 1].seg = End \/ list[cur].seg < list[cur + 1].seg
    <2>1. \A i, j \in cur..Len(list) :
            i < j => list[j].seg = End \/ list[i].seg < list[j].seg
      BY <1>1 DEF LiveInv, LivePart, LiveList
    <2>2. cur \in cur..Len(list) /\ cur + 1 \in cur..Len(list) /\ cur < cur + 1
      BY <1>1
    <2> QED BY <2>1, <2>2
  <1>4. ASSUME list[cur].seg < list[cur + 1].seg
        PROVE  Edge <= Pos(list[cur + 1].seg, 1)
    <2>1. Pos(seg + 1, 1) <= Pos(list[cur + 1].seg, 1)
      BY <1>1, <1>2, <1>4, PosLater, SizesOK
    <2>2. Pos(seg + 1, 1) \in Int /\ Pos(list[cur + 1].seg, 1) \in Int
      <3>1. seg + 1 \in Int /\ list[cur + 1].seg \in Int
        BY <1>1, <1>2, SizesOK
      <3>2. \A s \in Int : Pos(s, 1) \in Int
        BY PosInt
      <3> QED BY <3>1, <3>2
    <2>3. Edge \in Int
      BY EdgeInt DEF LiveInv, TInv
    <2> QED BY <1>1, <2>1, <2>2, <2>3
  <1> QED BY <1>3, <1>4 DEF Due

LEMMA SwitchNextLive ==
  ASSUME LiveInv, SwitchNext
  PROVE  LivePart'
  <1>1. LivePart /\ TInv /\ pc = "switch"
    BY DEF LiveInv, SwitchNext
  <1>2. UNCHANGED <<server, mgt, fifo, at, reset, raced>>
    BY DEF SwitchNext, flags, player, server, mgt
  <1>3. LiveList' /\ Upward' /\ Edge' = Edge
    BY <1>1, <1>2, ListKept, FifoKept DEF LivePart
  <1>4. cur # 0 /\ cur < Len(list)
    <2>1. Len(list) \in Nat /\ cur \in 0..Len(list)
      BY <1>1, LenProperties DEF TInv, TypeOK
    <2> QED BY <2>1 DEF SwitchNext, AtLast
  <1>5. Due(cur + 1)
    BY <1>1, <1>4, NextDue
  <1>6. Due(cur + 1)'
    BY <1>2, <1>5 DEF Due, Edge, mgt
  <1>7. /\ pc' = "switched" /\ nxt' \in {0, cur + 1} /\ cur' = cur
        /\ off' = off /\ pend' = pend
    BY DEF SwitchNext, Returns, mgt
  <1>8. LiveLoader'
    <2>1. nxt' # 0 => Due(nxt)'
      BY <1>6, <1>7 DEF Due, Edge
    <2>2. off' = 0 /\ pend' = 0
      BY <1>1, <1>7 DEF LivePart, LiveLoader
    <2> QED BY <1>4, <1>7, <2>1, <2>2 DEF LiveLoader, OnSegment
  <1>9. LiveTold'
    BY <1>1, <1>2 DEF SwitchNext, LivePart, LiveTold, server, flags, player
  <1> QED BY <1>1, <1>2, <1>3, <1>8, <1>9 DEF LivePart

LEMMA SwitchedLive ==
  ASSUME LiveInv, Switched
  PROVE  LivePart'
  <1>1. LivePart /\ TInv /\ pc = "switched"
    BY DEF LiveInv, Switched
  <1>2. /\ UNCHANGED <<server, list, nextSeq, ended, fifo, at, reset, raced>>
        /\ cur' = nxt
    BY DEF Switched, flags, player
  <1>3. nxt # 0 => cur # 0 /\ nxt = cur + 1 /\ Due(nxt)
    BY <1>1 DEF LivePart, LiveLoader
  <1>4. LiveList'
    <2>1. LiveList /\ cur \in Nat /\ Len(list) \in Nat
      BY <1>1, LenProperties DEF LivePart, TInv, TypeOK
    <2>2. nxt # 0 => nxt..Len(list) \subseteq cur..Len(list)
      BY <1>3, <2>1
    <2> QED BY <1>2, <1>3, <2>1, <2>2 DEF LiveList, server
  <1>5. Upward' /\ Edge' = Edge
    BY <1>1, <1>2, FifoKept DEF LivePart
  <1>6. pc' = "top" /\ nxt' = 0 /\ off' = off /\ pend' = pend
    BY DEF Switched
  <1>7. LiveLoader'
    <2>1. cur' # 0 => Due(cur)'
      BY <1>2, <1>3, <1>5 DEF Due
    <2>2. off' = 0 /\ pend' = 0
      BY <1>1, <1>6 DEF LivePart, LiveLoader
    <2> QED BY <1>6, <2>1, <2>2 DEF LiveLoader, OnSegment
  <1>8. LiveTold'
    BY <1>1, <1>2 DEF Switched, LivePart, LiveTold, server, flags, player
  <1> QED BY <1>1, <1>2, <1>4, <1>5, <1>7, <1>8 DEF LivePart

LEMMA BeginLive ==
  ASSUME LiveInv, Begin
  PROVE  LivePart'
  <1>1. LivePart /\ TInv /\ pc = "got"
    BY DEF LiveInv, Begin
  <1>2. UNCHANGED <<server, mgt, fifo, at, reset, raced>>
    BY DEF Begin, flags, player, server, mgt
  <1>3. LiveList' /\ Upward' /\ Edge' = Edge
    BY <1>1, <1>2, ListKept, FifoKept DEF LivePart
  <1>4. /\ cur # 0 /\ seg = list[cur].seg /\ Due(cur) /\ off = 0 /\ pend = 0
        /\ cur \in 1..Len(list)
    <2>1. Len(list) \in Nat /\ cur \in 0..Len(list)
      BY <1>1, LenProperties DEF TInv, TypeOK
    <2> QED BY <1>1, <2>1 DEF LivePart, LiveLoader
  <1>5. UNCHANGED <<list, cur, seg, off, pend, eof, exited>>
    BY DEF Begin, mgt, loader, player
  <1>6. LiveLoader'
    <2>1. CASE seg = End
      <3>1. pc' = "top" /\ Due(cur)'
        BY <1>3, <1>4, <1>5, <2>1 DEF Begin, Due
      <3> QED BY <1>4, <1>5, <3>1 DEF LiveLoader, OnSegment
    <2>2. CASE seg # End
      <3>1. pc' = "open" /\ Edge' <= Pos(seg, 1)
        BY <1>3, <1>4, <2>2 DEF Begin, Due
      <3>2. off' - pend' + 1 = 1
        BY <1>4, <1>5
      <3> QED BY <1>4, <1>5, <3>1, <3>2 DEF LiveLoader, OnSegment
    <2> QED BY <2>1, <2>2
  <1>7. LiveTold'
    <2>1. seg = End => over
      BY <1>1, <1>4 DEF LivePart, LiveList
    <2>2. finish' => seg = End
      BY DEF Begin
    <2>3. over' = over
      BY <1>2 DEF server
    <2> QED BY <1>1, <1>5, <2>1, <2>2, <2>3 DEF LivePart, LiveTold
  <1> QED BY <1>1, <1>2, <1>3, <1>6, <1>7 DEF LivePart

LEMMA FetchLive ==
  ASSUME LiveInv, Fetch
  PROVE  LivePart'
  <1>1. LivePart /\ TInv /\ pc = "read"
    BY DEF LiveInv, Fetch
  <1>2. UNCHANGED <<server, mgt, fifo, at, reset, raced>>
    BY DEF Fetch, flags, player, server, mgt
  <1>3. LiveList' /\ Upward' /\ Edge' = Edge
    BY <1>1, <1>2, ListKept, FifoKept DEF LivePart
  <1>4. PICK n \in 1..Least(Piece, Units - off) : off' = off + n /\ pend' = n
    BY DEF Fetch
  <1>5. n \in Int /\ off \in Int /\ pend = 0
    BY <1>1, <1>4, SizesOK DEF Fetch, TInv, TypeOK
  <1>6. off' - pend' + 1 = off - pend + 1
    BY <1>4, <1>5
  <1>7. UNCHANGED <<list, cur, seg, eof, exited, finish>> /\ pc' = "put"
    BY DEF Fetch, mgt, flags, player
  <1>8. LiveLoader'
    BY <1>1, <1>3, <1>6, <1>7 DEF LivePart, LiveLoader, OnSegment
  <1>9. LiveTold'
    BY <1>1, <1>2, <1>7 DEF LivePart, LiveTold, server
  <1> QED BY <1>1, <1>2, <1>3, <1>8, <1>9 DEF LivePart

LEMMA SkipLive ==
  ASSUME LiveInv, Skip
  PROVE  LivePart'
  <1>1. LivePart /\ TInv /\ pc = "skip" /\ live
    BY DEF LiveInv, Skip
  <1>2. UNCHANGED <<server, mgt, fifo, at>>
    BY DEF Skip, flags, player, server, mgt
  <1>3. LiveList' /\ Upward' /\ Edge' = Edge
    BY <1>1, <1>2, ListKept, FifoKept DEF LivePart
  <1>4. /\ cur # 0 /\ seg = list[cur].seg /\ seg # End
        /\ Edge <= Pos(seg, off - pend + 1) /\ seg \in 0..Segs
        /\ off \in 0..Units /\ pend \in 0..off
    BY <1>1 DEF LivePart, LiveLoader, OnSegment, TInv, TypeOK, Aside
  <1>5. Edge \in Int
    BY <1>1, EdgeInt DEF TInv
  <1>6. Edge <= Pos(seg + 1, 1)
    <2>1. off - pend + 1 \in Int /\ off - pend + 1 <= Units + 1 /\ seg \in Int
      BY <1>4, SizesOK
    <2>2. Pos(seg, off - pend + 1) = Pos(seg, 1) + (off - pend + 1) - 1
      BY <2>1, PosNext
    <2>3. Pos(seg, 1) + Units = Pos(seg + 1, 1) /\ Pos(seg, 1) \in Int
      <3>1. \A s \in Int : Pos(s, 1) + Units = Pos(s + 1, 1) /\ Pos(s, 1) \in Int
        BY PosInt, PosNext
      <3> QED BY <2>1, <3>1
    <2> QED BY <1>4, <1>5, <2>1, <2>2, <2>3, SizesOK
  <1>7. UNCHANGED <<list, cur, seg, eof, exited, finish>>
    BY DEF Skip, mgt, flags, player
  <1>8. ~raced' /\ ~reset /\ ~reset'
    <2>1. call # "seeking" /\ ~raced /\ ~reset
      BY <1>1 DEF LivePart, TInv, Aside, Seeking
    <2>2. reset' = reset
      BY DEF Skip, flags
    <2>3. raced' = (raced \/ (~reset /\ call = "seeking"))
      BY DEF Skip
    <2> QED BY <2>1, <2>2, <2>3
  <1>9. LiveLoader'
    <2>1. pc' = "switch" /\ off' = 0 /\ pend' = 0
      BY <1>8 DEF Skip
    <2> QED BY <1>3, <1>4, <1>6, <1>7, <2>1 DEF LiveLoader, OnSegment
  <1>10. LiveTold'
    BY <1>1, <1>2, <1>7 DEF LivePart, LiveTold, server
  <1> QED BY <1>3, <1>8, <1>9, <1>10 DEF LivePart

LEMMA PublishLive ==
  ASSUME LiveInv, Publish
  PROVE  LivePart'
  <1>1. LivePart /\ pub' = pub + 1 /\ ~over
    <2>1. pub # Segs
      BY SizesOK DEF Publish, LiveInv, TInv, TypeOK
    <2> QED BY <2>1 DEF LiveInv, LivePart, LiveList, Publish
  <1>2. UNCHANGED <<over, mgt, fifo, flags, pc, loader, player, raced>>
    BY DEF Publish
  <1>3. LiveList'
    <2>1. list \in Seq(Cell) /\ pub \in Int
      BY SizesOK DEF LiveInv, TInv, TypeOK, Cell
    <2>2. \A i \in 1..Len(list) : list[i].seg \in Int
      <3>1. \A i \in 1..Len(list) : list[i] \in Cell
        BY <2>1, ElementOfSeq
      <3> QED BY <3>1, SizesOK DEF Cell
    <2>3. \A i \in 1..Len(list) : list[i].seg <= pub'
      BY <1>1, <2>1, <2>2 DEF LivePart, LiveList
    <2>4. UNCHANGED <<list, cur, ended, over>>
      BY <1>2 DEF mgt
    <2> QED BY <1>1, <2>3, <2>4 DEF LivePart, LiveList
  <1>4. Upward' /\ Edge' = Edge
    <2>1. UNCHANGED <<fifo, at>>
      BY <1>2 DEF player
    <2> QED BY <1>1, <2>1, FifoKept DEF LivePart
  <1>5. LiveLoader'
    BY <1>1, <1>2, <1>4 DEF LivePart, LiveLoader, OnSegment, Due, mgt, loader
  <1>6. LiveTold' /\ ~raced' /\ ~reset'
    BY <1>1, <1>2 DEF LivePart, LiveTold, flags, player
  <1> QED BY <1>3, <1>4, <1>5, <1>6 DEF LivePart

LEMMA FinishLive ==
  ASSUME LiveInv, Finish
  PROVE  LivePart'
  <1>1. LivePart /\ pub = Segs /\ over'
    BY DEF Finish, LiveInv
  <1>2. UNCHANGED <<live, pub, mgt, fifo, flags, pc, loader, player, raced>>
    BY DEF Finish
  <1>3. LiveList'
    <2>1. UNCHANGED <<pub, list, cur, ended>>
      BY <1>2 DEF mgt
    <2> QED BY <1>1, <2>1 DEF LivePart, LiveList
  <1>4. Upward' /\ Edge' = Edge
    <2>1. UNCHANGED <<fifo, at>>
      BY <1>2 DEF player
    <2> QED BY <1>1, <2>1, FifoKept DEF LivePart
  <1>5. LiveLoader'
    BY <1>1, <1>2, <1>4 DEF LivePart, LiveLoader, OnSegment, Due, mgt, loader
  <1>6. LiveTold' /\ ~raced' /\ ~reset'
    BY <1>1, <1>2 DEF LivePart, LiveTold, flags
  <1> QED BY <1>3, <1>4, <1>5, <1>6 DEF LivePart

LEMMA ReadLive ==
  ASSUME LiveInv, Read
  PROVE  LivePart'
  <1>1. LivePart
    BY DEF LiveInv
  <1>2. PICK n \in 1..Len(fifo) :
          at' = fifo[n] + 1 /\ fifo' = SubSeq(fifo, n + 1, Len(fifo))
    BY DEF Read
  <1>3. /\ fifo \in Seq(Nat) /\ Len(fifo) \in Nat /\ n \in Nat
        /\ \A i \in 1..Len(fifo) : fifo[i] \in Nat
    <2>1. fifo \in Seq(Nat)
      BY DEF LiveInv, TInv, TypeOK
    <2> QED BY <1>2, <2>1, LenProperties, ElementOfSeq
  <1>4. /\ Len(fifo') = Len(fifo) - n
        /\ \A i \in 1..Len(fifo) - n : fifo'[i] = fifo[n + i]
    <2>1. n \in 0..Len(fifo)
      BY <1>3
    <2> QED BY <1>2, <1>3, <2>1, TailFrom
  <1>5. \A i \in 1..Len(fifo) : i # 1 => fifo[i] >= fifo[i - 1] + 1
    BY <1>1 DEF LivePart, Upward
  <1>6. Upward'
    <2> SUFFICES ASSUME NEW i \in 1..Len(fifo')
                 PROVE  fifo'[i] >= IF i = 1 THEN at' ELSE fifo'[i - 1] + 1
      BY DEF Upward
    <2>1. i \in 1..Len(fifo) - n /\ n + i \in 1..Len(fifo) /\ n + i # 1
      BY <1>2, <1>3, <1>4
    <2>2. fifo[n + i] >= fifo[n + i - 1] + 1 /\ fifo'[i] = fifo[n + i]
      BY <1>4, <1>5, <2>1
    <2>3. CASE i = 1
      BY <1>2, <1>3, <2>2, <2>3
    <2>4. CASE i # 1
      <3>1. i - 1 \in 1..Len(fifo) - n /\ n + (i - 1) = n + i - 1
        BY <1>3, <2>1, <2>4
      <3>2. fifo'[i - 1] = fifo[n + i - 1]
        BY <1>4, <3>1
      <3> QED BY <2>2, <2>4, <3>2
    <2> QED BY <2>3, <2>4
  <1>7. Edge' = Edge
    <2>1. Edge = fifo[Len(fifo)] + 1
      BY <1>2, <1>3 DEF Edge
    <2>2. CASE n = Len(fifo)
      BY <1>2, <1>3, <1>4, <2>1, <2>2 DEF Edge
    <2>3. CASE n # Len(fifo)
      <3>1. Len(fifo) - n \in 1..Len(fifo) - n /\ n + (Len(fifo) - n) = Len(fifo)
        BY <1>2, <1>3, <2>3
      <3>2. Len(fifo') # 0
        BY <1>4, <3>1
      <3>3. fifo'[Len(fifo) - n] = fifo[n + (Len(fifo) - n)]
        BY <1>4, <3>1
      <3>4. fifo'[Len(fifo')] = fifo[Len(fifo)]
        BY <1>4, <3>1, <3>3
      <3> QED BY <2>1, <3>2, <3>4 DEF Edge
    <2> QED BY <2>2, <2>3
  <1>8. UNCHANGED <<server, mgt, flags, pc, loader, raced>> /\ ~eof'
    BY DEF Read
  <1>9. LiveList'
    BY <1>1, <1>8, ListKept DEF LivePart
  <1>10. LiveLoader'
    BY <1>1, <1>7, <1>8 DEF LivePart, LiveLoader, OnSegment, Due, mgt, loader
  <1>11. LiveTold' /\ ~raced' /\ ~reset'
    BY <1>1, <1>8 DEF LivePart, LiveTold, flags, server
  <1> QED BY <1>6, <1>9, <1>10, <1>11 DEF LivePart

LEMMA PutLive ==
  ASSUME LiveInv, Put
  PROVE  LivePart'
  <1>1. LivePart /\ pc = "put"
    BY DEF LiveInv, Put
  <1>2. PICK n : n = Least(Space, pend)
    OBVIOUS
  <1>3. /\ fifo' = fifo \o [i \in 1..n |-> Pos(seg, off - pend + i)]
        /\ pend' = pend - n /\ pc' = "read"
        /\ UNCHANGED <<server, mgt, flags, seg, off, player, raced>>
    BY <1>2 DEF Put
  <1>4. /\ fifo \in Seq(Nat) /\ Len(fifo) \in Nat /\ at \in Nat
        /\ seg \in Int /\ off \in Int /\ pend \in Int /\ n \in Nat
        /\ \A i \in 1..Len(fifo) : fifo[i] \in Nat
    <2>1. /\ fifo \in Seq(Nat) /\ at \in Nat /\ Len(fifo) <= FifoSize
          /\ seg \in 0..Segs /\ off \in 0..Units /\ pend \in 0..off
      BY DEF LiveInv, TInv, TypeOK
    <2>2. Len(fifo) \in Nat /\ \A i \in 1..Len(fifo) : fifo[i] \in Nat
      BY <2>1, LenProperties, ElementOfSeq
    <2>3. n \in Nat
      BY <1>2, <2>1, <2>2, SizesOK DEF Least, Space
    <2> QED BY <2>1, <2>2, <2>3, SizesOK
  <1> DEFINE d == off - pend
             p(i) == Pos(seg, d + i)
             h == [i \in 1..n |-> p(i)]
  <1>5. \A i \in Int : p(i) \in Int /\ p(i + 1) = p(i) + 1
    <2> TAKE i \in Int
    <2>1. d + i \in Int /\ d + (i + 1) = (d + i) + 1
      BY <1>4
    <2>2. Pos(seg, d + i) \in Int
      BY <1>4, <2>1, PosInt
    <2>3. Pos(seg, (d + i) + 1) = Pos(seg, d + i) + 1
      BY <1>4, <2>1, PosNext
    <2> QED BY <2>1, <2>2, <2>3
  <1>6. h \in Seq(Int) /\ Len(h) = n /\ \A i \in 1..n : h[i] = p(i)
    <2> HIDE DEF p
    <2>1. \A i \in 1..n : p(i) \in Int
      BY <1>4, <1>5
    <2> QED BY <1>4, <2>1
  <1>7. fifo \in Seq(Int) /\ fifo' = fifo \o h
    BY <1>3, <1>4
  <1>8. Edge <= p(1)
    BY <1>1 DEF LivePart, LiveLoader, OnSegment
  <1>9. d' = d + n
    BY <1>3, <1>4
  <1> HIDE DEF d, p, h
  <1>10. /\ Len(fifo') = Len(fifo) + n
         /\ \A i \in 1..Len(fifo) + n :
              fifo'[i] = IF i <= Len(fifo) THEN fifo[i] ELSE h[i - Len(fifo)]
    BY <1>6, <1>7, ConcatProperties
  <1>11. ASSUME NEW i \in 1..n
         PROVE  fifo'[Len(fifo) + i] = p(i)
    <2>1. /\ Len(fifo) + i \in 1..Len(fifo) + n /\ ~(Len(fifo) + i <= Len(fifo))
          /\ Len(fifo) + i - Len(fifo) = i
      BY <1>4
    <2> QED BY <1>6, <1>10, <2>1
  <1>12. \A i \in 1..Len(fifo) : fifo'[i] = fifo[i]
    BY <1>4, <1>10
  <1>13. at' = at
    BY <1>3 DEF player
  <1>14. Upward'
    <2> SUFFICES ASSUME NEW i \in 1..Len(fifo')
                 PROVE  fifo'[i] >= IF i = 1 THEN at' ELSE fifo'[i - 1] + 1
      BY DEF Upward
    <2>1. CASE i <= Len(fifo)
      <3>1. fifo[i] >= IF i = 1 THEN at ELSE fifo[i - 1] + 1
        BY <1>1, <1>4, <2>1 DEF LivePart, Upward
      <3>2. i # 1 => fifo'[i - 1] = fifo[i - 1]
        BY <1>4, <1>10, <1>12, <2>1
      <3>3. fifo'[i] = fifo[i]
        BY <1>4, <1>10, <1>12, <2>1
      <3> QED BY <1>13, <3>1, <3>2, <3>3
    <2>2. CASE i = Len(fifo) + 1
      <3>1. 1 \in 1..n
        BY <1>4, <1>10, <2>2
      <3>2. fifo'[i] = p(1) /\ p(1) \in Int
        <4>1. fifo'[Len(fifo) + 1] = p(1)
          BY <1>11, <3>1
        <4>2. \A j \in Int : p(j) \in Int
          BY <1>5
        <4> QED BY <2>2, <4>1, <4>2
      <3>3. Edge = IF i = 1 THEN at ELSE fifo[i - 1] + 1
        BY <1>4, <2>2 DEF Edge
      <3>4. i # 1 => fifo'[i - 1] = fifo[i - 1]
        BY <1>4, <1>10, <1>12, <2>2
      <3>5. i # 1 => fifo[i - 1] \in Nat
        BY <1>4, <2>2
      <3> QED BY <1>4, <1>8, <1>13, <3>2, <3>3, <3>4, <3>5
    <2>3. CASE i > Len(fifo) + 1
      <3> DEFINE k == i - Len(fifo)
      <3>1. k \in 1..n /\ k - 1 \in 1..n /\ i = Len(fifo) + k /\ i - 1 = Len(fifo) + (k - 1)
            /\ i # 1
        BY <1>4, <1>10, <2>3
      <3> HIDE DEF k
      <3>2. fifo'[Len(fifo) + k] = p(k) /\ fifo'[Len(fifo) + (k - 1)] = p(k - 1)
        BY <1>11, <3>1
      <3>3. p(k - 1) \in Int /\ p(k) = p(k - 1) + 1
        <4>1. k - 1 \in Int /\ k - 1 + 1 = k
          BY <1>4, <3>1
        <4> QED BY <1>5, <4>1
      <3> QED BY <3>1, <3>2, <3>3
    <2> QED BY <1>4, <1>10, <2>1, <2>2, <2>3
  <1>15. Edge' <= p(n + 1)
    <2>1. CASE n = 0
      <3>1. Len(fifo') = Len(fifo) /\ n + 1 = 1
        BY <1>4, <1>10, <2>1
      <3>2. Edge' = Edge
        BY <1>4, <1>12, <1>13, <3>1 DEF Edge
      <3> QED BY <1>8, <3>1, <3>2
    <2>2. CASE n # 0
      <3>1. n \in 1..n /\ Len(fifo') = Len(fifo) + n /\ Len(fifo') # 0 /\ n \in Int
        BY <1>4, <1>10, <2>2
      <3>2. fifo'[Len(fifo')] = p(n) /\ p(n) \in Int /\ p(n + 1) = p(n) + 1
        BY <1>5, <1>11, <3>1
      <3> QED BY <3>1, <3>2 DEF Edge
    <2> QED BY <2>1, <2>2
  <1>16. Edge' <= Pos(seg', off' - pend' + 1)
    <2>1. seg' = seg /\ off' - pend' + 1 = d + (n + 1)
      BY <1>3, <1>4 DEF d
    <2> QED BY <1>15, <2>1 DEF p
  <1>17. LiveList'
    <2>1. UNCHANGED <<server, mgt>>
      BY <1>3
    <2> QED BY <1>1, <2>1, ListKept DEF LivePart
  <1>18. LiveLoader'
    <2>1. cur # 0 /\ seg = list[cur].seg /\ UNCHANGED <<cur, list, seg>>
      BY <1>1, <1>3 DEF LivePart, LiveLoader, OnSegment, mgt
    <2> QED BY <1>3, <1>16, <2>1 DEF LiveLoader, OnSegment
  <1>19. LiveTold' /\ ~raced' /\ ~reset'
    BY <1>1, <1>3 DEF LivePart, LiveTold, flags, server, player
  <1> QED BY <1>14, <1>17, <1>18, <1>19 DEF LivePart

LEMMA TooEarlyLive ==
  ASSUME LiveInv, TooEarly
  PROVE  LivePart'
  <1>1. LivePart /\ TInv /\ pc = "switch"
    BY DEF LiveInv, TooEarly
  <1>2. UNCHANGED <<server, mgt, fifo, at, reset, raced>>
    BY DEF TooEarly, flags, player, server, mgt
  <1>3. LiveList' /\ Upward' /\ Edge' = Edge
    BY <1>1, <1>2, ListKept, FifoKept DEF LivePart
  <1>4. Len(list) \in Nat /\ cur \in 1..Len(list) /\ AtLast
    <2>1. Len(list) \in Nat /\ cur \in 0..Len(list)
      BY <1>1, LenProperties DEF TInv, TypeOK
    <2>2. cur # 0
      BY <1>1 DEF LivePart, LiveLoader
    <2> QED BY <2>1, <2>2 DEF TooEarly
  <1>5. \/ pc' = "switched" /\ nxt' = 0
        \/ pc' = "switch" /\ nxt' = nxt
    <2>1. ~(cur < Len(list))
      BY <1>4 DEF AtLast
    <2> QED BY <1>1, <2>1 DEF TooEarly, After, Returns
  <1>6. UNCHANGED <<list, cur, seg, off, pend>>
    BY DEF TooEarly, mgt
  <1>7. LiveLoader'
    BY <1>1, <1>3, <1>5, <1>6 DEF LivePart, LiveLoader, OnSegment
  <1>8. LiveTold'
    BY <1>1, <1>2 DEF TooEarly, LivePart, LiveTold, server, flags, player
  <1> QED BY <1>1, <1>2, <1>3, <1>7, <1>8 DEF LivePart

LEMMA ReloadFailsLive ==
  ASSUME LiveInv, ReloadFails
  PROVE  LivePart'
  <1>1. LivePart /\ TInv /\ pc = "switch"
    BY DEF LiveInv, ReloadFails
  <1>2. UNCHANGED <<server, list, cur, ended, fifo, at, reset, raced>>
    BY DEF ReloadFails, flags, player
  <1>3. LiveList' /\ Upward' /\ Edge' = Edge
    <2>1. LiveList'
      BY <1>1, <1>2 DEF LivePart, LiveList, server
    <2> QED BY <1>1, <1>2, <2>1, FifoKept DEF LivePart
  <1>4. Len(list) \in Nat /\ cur \in 1..Len(list) /\ AtLast
    <2>1. Len(list) \in Nat /\ cur \in 0..Len(list)
      BY <1>1, LenProperties DEF TInv, TypeOK
    <2>2. cur # 0
      BY <1>1 DEF LivePart, LiveLoader
    <2> QED BY <2>1, <2>2 DEF ReloadFails
  <1>5. \/ pc' = "switched" /\ nxt' = 0
        \/ pc' = "switch" /\ nxt' = nxt
    <2>1. ~(cur < Len(list))
      BY <1>4 DEF AtLast
    <2> QED BY <1>1, <2>1 DEF ReloadFails, After, Returns
  <1>6. UNCHANGED <<list, cur, seg, off, pend>>
    BY DEF ReloadFails
  <1>7. LiveLoader'
    BY <1>1, <1>3, <1>5, <1>6 DEF LivePart, LiveLoader, OnSegment
  <1>8. LiveTold'
    BY <1>1, <1>2 DEF ReloadFails, LivePart, LiveTold, server, flags, player
  <1> QED BY <1>1, <1>2, <1>3, <1>7, <1>8 DEF LivePart

LEMMA LineRises ==
  ASSUME pub \in Nat, NEW lo \in Nat, NEW h \in Nat, NEW k \in Nat, h < k
  PROVE  Line(lo, k) = End \/ Line(lo, h) < Line(lo, k)
  <1>1. CASE k <= pub - lo + 1
    <2>1. Line(lo, k) = lo + k - 1
      BY <1>1 DEF Line
    <2>2. h <= pub - lo + 1
      BY <1>1
    <2>3. Line(lo, h) = lo + h - 1
      BY <2>2 DEF Line
    <2> QED BY <2>1, <2>3
  <1>2. CASE ~(k <= pub - lo + 1)
    BY <1>2 DEF Line
  <1> QED BY <1>1, <1>2

(* The list that is loaded again goes on from the segment fetched last,    *)
(* which is current_item in the old items or in the new ones.              *)
LEMMA ReloadLive ==
  ASSUME LiveInv, Reload
  PROVE  LivePart'
  <1>1. LivePart /\ TInv /\ TypeOK /\ pc = "switch" /\ AtLast
    BY DEF LiveInv, TInv, Reload
  <1>2. /\ list \in Seq(Cell) /\ Len(list) \in Nat /\ cur = Len(list)
        /\ cur \in 1..Len(list) /\ seg = list[cur].seg /\ seg # End
        /\ seg \in 0..pub /\ pub \in 1..Segs /\ Edge <= Pos(seg + 1, 1)
    <2>1. /\ list \in Seq(Cell) /\ Len(list) \in Nat /\ cur \in 0..Len(list)
          /\ seg \in 0..Segs /\ pub \in 1..Segs
      BY <1>1, LenProperties DEF TypeOK, Cell
    <2>2. /\ cur # 0 /\ seg = list[cur].seg /\ seg # End
          /\ Edge <= Pos(seg + 1, 1)
      BY <1>1 DEF LivePart, LiveLoader
    <2>3. cur = Len(list) /\ cur \in 1..Len(list)
      BY <1>1, <2>1, <2>2 DEF AtLast
    <2>4. list[cur].seg <= pub
      BY <1>1, <2>3 DEF LivePart, LiveList
    <2> QED BY <2>1, <2>2, <2>3, <2>4, SizesOK
  <1>3. ~ended /\ OnFile
    BY <1>1, <1>2 DEF LivePart, LiveList, OnFile
  <1>4. PICK lo \in {Oldest, Oldest + 1}, first \in Nat, gone \in Nat, c \in Nat :
          LoadedAgain(lo, first, gone, c)
    <2>1. Numbered
      BY <1>1 DEF TInv, Aside
    <2> QED BY <1>1, <2>1, Reloaded
  <1> DEFINE all == All(lo, first)
             len == Len(list) + Shown(lo)
  <1>5. /\ Shown(lo) \in Nat /\ lo \in Nat /\ Len(all) = len /\ all \in Seq(Cell)
        /\ \A i \in 1..Len(list) : all[i] = list[i]
        /\ \A k \in 1..Shown(lo) :
             all[Len(list) + k].seg = Line(lo, k) /\ Line(lo, k) \in 0..pub
    <2>1. /\ Shown(lo) \in Nat /\ lo \in Nat /\ Len(all) = len /\ all \in Seq(Cell)
          /\ \A i \in 1..Len(list) : all[i] = list[i]
          /\ \A k \in 1..Shown(lo) : Line(lo, k) \in 0..pub
      BY <1>1, JoinedList
    <2>2. \A k \in 1..Shown(lo) :
            all[Len(list) + k] = Item(Line(lo, k), SeqOf(first, k))
      BY <1>1, JoinedList
    <2>3. \A s, q : Item(s, q).seg = s
      BY DEF Item
    <2> HIDE DEF all
    <2> QED BY <2>1, <2>2, <2>3
  <1>6. /\ c \in Nat /\ c >= 1 /\ c <= len /\ gone \in Nat /\ gone < c
        /\ cur' = c - gone /\ (ended' => gone = 0) /\ ended' = over
        /\ list' = SubSeq(all, gone + 1, len)
        /\ After(cur', len - gone, ended')
        /\ c >= Len(list)
        /\ c = cur \/ (c > Len(list) /\ all[c].seg = seg)
        /\ c = cur => \A k \in 1..Shown(lo) : Line(lo, k) # seg
    <2>1. /\ c <= len
          /\ list' = SubSeq(all, gone + 1, Len(all))
          /\ ended' = (ended \/ over)
          /\ cur' = c - gone
          /\ After(cur', Len(all) - gone, ended')
          /\ IF c = 0 THEN gone = 0 ELSE gone < c
          /\ ended' => gone = 0
          /\ \/ c = cur
             \/ OnFile /\ c > Len(list) /\ all[c].seg = list[cur].seg
          /\ OnFile /\ c = cur =>
               \A k \in 1..Shown(lo) : Line(lo, k) # list[cur].seg
      BY <1>4 DEF LoadedAgain
    <2>2. Len(all) = len
      BY <1>5
    <2> HIDE DEF all, len
    <2>3. c \in Nat /\ gone \in Nat /\ c >= Len(list) /\ c >= 1 /\ gone < c
      BY <1>2, <2>1
    <2>4. ended' = over /\ list' = SubSeq(all, gone + 1, len)
      <3>1. over \in BOOLEAN
        BY <1>1 DEF TypeOK
      <3> QED BY <1>3, <2>1, <2>2, <3>1
    <2>5. After(cur', len - gone, ended')
      BY <2>1, <2>2
    <2>6. /\ c = cur \/ (c > Len(list) /\ all[c].seg = seg)
          /\ c = cur => \A k \in 1..Shown(lo) : Line(lo, k) # seg
      BY <1>2, <1>3, <2>1
    <2> QED BY <2>1, <2>3, <2>4, <2>5, <2>6
  <1> HIDE DEF all
  <1>n. /\ Len(list) \in Nat /\ Shown(lo) \in Nat /\ lo \in Nat /\ len \in Nat
        /\ c \in Nat /\ c >= Len(list) /\ c >= 1 /\ c <= len
        /\ gone \in Nat /\ gone < c /\ pub \in Nat /\ seg \in Int /\ seg <= pub
        /\ Len(list) >= 1 /\ cur = Len(list)
    <2>1. Len(list) \in Nat /\ Shown(lo) \in Nat /\ lo \in Nat /\ len \in Nat
      BY <1>2, <1>5
    <2>2. c \in Nat /\ c >= Len(list) /\ c >= 1 /\ c <= len
      BY <1>2, <1>5, <1>6
    <2>3. gone \in Nat /\ gone < c /\ Len(list) >= 1 /\ cur = Len(list)
      BY <1>2, <1>6
    <2>4. pub \in Nat /\ seg \in Int /\ seg <= pub
      BY <1>2, SizesOK
    <2> QED BY <2>1, <2>2, <2>3, <2>4
  <1>7. all[c].seg = seg
    BY <1>2, <1>5, <1>6
  <1>8. ASSUME NEW i \in 1..len
        PROVE  i \in 1..Len(list) \/ \E k \in 1..Shown(lo) : i = Len(list) + k
    <2>1. CASE i <= Len(list)
      BY <2>1
    <2>2. CASE ~(i <= Len(list))
      <3>1. i - Len(list) \in 1..Shown(lo) /\ i = Len(list) + (i - Len(list))
        BY <1>2, <1>5, <2>2
      <3> QED BY <3>1
    <2> QED BY <2>1, <2>2
  <1>9. ASSUME NEW i \in 1..len
        PROVE  /\ all[i].seg \in 0..pub
               /\ all[i].seg = End => i = len /\ over
    <2>1. CASE i \in 1..Len(list)
      <3>1. all[i] = list[i] /\ list[i] \in Cell
        BY <1>2, <1>5, <2>1, ElementOfSeq
      <3>2. list[i].seg <= pub /\ list[i].seg # End
        BY <1>1, <1>3, <2>1 DEF LivePart, LiveList
      <3>3. list[i].seg \in 0..Segs
        BY <3>1 DEF Cell
      <3> QED BY <1>2, <3>1, <3>2, <3>3, SizesOK
    <2>2. ASSUME NEW k \in 1..Shown(lo), i = Len(list) + k
          PROVE  /\ all[i].seg \in 0..pub
                 /\ all[i].seg = End => i = len /\ over
      <3>1. all[i].seg = Line(lo, k) /\ Line(lo, k) \in 0..pub
        BY <1>5, <2>2
      <3>2. Line(lo, k) = End => k = Shown(lo) /\ over
        <4>1. lo >= 1
          BY <1>1, LinesAre DEF TypeOK
        <4> QED BY <1>2, <1>5, <4>1, SizesOK DEF Line, Shown, End
      <3> QED BY <2>2, <3>1, <3>2
    <2> QED BY <1>8, <2>1, <2>2
  <1>10. over => Shown(lo) >= 1 /\ all[len].seg = End
    <2>1. lo <= pub + 1
      <3>1. Oldest \in 1..pub
        BY <1>1, LinesAre DEF TypeOK
      <3> QED BY <1>n, <3>1
    <2>2. ASSUME over
          PROVE  Shown(lo) >= 1 /\ Line(lo, Shown(lo)) = End
      BY <1>2, <1>5, <2>1, <2>2, SizesOK DEF Line, Shown
    <2> QED BY <1>5, <2>2
  (* From the current item on the new list ascends. *)
  <1>11. ASSUME NEW i \in c..len, NEW j \in c..len, i < j
         PROVE  all[j].seg = End \/ all[i].seg < all[j].seg
    <2>1. PICK k \in 1..Shown(lo) : j = Len(list) + k
      <3>1. j - Len(list) \in 1..Shown(lo) /\ j = Len(list) + (j - Len(list))
        BY <1>n, <1>11
      <3> QED BY <3>1
    <2>2. all[j].seg = Line(lo, k)
      BY <1>5, <2>1
    <2>3. CASE i <= Len(list)
      <3>1. i = c /\ c = cur /\ all[i].seg = seg
        BY <1>2, <1>6, <1>7, <2>3
      <3>2. \A m \in 1..Shown(lo) : Line(lo, m) # seg
        BY <1>6, <3>1
      <3>3. seg < lo \/ k > pub - lo + 1
        <4> SUFFICES ASSUME seg >= lo
                     PROVE  FALSE
          BY <1>n
        <4>1. seg - lo + 1 \in 1..pub - lo + 1 /\ lo + (seg - lo + 1) - 1 = seg
          BY <1>n
        <4>2. seg - lo + 1 \in 1..Shown(lo)
          BY <1>n, <4>1 DEF Shown
        <4>3. Line(lo, seg - lo + 1) = seg
          BY <1>n, <4>1 DEF Line
        <4> QED BY <3>2, <4>2, <4>3
      <3>4. Line(lo, k) = End \/ seg < Line(lo, k)
        <4>1. k \in Nat /\ k >= 1
          BY <1>n
        <4> QED BY <1>n, <3>3, <4>1 DEF Line
      <3> QED BY <2>2, <3>1, <3>4
    <2>4. CASE ~(i <= Len(list))
      <3>1. PICK h \in 1..Shown(lo) : i = Len(list) + h
        <4>1. i - Len(list) \in 1..Shown(lo) /\ i = Len(list) + (i - Len(list))
          BY <1>n, <1>11, <2>4
        <4> QED BY <4>1
      <3>2. all[i].seg = Line(lo, h)
        BY <1>5, <3>1
      <3>3. h < k /\ h \in Nat /\ k \in Nat
        BY <1>n, <2>1, <3>1, <1>11
      <3>4. Line(lo, k) = End \/ Line(lo, h) < Line(lo, k)
        BY <1>n, <3>3, LineRises
      <3> QED BY <2>2, <3>2, <3>4
    <2> QED BY <2>3, <2>4
  <1>12. /\ Len(list') = len - gone
         /\ \A i \in 1..len - gone : list'[i] = all[gone + i]
    <2>1. gone \in 0..len
      BY <1>n
    <2> DEFINE rest == SubSeq(all, gone + 1, Len(all))
    <2>2. /\ rest \in Seq(Cell) /\ Len(rest) = Len(all) - gone
          /\ \A i \in 1..Len(all) - gone : rest[i] = all[gone + i]
      <3>1. gone \in 0..Len(all) /\ all \in Seq(Cell)
        BY <1>5, <2>1
      <3> QED BY <3>1, TailFrom
    <2> HIDE DEF rest
    <2>3. list' = rest /\ Len(all) = len
      BY <1>5, <1>6 DEF rest
    <2> QED BY <2>2, <2>3
  <1>13. cur' \in 1..len - gone /\ cur' \in Nat /\ list'[cur'] = all[c]
    <2>1. cur' \in 1..len - gone /\ gone + cur' = c /\ cur' \in Nat
      BY <1>2, <1>5, <1>6
    <2> QED BY <1>12, <2>1
  <1>14. UNCHANGED <<pub, over>>
    BY DEF Reload, server
  <1>15. LiveList'
    <2>1. over => pub = Segs
      BY <1>1 DEF LivePart, LiveList
    <2>2. ended' => over' /\ Len(list') # 0 /\ list'[Len(list')].seg = End
      <3> SUFFICES ASSUME over, gone = 0
                   PROVE  Len(list') # 0 /\ list'[Len(list')].seg = End
        BY <1>6, <1>14
      <3>1. Len(list') = len /\ len \in 1..len
        BY <1>2, <1>5, <1>10, <1>12
      <3> QED BY <1>10, <1>12, <3>1
    <2>3. ASSUME NEW i \in 1..Len(list')
          PROVE  /\ list'[i].seg <= pub
                 /\ list'[i].seg = End => i = Len(list') /\ ended'
      <3>1. gone + i \in 1..len /\ i \in 1..len - gone /\ i \in Nat
        <4>1. i \in 1..len - gone
          BY <1>12
        <4>2. i \in Nat
          BY <1>n, <4>1
        <4>3. i \in 1 - gone..len - gone
          BY <1>n, <4>1
        <4>4. gone + i \in 1..len
          BY <1>n, <4>3, Shifted
        <4> QED BY <4>1, <4>2, <4>4
      <3>2. /\ all[gone + i].seg \in 0..pub
            /\ all[gone + i].seg = End => gone + i = len /\ over
        BY <1>9, <3>1
      <3>3. list'[i] = all[gone + i]
        BY <1>12, <3>1
      <3>4. all[gone + i].seg <= pub
        BY <1>n, <3>2
      <3>5. gone + i = len => i = Len(list')
        BY <1>n, <1>12, <3>1
      <3> QED BY <1>6, <3>2, <3>3, <3>4, <3>5
    <2>4. ASSUME NEW i \in cur'..Len(list'), NEW j \in cur'..Len(list'), i < j
          PROVE  list'[j].seg = End \/ list'[i].seg < list'[j].seg
      <3>1. /\ gone + i \in c..len /\ gone + j \in c..len /\ gone + i < gone + j
            /\ i \in 1..len - gone /\ j \in 1..len - gone
        <4>1. i \in c - gone..len - gone /\ j \in c - gone..len - gone
          BY <1>6, <1>12
        <4>2. gone + i \in c..len /\ gone + j \in c..len
          BY <1>n, <4>1, Shifted
        <4>3. gone + i < gone + j
          BY <1>n, <2>4, <4>1
        <4>4. 1 <= c - gone
          BY <1>n
        <4>5. i \in 1..len - gone /\ j \in 1..len - gone
          BY <1>n, <4>1, <4>4
        <4> QED BY <4>2, <4>3, <4>5
      <3>2. list'[i] = all[gone + i] /\ list'[j] = all[gone + j]
        BY <1>12, <3>1
      <3> QED BY <1>11, <3>1, <3>2
    <2> QED BY <1>14, <2>1, <2>2, <2>3, <2>4 DEF LiveList
  <1>16. UNCHANGED <<server, fifo, seg, off, pend, at, exit, exited, finish, reset, eof, raced>>
    BY DEF Reload, flags, player
  <1>17. Upward' /\ Edge' = Edge
    BY <1>1, <1>16, FifoKept DEF LivePart
  <1>18. ASSUME cur' < len - gone
         PROVE  Due(cur + 1)'
    <2>1. /\ cur' + 1 \in 1..len - gone
          /\ c \in c..len /\ c + 1 \in c..len /\ c < c + 1
          /\ gone + (cur' + 1) = c + 1
      <3>1. cur' = c - gone
        BY <1>6
      <3> QED BY <1>n, <1>18, <3>1
    <2>2. list'[cur' + 1] = all[c + 1]
      BY <1>12, <2>1
    <2>3. all[c + 1].seg = End \/ all[c].seg < all[c + 1].seg
      BY <1>11, <2>1
    <2>4. ASSUME seg < all[c + 1].seg
          PROVE  Edge <= Pos(all[c + 1].seg, 1)
      <3>1. c + 1 \in 1..len
        BY <1>6, <2>1
      <3>2. all[c + 1].seg \in Int /\ seg + 1 \in Int /\ seg + 1 <= all[c + 1].seg
        BY <1>2, <1>9, <2>4, <3>1, SizesOK
      <3>3. Pos(seg + 1, 1) <= Pos(all[c + 1].seg, 1)
        BY <3>2, PosLater
      <3>4. Pos(seg + 1, 1) \in Int /\ Pos(all[c + 1].seg, 1) \in Int
        <4>1. \A s \in Int : Pos(s, 1) \in Int
          BY PosInt
        <4> QED BY <3>2, <4>1
      <3>5. Edge \in Int
        BY <1>1, EdgeInt
      <3> QED BY <1>2, <3>2, <3>3, <3>4, <3>5
    <2>5. list'[cur' + 1].seg = End \/ Edge' <= Pos(list'[cur' + 1].seg, 1)
      BY <1>7, <1>17, <2>2, <2>3, <2>4
    <2> QED BY <2>5 DEF Due
  <1>19. \/ /\ pc' = "switched"
            /\ nxt' # 0 => nxt' = cur' + 1 /\ Due(cur + 1)'
         \/ pc' = "switch" /\ nxt' = nxt
    BY <1>1, <1>6, <1>18 DEF After, Returns
  <1>20. LiveLoader'
    <2>1. cur' # 0 /\ seg' = list'[cur'].seg /\ off' = 0 /\ pend' = 0
      BY <1>1, <1>7, <1>13, <1>16 DEF LivePart, LiveLoader
    <2>2. CASE /\ pc' = "switched"
               /\ nxt' # 0 => nxt' = cur' + 1 /\ Due(cur + 1)'
      <3>1. nxt' # 0 => Due(nxt)'
        BY <2>2 DEF Due, Edge
      <3> QED BY <2>1, <2>2, <3>1 DEF LiveLoader, OnSegment
    <2>3. CASE pc' = "switch" /\ nxt' = nxt
      <3>1. seg' # End /\ Edge' <= Pos(seg' + 1, 1)
        BY <1>2, <1>16, <1>17
      <3> QED BY <2>1, <2>3, <3>1 DEF LiveLoader, OnSegment
    <2> QED BY <1>19, <2>2, <2>3
  <1>21. LiveTold' /\ ~raced' /\ ~reset'
    BY <1>1, <1>14, <1>16 DEF LivePart, LiveTold
  <1> QED BY <1>15, <1>17, <1>20, <1>21 DEF LivePart

LEMMA LiveInit ==
  ASSUME Init, live
  PROVE  LiveInv
  <1>1. TInv /\ TypeOK
    BY InitTyped DEF TInv
  <1>2. /\ ~over /\ ~ended /\ ~raced /\ ~reset /\ ~finish /\ ~eof
        /\ pc = "top" /\ off = 0 /\ pend = 0 /\ fifo = << >>
        /\ list = [i \in 1..Len(Lines) |->
                     Item(Lines[i], IF numbered = "none" THEN -1 ELSE i)]
        /\ at = IF cur = 0 THEN 1 ELSE Pos(list[cur].seg, 1)
    BY DEF Init
  <1>3. Oldest = 1 /\ pub \in Nat /\ pub >= 1
    BY SizesOK DEF Init, Oldest
  <1>4. /\ Lines \in Seq(Int) /\ Len(Lines) = pub
        /\ \A i \in 1..pub : Lines[i] = i
    <2>1. Lines = [k \in 1..Shown(1) |-> Line(1, k)] /\ Lines \in Seq(Int)
      BY <1>1, <1>3, LinesAre DEF TypeOK
    <2>2. Shown(1) = pub
      BY <1>2, <1>3 DEF Shown
    <2>3. \A i \in 1..pub : Line(1, i) = i
      BY <1>3 DEF Line
    <2> QED BY <1>3, <2>1, <2>2, <2>3
  <1>5. Len(list) = pub /\ \A i \in 1..pub : list[i].seg = i
    <2>1. Len(list) = pub /\ \A i \in 1..pub :
            list[i] = Item(Lines[i], IF numbered = "none" THEN -1 ELSE i)
      BY <1>2, <1>3, <1>4
    <2>2. \A s, q : Item(s, q).seg = s
      BY DEF Item
    <2> QED BY <1>4, <2>1, <2>2
  <1>6. cur \in 0..pub
    BY <1>1, <1>5 DEF TypeOK
  <1>7. Len(fifo) = 0 /\ Edge = at
    <2>1. Len(<< >>) = 0
      BY EmptySeq
    <2> QED BY <1>2, <2>1 DEF Edge
  <1>8. LiveList
    <2>1. \A i \in 1..Len(list) : list[i].seg <= pub /\ list[i].seg # End
      BY <1>3, <1>5 DEF End
    <2>2. cur # 0 => \A i, j \in cur..Len(list) :
            i < j => list[j].seg = End \/ list[i].seg < list[j].seg
      BY <1>3, <1>5, <1>6
    <2> QED BY <1>2, <2>1, <2>2 DEF LiveList
  <1>9. Upward
    BY <1>7 DEF Upward
  <1>10. LiveLoader
    <2>1. cur # 0 => Due(cur)
      <3>1. cur # 0 => at = Pos(list[cur].seg, 1) /\ at \in Nat
        BY <1>1, <1>2 DEF TypeOK
      <3> QED BY <1>7, <3>1 DEF Due
    <2> QED BY <1>2, <2>1 DEF LiveLoader, OnSegment
  <1> QED BY <1>1, <1>2, <1>8, <1>9, <1>10 DEF LiveInv, LivePart, LiveTold

(* Only a list with an end is sought in. *)
LEMMA NoSeek ==
  ASSUME LiveInv
  PROVE  ~Seek /\ ~Reset /\ ~Emptied /\ ~Placed
  <1>1. live /\ ~Seeking
    BY DEF LiveInv, TInv, Aside
  <1> QED BY <1>1 DEF Seeking, Seek, Reset, Emptied, Placed

LEMMA LiveStep ==
  ASSUME LiveInv, [Next]_vars
  PROVE  LiveInv'
  <1>1. TInv'
    BY NextTyped DEF LiveInv
  <1>2. LivePart'
    <2>1. CASE UNCHANGED vars
      BY <2>1 DEF vars, server, mgt, flags, loader, player, LiveInv, LivePart,
           LiveList, Upward, Edge, Due, LiveLoader, LiveTold, OnSegment
    <2>2. CASE OpenAgain \/ FetchAgain
      BY <2>1, <2>2 DEF OpenAgain, FetchAgain
    <2>3. CASE Download /\ ~OpenAgain /\ ~FetchAgain
      BY <2>3, TopLive, GetLive, BeginLive, OpenLive, OpenGoneLive, OpenFailsLive,
         LeaveLive, FetchLive, FetchEndsLive, PutRestLive, PutLive, SkipLive,
         SwitchNextLive, ReloadLive, TooEarlyLive, ReloadFailsLive, SwitchStoppedLive,
         SwitchedLive
      DEF Download
    <2>4. CASE Next /\ ~Download
      BY <2>4, NoSeek, PublishLive, FinishLive, InterruptLive, ReadLive, ReadEndLive,
         JoinedLive, CloseLive, ClosedLive
      DEF Next, Reads, Carry
    <2> QED BY <2>1, <2>2, <2>3, <2>4
  <1>3. live'
    <2>1. CASE UNCHANGED vars
      BY <2>1 DEF vars, server, LiveInv
    <2>2. CASE OpenAgain \/ FetchAgain
      BY <2>1, <2>2 DEF OpenAgain, FetchAgain
    <2>3. CASE Download /\ ~OpenAgain /\ ~FetchAgain
      BY <2>3 DEF LiveInv, Download, Top, Get, Begin, Open, OpenGone, OpenFails,
           Leave, Fetch, FetchEnds, PutRest, Put, Skip, SwitchNext, Reload,
           TooEarly, ReloadFails, SwitchStopped, Switched, server
    <2>4. CASE Next /\ ~Download
      BY <2>4, NoSeek DEF LiveInv, Next, Reads, Carry, Publish, Finish, Interrupt,
           Read, ReadEnd, Joined, Close, Closed, vars, server
    <2> QED BY <2>1, <2>2, <2>3, <2>4
  <1> QED BY <1>1, <1>2, <1>3 DEF LiveInv

LEMMA LiveRight ==
  ASSUME LiveInv
  PROVE  InOrder /\ OnlyEndTold
  BY DEF LiveInv, LivePart, LiveTold, Upward, InOrder, OnlyEndTold

-----------------------------------------------------------------------------
(* What either kind of list keeps. *)
Kept == VodInv \/ LiveInv

LEMMA KeptAlways == Spec => []Kept
  <1>1. ASSUME Init
        PROVE  Kept
    BY <1>1, VodInit, LiveInit DEF Kept
  <1>2. ASSUME Kept, [Next]_vars
        PROVE  Kept'
    BY <1>2, VodStep, LiveStep DEF Kept
  <1> QED BY <1>1, <1>2, PTL DEF Spec

(* InOrder: whatever the kind and the sizes of the list, of its segments   *)
(* and of the fifo, however the server goes on, however often the list is  *)
(* loaded again and shrunk, and wherever the player seeks, is stopped or   *)
(* closes: the units of a list with an end come in order, without one      *)
(* missing or twice, those of a list without one in order and none twice,  *)
(* unless a seek has fallen between two steps of the downloader of which   *)
(* the second relies on the first.                                         *)
THEOREM ListInOrder == Spec => []InOrder
  <1>1. Kept => InOrder
    BY VodRight, LiveRight DEF Kept
  <1> QED BY <1>1, KeptAlways, PTL

(* OnlyEndTold: the end is told after the last unit of a list with an end, *)
(* and of a list without one when the downloader has given up or the       *)
(* server's list has come to its end.                                      *)
THEOREM ListToldEnd == Spec => []OnlyEndTold
  <1>1. Kept => OnlyEndTold
    BY VodRight, LiveRight DEF Kept
  <1> QED BY <1>1, KeptAlways, PTL
=============================================================================
