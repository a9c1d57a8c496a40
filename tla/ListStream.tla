----------------------------- MODULE ListStream -----------------------------
(***************************************************************************)
(* Playing a list of segments (m3u8) over HTTP: libavformat/file_list2.c,  *)
(* m3u.c and CacheHttp.c of libamplayerm3.  A thread of its own, the       *)
(* downloader, fetches one segment after the other into a fifo; the player *)
(* reads from the fifo, seeks by time and closes.  A list with an end is   *)
(* loaded once (vod); a list without one (live) is loaded again whenever   *)
(* the last of its segments has been fetched, and what it shows has moved  *)
(* on by then.                                                             *)
(*                                                                         *)
(* Both threads use mgt->current_item and the flags of CacheHttpContext    *)
(* without a lock; only the fifo has one.  A step of a thread ends where   *)
(* the other one can see or change something it relies on.  Lists are      *)
(* without variants; a segment lasts one second.                           *)
(***************************************************************************)
EXTENDS Integers, Sequences

CONSTANTS
  Kinds,       \* the lists to play, of {"vod", "live"}
  Numberings,  \* when the server tells the media sequence of a list and the
               \* parser listens: "each" time, the "first" time or "none"
  Segs,        \* the segments a stream has in all
  Window,      \* the segments a live list shows at a time
  Units,       \* the units of data in a segment
  FifoSize,    \* CIRCULAR_BUFFER_SIZE in units
  Piece,       \* TMP_BUFFER_SIZE in units
  ListMax,     \* LIVE_LIST_MAX                (120)
  ListKeep,    \* SHRINK_LIVE_LIST_THRESHOLD   (40)
  MaxSeq       \* bound: the sequence number, and the length, up to which a
               \* list is loaded again although it shows nothing new

ASSUME SizesOK ==
  /\ Kinds \subseteq {"vod", "live"}
  /\ Numberings \subseteq {"each", "first", "none"}
  /\ Segs \in Nat \ {0} /\ Window \in 1..Segs
  /\ Units \in Nat \ {0} /\ FifoSize \in Nat \ {0} /\ Piece \in Nat \ {0}
  /\ ListMax \in Nat /\ ListKeep \in 0..ListMax /\ MaxSeq \in Nat

VARIABLES
  live,        \* whether the list had no end when it was opened
  numbered,    \* when the items of the list get numbers, of Numberings
  pub,         \* the newest segment the server shows
  over,        \* whether the server's list has an end
  list,        \* mgt->item_list: segment and seq of each item
  cur,         \* mgt->current_item: its place in the list, 0 for NULL
  nextSeq,     \* mgt->next_seq
  ended,       \* mgt->have_list_end
  freed,       \* whether mgt->cur_uio points to what has been freed
  fifo,        \* s->fifo: the units downloaded and not yet read
  exit,        \* s->EXIT, and mgt->listclose that is set just before
  exited,      \* s->EXITED
  reset,       \* s->RESET
  resetFlag,   \* s->reset_flag
  finish,      \* s->finish_flag
  pc,          \* where the downloader is
  seg,         \* the segment it is on
  hasEnd,      \* s->have_list_end: whether the list had an end then
  off, pend,   \* units fetched of the segment, and those not in the fifo yet
  nxt,         \* what switchto_next_item returns
  call,        \* what the player is doing
  goal,        \* item in list_seek
  stop,        \* url_interrupt_cb: the user has stopped the player
  at,          \* the position of the next unit the player expects
  eof,         \* whether the last read answered 0
  raced        \* whether a seek fell between two steps of the downloader
               \* of which the second relies on the first

server == <<live, numbered, pub, over>>
mgt    == <<list, cur, nextSeq, ended, freed>>
flags  == <<exit, exited, reset, resetFlag, finish>>
loader == <<seg, hasEnd, off, pend, nxt>>
player == <<call, goal, stop, at, eof>>
vars   == <<server, mgt, fifo, flags, pc, loader, player, raced>>

Least(a, b) == IF a <= b THEN a ELSE b

(* A unit is named by its place in the stream, from 1 on. *)
Pos(s, n) == (s - 1) * Units + n
Space == FifoSize - Len(fifo)

-----------------------------------------------------------------------------
(* The list on the server, and in memory. *)

End == 0     \* #EXT-X-ENDLIST makes an item without a file
Item(s, q) == [seg |-> s, seq |-> q]

Oldest == IF live /\ pub > Window THEN pub - Window + 1 ELSE 1
Lines == [i \in 1..pub - Oldest + 1 |-> Oldest + i - 1]
           \o IF over THEN <<End>> ELSE << >>

(* list_test_and_add_item drops what has the seq and the file of an item   *)
(* that is there.                                                          *)
Dropped(s, q) ==
  s # End /\ ~ended /\ \E i \in 1..Len(list) : list[i] = Item(s, q)

(* m3u_format_parser: the seq that each line leaves to the next; a dropped *)
(* item gives its own back.                                                *)
Numbers(lines, first) ==
  LET next[i \in 0..Len(lines)] ==
        IF i = 0 THEN first
        ELSE IF Dropped(lines[i], next[i - 1]) THEN next[i - 1]
        ELSE next[i - 1] + 1
  IN next

(* The new items, and next_seq: the item with seq q is that of the line    *)
(* that leaves q + 1.                                                      *)
Parse(lines, first) ==
  LET next == Numbers(lines, first)
      n == next[Len(lines)]
      Line(q) == CHOOSE i \in 1..Len(lines) : next[i - 1] = q /\ next[i] = q + 1
  IN [items |-> [k \in 1..n - first |->
                   Item(lines[Line(first + k - 1)], first + k - 1)],
      next |-> n]

(* Without a number to begin with an item has none, and none is dropped.   *)
Unnumbered(lines) == [items |-> [i \in 1..Len(lines) |-> Item(lines[i], -1)],
                      next |-> -1]

\* Mutant: the media sequence of the server is taken as it is.
ParsedAnew == IF numbered = "none" THEN Unnumbered(Lines)
                                   ELSE Parse(Lines, Oldest)

(* The items of a list are numbered from its media sequence; when that is  *)
(* below next_seq, its first item is dropped and the others are numbered   *)
(* from next_seq.  A list that does not tell it, or one of which           *)
(* IGNORE_SEQUENCE_FLAG says that it is not to be listened to, goes on     *)
(* from next_seq if there is one.                                          *)
Parsed == IF numbered = "none" THEN Unnumbered(Lines)
          ELSE IF numbered = "first" THEN Parse(Lines, nextSeq)
          ELSE IF Oldest >= nextSeq THEN Parse(Lines, Oldest)
          ELSE Parse(Tail(Lines), nextSeq)

(* The item after an old one for which the new ones hold the same file. *)
OnFile == cur # 0 /\ list[cur].seg # End
Again(new) == {i \in 1..Len(new) : new[i].seg = list[cur].seg}
Moved(new) == IF OnFile /\ Again(new) # {}
              THEN Len(list) + CHOOSE i \in Again(new) :
                                 \A j \in Again(new) : i <= j
              ELSE cur

(* list_shrink_live_list: how many old items go. *)
Shrunk(len, c, e) ==
  IF OnFile /\ ~e /\ len > ListMax THEN Least(len - ListKeep, c - 1) ELSE 0

(* list_open: where a live list starts, by its length and by whether its   *)
(* target duration is below, above or exactly 5 seconds.                   *)
Starts == IF Window >= 10 THEN {Window - 2}
          ELSE {IF Window \div 2 + 2 <= Window THEN Window \div 2 + 2 ELSE 0,
                Window, 1}

Init ==
  /\ \E k \in Kinds : live = (k = "live")
  /\ numbered \in Numberings
  /\ pub = IF live THEN Window ELSE Segs
  /\ over = ~live
  /\ list = [i \in 1..Len(Lines) |->
               Item(Lines[i], IF numbered = "none" THEN -1 ELSE i)]
  /\ cur \in IF live THEN Starts ELSE {1}
  /\ nextSeq = IF numbered = "none" THEN -1 ELSE Len(Lines) + 1
  /\ ended = over /\ freed = FALSE
  /\ fifo = << >>
  /\ exit = FALSE /\ exited = FALSE /\ reset = FALSE /\ resetFlag = -1
  /\ finish = FALSE
  /\ pc = "top"
  /\ seg = End /\ hasEnd = TRUE /\ off = 0 /\ pend = 0 /\ nxt = 0
  /\ call = "idle" /\ goal = 0 /\ stop = FALSE /\ eof = FALSE
  /\ at = IF cur = 0 THEN 1 ELSE Pos(list[cur].seg, 1)
  /\ raced = FALSE

-----------------------------------------------------------------------------
(* The world: the server of a live list goes on, the user stops. *)

Publish ==
  /\ live /\ pub < Segs
  /\ pub' = pub + 1
  /\ UNCHANGED <<live, numbered, over, mgt, fifo, flags, pc, loader, player,
                 raced>>

Finish ==
  /\ live /\ pub = Segs /\ ~over
  /\ over' = TRUE
  /\ UNCHANGED <<live, numbered, pub, mgt, fifo, flags, pc, loader, player,
                 raced>>

Interrupt ==
  /\ ~stop
  /\ stop' = TRUE
  /\ UNCHANGED <<server, mgt, fifo, flags, pc, loader, call, goal, at, eof,
                 raced>>

-----------------------------------------------------------------------------
(* The downloader: circular_buffer_task. *)

\* Mutant: the thread does not tell that it has left its segment.
TopSilent ==
  /\ pc = "top"
  /\ IF exit \/ stop THEN pc' = "ended" /\ exited' = TRUE
                     ELSE pc' = "get" /\ UNCHANGED exited
  /\ UNCHANGED <<server, mgt, fifo, exit, reset, resetFlag, finish, loader,
                 player, raced>>

Top ==
  /\ pc = "top"
  /\ IF exit
     THEN pc' = "ended" /\ exited' = TRUE /\ UNCHANGED resetFlag
     ELSE /\ resetFlag' = 1
          /\ IF stop THEN pc' = "ended" /\ exited' = TRUE
                     ELSE pc' = "get" /\ UNCHANGED exited
  /\ UNCHANGED <<server, mgt, fifo, exit, reset, finish, loader, player,
                 raced>>

(* getCurrentSegment; without one the thread sleeps and starts again. *)
Get ==
  /\ pc = "get"
  /\ IF cur = 0
     THEN pc' = "top" /\ UNCHANGED <<seg, hasEnd>>
     ELSE pc' = "got" /\ seg' = list[cur].seg /\ hasEnd' = ended
  /\ UNCHANGED <<server, mgt, fifo, flags, off, pend, nxt, player, raced>>

\* Mutant: the end of the list is passed over.
BeginNoEnd ==
  /\ pc = "got"
  /\ resetFlag' = 0
  /\ finish' = FALSE
  /\ pc' = IF seg = End THEN "top" ELSE "open"
  /\ UNCHANGED <<server, mgt, fifo, exit, exited, reset, loader, player,
                 raced>>

Begin ==
  /\ pc = "got"
  /\ resetFlag' = 0
  /\ finish' = (seg = End)
  /\ pc' = IF seg = End THEN "top" ELSE "open"
  /\ UNCHANGED <<server, mgt, fifo, exit, exited, reset, loader, player,
                 raced>>

Open ==
  /\ pc = "open"
  /\ pc' = "read"
  /\ off' = 0 /\ pend' = 0
  /\ UNCHANGED <<server, mgt, fifo, flags, seg, hasEnd, nxt, player, raced>>

OpenGone ==
  /\ pc = "open"
  /\ ~hasEnd
  /\ pc' = "skip"
  /\ UNCHANGED <<server, mgt, fifo, flags, loader, player, raced>>

OpenFails ==
  /\ pc = "open"
  /\ stop \/ ~hasEnd
  /\ pc' = "ended" /\ exited' = TRUE
  /\ UNCHANGED <<server, mgt, fifo, exit, reset, resetFlag, finish, loader,
                 player, raced>>

(* OPEN_RETRY: opening fails on a list with an end, or with 503, and is     *)
(* tried again at once, whatever EXIT and RESET say.                       *)
OpenAgain ==
  /\ pc = "open"
  /\ ~stop
  /\ UNCHANGED vars

\* Mutant: closing is looked at between segments only.
LeavesLater == reset \/ stop

Leaves == exit \/ reset \/ stop

Leave ==
  /\ pc = "read"
  /\ Leaves
  /\ pc' = "skip"
  /\ UNCHANGED <<server, mgt, fifo, flags, loader, player, raced>>

Fetch ==
  /\ pc = "read"
  /\ ~Leaves
  /\ pend = 0 /\ off < Units
  /\ \E n \in 1..Least(Piece, Units - off) : off' = off + n /\ pend' = n
  /\ pc' = "put"
  /\ UNCHANGED <<server, mgt, fifo, flags, seg, hasEnd, nxt, player, raced>>

(* There is no data yet, or an error on a list with an end.                *)
FetchAgain ==
  /\ pc = "read"
  /\ ~Leaves
  /\ pend = 0
  /\ UNCHANGED vars

(* The end of the segment, or an error on a list without an end; both are  *)
(* looked at only when the fifo has space.                                 *)
FetchEnds ==
  /\ pc = "read"
  /\ ~Leaves
  /\ pend = 0 /\ Space > 0
  /\ off = Units \/ ~hasEnd
  /\ pc' = "skip"
  /\ UNCHANGED <<server, mgt, fifo, flags, loader, player, raced>>

PutRest ==
  /\ pc = "read"
  /\ ~Leaves
  /\ pend > 0
  /\ pc' = "put"
  /\ UNCHANGED <<server, mgt, fifo, flags, loader, player, raced>>

\* Mutant: the space of the fifo is not looked at.
PutAll ==
  /\ pc = "put"
  /\ fifo' = fifo \o [i \in 1..pend |-> Pos(seg, off - pend + i)]
  /\ pend' = 0
  /\ pc' = "read"
  /\ UNCHANGED <<server, mgt, flags, seg, hasEnd, off, nxt, player, raced>>

(* With a full fifo the thread sleeps and looks at the flags again. *)
Put ==
  LET n == Least(Space, pend)
  IN /\ pc = "put"
     /\ fifo' = fifo \o [i \in 1..n |-> Pos(seg, off - pend + i)]
     /\ pend' = pend - n
     /\ pc' = "read"
     /\ UNCHANGED <<server, mgt, flags, seg, hasEnd, off, nxt, player, raced>>

Skip ==
  /\ pc = "skip"
  /\ pc' = IF reset THEN "top" ELSE "switch"
  /\ off' = 0 /\ pend' = 0
  /\ raced' = (raced \/ (~reset /\ call = "seeking"))
  /\ UNCHANGED <<server, mgt, fifo, flags, seg, hasEnd, nxt, player>>

-----------------------------------------------------------------------------
(* switchto_next_item, and the assignment of its result. *)

Returns(n) == nxt' = (IF exit THEN 0 ELSE n) /\ pc' = "switched"

AtLast == cur = 0 \/ cur = Len(list)

SwitchNext ==
  /\ pc = "switch"
  /\ ~AtLast
  /\ Returns(cur + 1)
  /\ UNCHANGED <<server, mgt, fifo, flags, seg, hasEnd, off, pend, player,
                 raced>>

(* What follows when the list has been tried: without an item to go on     *)
(* with, a live list is tried again later.                                 *)
After(c, len, e) ==
  IF c < len THEN Returns(c + 1)
  ELSE IF exit \/ e THEN Returns(0)
  ELSE UNCHANGED <<nxt, pc>>

Reload ==
  /\ pc = "switch"
  /\ AtLast /\ ~stop
  /\ \/ nextSeq < MaxSeq /\ Len(list) < MaxSeq
     \/ Lines[Len(Lines)] # list[Len(list)].seg
  /\ \E new \in {Parsed} :
       LET all == list \o new.items
           e == ended \/ over
           c == Moved(new.items)
           gone == Shrunk(Len(all), c, e)
       IN /\ list' = SubSeq(all, gone + 1, Len(all))
          /\ nextSeq' = new.next
          /\ ended' = e
          /\ cur' = c - gone
          /\ After(c - gone, Len(all) - gone, e)
  /\ UNCHANGED <<server, freed, fifo, flags, seg, hasEnd, off, pend, player,
                 raced>>

(* It is too early to load the list again. *)
TooEarly ==
  /\ pc = "switch"
  /\ AtLast /\ ~stop
  /\ ~ended
  /\ After(cur, Len(list), ended)
  /\ UNCHANGED <<server, mgt, fifo, flags, seg, hasEnd, off, pend, player,
                 raced>>

(* The server does not give the list, or not one that can be parsed: the   *)
(* connection is closed and freed, and mgt->cur_uio still points to it.    *)
(* What the next reload makes of that is undefined: in this model it works *)
(* or fails, or the program ends there.                                    *)
ReloadFails ==
  /\ pc = "switch"
  /\ AtLast /\ ~stop
  /\ freed' = TRUE
  /\ After(cur, Len(list), ended)
  /\ UNCHANGED <<server, list, cur, nextSeq, ended, fifo, flags, seg, hasEnd,
                 off, pend, player, raced>>

SwitchStopped ==
  /\ pc = "switch"
  /\ AtLast /\ stop
  /\ nxt' = 0 /\ pc' = "switched"
  /\ UNCHANGED <<server, mgt, fifo, flags, seg, hasEnd, off, pend, player,
                 raced>>

Switched ==
  /\ pc = "switched"
  /\ cur' = nxt
  /\ nxt' = 0
  /\ pc' = "top"
  /\ UNCHANGED <<server, list, nextSeq, ended, freed, fifo, flags, seg, hasEnd,
                 off, pend, player, raced>>

Download ==
  \/ Top \/ Get \/ Begin
  \/ Open \/ OpenGone \/ OpenFails \/ OpenAgain
  \/ Leave \/ Fetch \/ FetchAgain \/ FetchEnds \/ PutRest \/ Put \/ Skip
  \/ SwitchNext \/ Reload \/ TooEarly \/ ReloadFails \/ SwitchStopped
  \/ Switched

-----------------------------------------------------------------------------
(* The player: list_read, list_seek, list_close. *)

Read ==
  /\ call = "idle" /\ ~stop
  /\ fifo # << >>
  /\ \E n \in 1..Len(fifo) :
       /\ at' = fifo[n] + 1
       /\ fifo' = SubSeq(fifo, n + 1, Len(fifo))
  /\ eof' = FALSE
  /\ UNCHANGED <<server, mgt, flags, pc, loader, call, goal, stop, raced>>

ReadEnd ==
  /\ call = "idle" /\ ~stop
  /\ fifo = << >>
  /\ exited \/ finish
  /\ eof' = TRUE
  /\ UNCHANGED <<server, mgt, fifo, flags, pc, loader, call, goal, stop, at,
                 raced>>

(* Only a list with an end tells the player that it can seek. *)
Seek ==
  /\ call = "idle" /\ ~live
  /\ \E i \in 1..Len(list) : list[i].seg # End /\ goal' = i
  /\ cur' = 0
  /\ call' = "seeking"
  /\ eof' = FALSE
  /\ raced' = (raced \/ pc \in {"got", "switch", "switched"})
  /\ UNCHANGED <<server, list, nextSeq, ended, freed, fifo, flags, pc, loader,
                 stop, at>>

(* CacheHttp_Reset *)
Reset ==
  /\ call = "seeking"
  /\ reset' = TRUE
  /\ call' = "resetting"
  /\ UNCHANGED <<server, mgt, fifo, exit, exited, resetFlag, finish, pc,
                 loader, goal, stop, at, eof, raced>>

\* Mutant: nobody waits for the downloader to leave its segment.
EmptiedAtOnce ==
  /\ call = "resetting"
  /\ fifo' = << >>
  /\ reset' = FALSE /\ finish' = FALSE
  /\ call' = "placing"
  /\ UNCHANGED <<server, mgt, exit, exited, resetFlag, pc, loader, goal, stop,
                 at, eof, raced>>

\* Mutant: what the end of the list has set stays set.
EmptiedOnly ==
  /\ call = "resetting"
  /\ exited \/ resetFlag # 0
  /\ fifo' = << >>
  /\ reset' = FALSE
  /\ call' = "placing"
  /\ UNCHANGED <<server, mgt, exit, exited, resetFlag, finish, pc, loader,
                 goal, stop, at, eof, raced>>

Emptied ==
  /\ call = "resetting"
  /\ exited \/ resetFlag # 0
  /\ fifo' = << >>
  /\ reset' = FALSE
  /\ finish' = FALSE
  /\ call' = "placing"
  /\ UNCHANGED <<server, mgt, exit, exited, resetFlag, pc, loader, goal, stop,
                 at, eof, raced>>

Placed ==
  /\ call = "placing"
  /\ cur' = goal
  /\ at' = Pos(list[goal].seg, 1)
  /\ call' = "idle"
  /\ UNCHANGED <<server, list, nextSeq, ended, freed, fifo, flags, pc, loader,
                 goal, stop, eof, raced>>

Close ==
  /\ call = "idle"
  /\ exit' = TRUE
  /\ call' = "closing"
  /\ UNCHANGED <<server, mgt, fifo, exited, reset, resetFlag, finish, pc,
                 loader, goal, stop, at, eof, raced>>

Joined ==
  /\ call = "closing"
  /\ pc = "ended"
  /\ call' = "closed"
  /\ UNCHANGED <<server, mgt, fifo, flags, pc, loader, goal, stop, at, eof,
                 raced>>

Closed == call = "closed" /\ UNCHANGED vars

Reads == Read \/ ReadEnd
Carry == Reset \/ Emptied \/ Placed \/ Joined

Next ==
  \/ Publish \/ Finish \/ Interrupt
  \/ Download
  \/ Reads \/ Seek \/ Carry \/ Close \/ Closed

Spec == Init /\ [][Next]_vars

(* The downloader waits for an answer of the server. *)
Asks == pc = "open" \/ (pc = "read" /\ ~Leaves /\ pend = 0)

(* Both threads go on by themselves, and a live stream comes to its end.   *)
(* That the server answers is not theirs to promise: when the downloader   *)
(* asks it, it may do so for ever, unless the user stops the player.       *)
FairSpec == /\ Spec
            /\ WF_vars(Download /\ (Asks => stop))
            /\ WF_vars(Reads) /\ WF_vars(Carry)
            /\ WF_vars(Publish) /\ WF_vars(Finish)

-----------------------------------------------------------------------------
(* Pointers point into the list, the fifo is within its bound, and what    *)
(* has been fetched is of the segment.                                     *)
TypeOK ==
  /\ live \in BOOLEAN /\ numbered \in Numberings
  /\ pub \in 1..Segs /\ over \in BOOLEAN
  /\ list \in Seq([seg : 0..Segs, seq : Nat \cup {-1}])
  /\ cur \in 0..Len(list)
  /\ nextSeq \in Nat \cup {-1} /\ ended \in BOOLEAN /\ freed \in BOOLEAN
  /\ fifo \in Seq(Nat) /\ Len(fifo) <= FifoSize
  /\ exit \in BOOLEAN /\ exited \in BOOLEAN /\ reset \in BOOLEAN
  /\ resetFlag \in {-1, 0, 1} /\ finish \in BOOLEAN
  /\ pc \in {"top", "get", "got", "open", "read", "put", "skip", "switch",
             "switched", "ended"}
  /\ seg \in 0..Segs /\ hasEnd \in BOOLEAN
  /\ off \in 0..Units /\ pend \in 0..off /\ nxt \in 0..Len(list)
  /\ call \in {"idle", "seeking", "resetting", "placing", "closing", "closed"}
  /\ goal \in 0..Len(list) /\ stop \in BOOLEAN
  /\ at \in Nat /\ eof \in BOOLEAN /\ raced \in BOOLEAN

(* However the window of the server moves, the parser gives the items that *)
(* a reload adds numbers above those of all the items before: no two items *)
(* share a seq, by which items are told apart and found (m3u.c 231-251 and *)
(* 479-491, file_list2.c 153-205).  A list whose media sequence is never   *)
(* known has no numbers at all, neither before nor after a reload.         *)
SeqsRise ==
  IF numbered = "none"
  THEN nextSeq = -1 /\ \A i \in 1..Len(list) : list[i].seq = -1
  ELSE \A i \in 1..Len(list) :
         /\ list[i].seq < nextSeq
         /\ \A j \in 1..i - 1 : list[j].seq < list[i].seq

(* The player gets every unit of a list with an end, in order, from where  *)
(* it has last sought to; of a live list none twice and none out of order, *)
(* although each reload may bring items that are there already.  Unless a  *)
(* seek has fallen between two steps of the downloader.                    *)
InOrder ==
  ~raced => \A i \in 1..Len(fifo) :
              IF live THEN fifo[i] >= IF i = 1 THEN at ELSE fifo[i - 1] + 1
                      ELSE fifo[i] = at + i - 1

(* A read answers 0 at the end of the last segment of a list with an end;  *)
(* of a live list also when the downloader has given up.                   *)
OnlyEndTold ==
  eof /\ ~raced /\ ~stop =>
    IF live THEN exited \/ over ELSE at = Pos(Segs, Units) + 1

(* What the properties below assume of the world.  No reload has failed:   *)
(* the next one uses what it has freed.  The server answers at last when a *)
(* segment is opened; and, for Flows, also when it is read.                *)
Intact == []~freed
Opens  == []<>(pc # "open")
Gives  == []<>~Asks

(* Unless a segment is being opened for ever, a seek comes back: also      *)
(* while the server leaves the downloader without data in the middle of a  *)
(* segment, while it waits for space, or when it has ended.  Not when it   *)
(* has raced: then current_item may point to an item again, and            *)
(* CacheHttp_Reset, which looks at reset_flag once a millisecond, may miss *)
(* each time it is set (CacheHttp.c 180-199).                              *)
SeekReturns ==
  Intact /\ Opens => (call = "resetting" ~> (call = "idle" \/ raced))

(* A player that is left alone is told the end at last: no segment is      *)
(* waited for that never comes (CacheHttp.c 145-178, file_list2.c          *)
(* 664-763).  Except of a live list of which list_open has found no item   *)
(* to begin with.                                                          *)
Flows ==
  Intact /\ Gives =>
    []<>(eof \/ call # "idle" \/ stop \/ raced \/ (live /\ cur = 0))

(* Unless a segment is being opened for ever, closing ends the downloader, *)
(* also while the server leaves it without data (CacheHttp.c 201-218).     *)
Closes == Intact /\ Opens => (call = "closing" ~> call = "closed")

(* A live list that has items is played from one of them (the comment of   *)
(* list_open: "for live streaming ,choose the middle item").               *)
LiveStarts == live => <>(cur # 0 \/ call # "idle" \/ stop)

(* A list that is loaded again brings no item again (the comment of        *)
(* list_test_find_samefile_item: "same seq or same file name").            *)
NoTwice == \A i, j \in 1..Len(list) : list[i].seg = list[j].seg => i = j

(* A seek leads to the first unit of the segment it was made for           *)
(* (url_fseektotime: "I think it is the first,pos now").                   *)
SeekHeard ==
  ~live /\ call = "idle" =>
    \A i \in 1..Len(fifo) : fifo[i] = at + i - 1
=============================================================================
