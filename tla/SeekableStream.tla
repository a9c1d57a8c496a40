--------------------------- MODULE SeekableStream ---------------------------
(***************************************************************************)
(* What a player may expect of the byte stream it reads through the loop   *)
(* buffer: there is one current position; what a read hands out are the    *)
(* bytes of the stream from that position on, in order and without gaps,   *)
(* and the position moves by as many bytes; nothing but a seek moves it    *)
(* otherwise.  A byte is named by its position in the stream.              *)
(***************************************************************************)
EXTENDS Integers

VARIABLES
  at,    \* the position of the next byte to hand out
  out    \* the bytes the last step handed out

Init == at = 0 /\ out = << >>

Deliver == /\ at' > at
           /\ out' = [i \in 1..at' - at |-> at + i - 1]

Seek == at' \in Nat /\ out' = << >>

Next == Deliver \/ Seek

Spec == Init /\ [][Next]_<<at, out>>
=============================================================================
