--------------------------- MODULE ListTypeProofs ---------------------------
(***************************************************************************)
(* What loading a list makes of the list in memory, and the type invariant *)
(* of ListStream, for lists of either kind.                                *)
(*                                                                         *)
(* Numbers is a recursive function, the seq that each line leaves to the   *)
(* next.  The induction its value asks for is over a set of numbers, and   *)
(* so needs no induction theorem: a set of numbers has a least element     *)
(* (WFMin), hence one that has 0 and every successor is Nat.               *)
(***************************************************************************)
EXTENDS ListStream, SequenceTheorems, WellFoundedInduction, TLAPS

-----------------------------------------------------------------------------
(* Numbers, and a sequence without its first elements. *)

LessNat == OpToRel(<, Nat)

LEMMA Smaller ==
  ASSUME NEW a \in Nat, NEW b \in Nat, a < b
  PROVE  <<a, b>> \in LessNat
  BY DEF LessNat, OpToRel

(* A set of numbers that has one has a least one.                          *)
LEMMA LeastOf ==
  ASSUME NEW T \in SUBSET Nat, T # {}
  PROVE  \E m \in T : \A n \in T : m <= n
  <1>1. IsWellFoundedOn(LessNat, Nat)
    BY NatLessThanWellFounded DEF LessNat
  <1>2. PICK m \in T : \A n \in T : <<n, m>> \notin LessNat
    BY <1>1, WFMin
  <1>3. ASSUME NEW n \in T
        PROVE  m <= n
    <2>1. ~(n < m)
      BY <1>2, Smaller
    <2> QED BY <2>1
  <1> QED BY <1>3

(* A set that has 0 and the successor of each of its numbers has them all. *)
LEMMA Induction ==
  ASSUME NEW T \in SUBSET Nat, 0 \in T, \A n \in T : n + 1 \in T
  PROVE  T = Nat
  <1> SUFFICES ASSUME Nat \ T # {} PROVE FALSE
    OBVIOUS
  <1>1. PICK m \in Nat \ T : \A n \in Nat \ T : m <= n
    BY LeastOf
  <1>2. m # 0 /\ m - 1 \in Nat
    BY <1>1
  <1>3. m - 1 \in T
    BY <1>1, <1>2
  <1> QED BY <1>1, <1>2, <1>3

(* A sequence without its first n. *)
LEMMA TailFrom ==
  ASSUME NEW S, NEW s \in Seq(S), NEW n \in 0..Len(s)
  PROVE  /\ SubSeq(s, n + 1, Len(s)) \in Seq(S)
         /\ Len(SubSeq(s, n + 1, Len(s))) = Len(s) - n
         /\ \A i \in 1..Len(s) - n : SubSeq(s, n + 1, Len(s))[i] = s[n + i]
  <1> DEFINE g == SubSeq(s, n + 1, Len(s))
  <1>1. Len(s) \in Nat /\ n \in Nat /\ n <= Len(s)
    BY LenProperties
  <1>2. \A i \in n + 1..Len(s) : s[i] \in S
    BY <1>1, ElementOfSeq
  <1>3. /\ g \in Seq(S)
        /\ Len(g) = IF n + 1 <= Len(s) THEN Len(s) - (n + 1) + 1 ELSE 0
        /\ \A i \in 1..Len(s) - (n + 1) + 1 : g[i] = s[n + 1 + i - 1]
    BY <1>1, <1>2, SubSeqProperties
  <1> HIDE DEF g
  <1>4. Len(s) - (n + 1) + 1 = Len(s) - n
    BY <1>1
  <1>5. Len(g) = Len(s) - n
    <2>1. CASE n + 1 <= Len(s)
      BY <1>3, <1>4, <2>1
    <2>2. CASE ~(n + 1 <= Len(s))
      <3>1. Len(g) = 0
        BY <1>3, <2>2
      <3> QED BY <1>1, <2>2, <3>1
    <2> QED BY <2>1, <2>2
  <1>6. ASSUME NEW i \in 1..Len(s) - n
        PROVE  g[i] = s[n + i]
    <2>1. n + 1 + i - 1 = n + i
      BY <1>1
    <2> QED BY <1>3, <1>4, <2>1
  <1> QED BY <1>3, <1>5, <1>6 DEF g

(* An index into what is left after some entries of a list went is, shifted *)
(* by their number, an index into the whole list.                          *)
LEMMA Shifted ==
  ASSUME NEW first \in Int, NEW len \in Int, NEW gone \in Int,
         NEW i \in first - gone..len - gone
  PROVE  gone + i \in first..len
  OBVIOUS

-----------------------------------------------------------------------------
(* What the parser makes of the lines of a list. *)

(* When no line is dropped, each line leaves the next seq to the next one  *)
(* (m3u_format_parser).                                                    *)
LEMMA NumbersAre ==
  ASSUME NEW lines \in Seq(Int), NEW first \in Nat,
         \A i \in 1..Len(lines), q \in Nat : q >= first => ~Dropped(lines[i], q)
  PROVE  Numbers(lines, first) = [i \in 0..Len(lines) |-> first + i]
  <1> DEFINE Is(f) == f = [i \in 0..Len(lines) |->
                 IF i = 0 THEN first
                 ELSE IF Dropped(lines[i], f[i - 1]) THEN f[i - 1]
                 ELSE f[i - 1] + 1]
             f == Numbers(lines, first)
             g == [i \in 0..Len(lines) |-> first + i]
  <1>0. Len(lines) \in Nat
    BY LenProperties
  <1>1. f = CHOOSE h : Is(h)
    BY DEF Numbers
  <1>2. Is(g)
    <2>1. ASSUME NEW i \in 0..Len(lines)
          PROVE  first + i = IF i = 0 THEN first
                 ELSE IF Dropped(lines[i], g[i - 1]) THEN g[i - 1]
                 ELSE g[i - 1] + 1
      BY <1>0
    <2> QED BY <2>1
  <1>3. Is(f)
    BY <1>1, <1>2
  <1> DEFINE T == {n \in Nat : n <= Len(lines) => f[n] = first + n}
  <1>4. T = Nat
    <2>1. 0 \in T
      BY <1>3, <1>0
    <2>2. ASSUME NEW n \in T
          PROVE  n + 1 \in T
      <3> SUFFICES ASSUME n + 1 <= Len(lines)
                   PROVE  f[n + 1] = first + (n + 1)
        OBVIOUS
      <3>1. f[n] = first + n /\ n + 1 \in 0..Len(lines) /\ n + 1 # 0 /\ n + 1 - 1 = n
        BY <1>0
      <3>2. ~Dropped(lines[n + 1], f[n])
        BY <3>1, <1>0
      <3>3. f[n + 1] = IF n + 1 = 0 THEN first
                 ELSE IF Dropped(lines[n + 1], f[n + 1 - 1]) THEN f[n + 1 - 1]
                 ELSE f[n + 1 - 1] + 1
        <4> HIDE DEF f
        <4> QED BY <1>3, <3>1
      <3> QED BY <3>1, <3>2, <3>3
    <2> HIDE DEF T
    <2> QED BY <2>1, <2>2, Induction DEF T
  <1>5. \A i \in 0..Len(lines) : f[i] = g[i]
    <2> SUFFICES ASSUME NEW i \in 0..Len(lines) PROVE f[i] = g[i]
      OBVIOUS
    <2>1. i \in Nat /\ i <= Len(lines)
      BY <1>0
    <2>2. i \in T
      <3> HIDE DEF T
      <3> QED BY <1>4, <2>1
    <2> QED BY <2>1, <2>2
  <1>6. f = [i \in 0..Len(lines) |-> f[i]]
    <2> HIDE DEF f
    <2> QED BY <1>3
  <1> HIDE DEF f
  <1> QED BY <1>5, <1>6 DEF f

(* When no line is dropped, every line makes an item, numbered on from     *)
(* first.                                                                  *)
LEMMA ParseAll ==
  ASSUME NEW lines \in Seq(Int), NEW first \in Nat,
         \A i \in 1..Len(lines), q \in Nat : q >= first => ~Dropped(lines[i], q)
  PROVE  Parse(lines, first) =
           [items |-> [k \in 1..Len(lines) |-> Item(lines[k], first + k - 1)],
            next |-> first + Len(lines)]
  <1> DEFINE next == Numbers(lines, first)
             n == next[Len(lines)]
             Line(q) == CHOOSE i \in 1..Len(lines) : next[i - 1] = q /\ next[i] = q + 1
  <1>0. Len(lines) \in Nat
    BY LenProperties
  <1>1. next = [i \in 0..Len(lines) |-> first + i]
    BY NumbersAre
  <1>2. n = first + Len(lines)
    BY <1>0, <1>1
  <1>3. ASSUME NEW k \in 1..Len(lines)
        PROVE  Line(first + k - 1) = k
    <2>1. ASSUME NEW i \in 1..Len(lines)
          PROVE  (next[i - 1] = first + k - 1 /\ next[i] = first + k - 1 + 1) <=> i = k
      <3>1. i - 1 \in 0..Len(lines) /\ i \in 0..Len(lines)
        BY <1>0
      <3>2. next[i - 1] = first + (i - 1) /\ next[i] = first + i
        BY <1>1, <3>1
      <3> HIDE DEF next
      <3> QED BY <1>0, <3>2
    <2> QED BY <2>1
  <1>4. Parse(lines, first) =
          [items |-> [k \in 1..n - first |-> Item(lines[Line(first + k - 1)],
          first + k - 1)],
           next |-> n]
    BY DEF Parse
  <1>5. n - first = Len(lines)
    BY <1>0, <1>2
  <1> HIDE DEF Line, n
  <1>6. [k \in 1..Len(lines) |-> Item(lines[Line(first + k - 1)], first + k - 1)]
         = [k \in 1..Len(lines) |-> Item(lines[k], first + k - 1)]
    BY <1>3
  <1> QED BY <1>2, <1>4, <1>5, <1>6

(* The lines of a list of which the first shows segment lo, and how many   *)
(* there are.                                                              *)
Shown(lo) == pub - lo + 1 + (IF over THEN 1 ELSE 0)
Line(lo, k) == IF k <= pub - lo + 1 THEN lo + k - 1 ELSE End

LEMMA LinesAre ==
  ASSUME pub \in 1..Segs, live \in BOOLEAN, over \in BOOLEAN
  PROVE  /\ Oldest \in 1..pub
         /\ Lines \in Seq(Int)
         /\ Lines = [k \in 1..Shown(Oldest) |-> Line(Oldest, k)]
  <1>1. Oldest \in 1..pub
    BY SizesOK DEF Oldest
  <1> DEFINE n == pub - Oldest + 1
             a == [i \in 1..n |-> Oldest + i - 1]
             b == IF over THEN <<End>> ELSE << >>
             e == IF over THEN 1 ELSE 0
  <1>2. n \in Nat /\ Oldest \in Int /\ pub \in Int
    BY <1>1, SizesOK
  <1>3. a \in Seq(Int) /\ Len(a) = n /\ \A i \in 1..n : a[i] = Oldest + i - 1
    BY <1>2
  <1>4. b \in Seq(Int) /\ Len(b) = e /\ \A i \in 1..e : b[i] = End
    <2>1. CASE over
      <3>1. <<End>> \in Seq(Int) /\ Len(<<End>>) = 1 /\ <<End>>[1] = End
        BY DEF End
      <3> QED BY <2>1, <3>1
    <2>2. CASE ~over
      <3>1. << >> \in Seq(Int) /\ Len(<< >>) = 0
        BY EmptySeq
      <3> QED BY <2>2, <3>1
    <2> QED BY <2>1, <2>2
  <1>5. Lines = a \o b
    BY DEF Lines
  <1>6. e \in 0..1
    OBVIOUS
  <1> HIDE DEF a, b, n, e
  <1>7. /\ a \o b \in Seq(Int) /\ Len(a \o b) = n + e
        /\ \A i \in 1..n + e : (a \o b)[i] = IF i <= n THEN a[i] ELSE b[i - n]
    BY <1>2, <1>3, <1>4, <1>6, ConcatProperties
  <1>8. Shown(Oldest) = n + e
    BY DEF Shown, n, e
  <1>9. ASSUME NEW i \in 1..n + e
        PROVE  (a \o b)[i] = Line(Oldest, i)
    <2>1. CASE i <= n
      <3>1. (a \o b)[i] = a[i] /\ a[i] = Oldest + i - 1
        <4>1. i \in 1..n
          BY <1>2, <1>6, <2>1
        <4> QED BY <1>3, <1>7, <2>1, <4>1
      <3> QED BY <2>1, <3>1 DEF Line, n
    <2>2. CASE ~(i <= n)
      <3>1. i - n \in 1..e
        BY <2>2, <1>2, <1>6
      <3>2. (a \o b)[i] = b[i - n] /\ b[i - n] = End
        BY <2>2, <3>1, <1>4, <1>7
      <3> QED BY <2>2, <3>2 DEF Line, n
    <2> QED BY <2>1, <2>2
  <1>10. a \o b = [k \in 1..n + e |-> (a \o b)[k]]
    BY <1>7, LenProperties
  <1>11. [k \in 1..n + e |-> (a \o b)[k]] = [k \in 1..n + e |-> Line(Oldest, k)]
    BY <1>9
  <1> QED BY <1>1, <1>5, <1>7, <1>8, <1>10, <1>11

(* The items made of them, and next_seq, when the first one gets the number *)
(* first, or when none gets any.                                           *)
SeqOf(first, k) == IF numbered = "none" THEN -1 ELSE first + k - 1
Fresh(lo, first) == [k \in 1..Shown(lo) |-> Item(Line(lo, k), SeqOf(first, k))]
NextOf(first, n) == IF numbered = "none" THEN -1 ELSE first + n

Cell == [seg : 0..Segs, seq : Nat \cup {-1}]

LEMMA NumbersTyped ==
  ASSUME NEW first \in Nat, NEW k \in Nat
  PROVE  /\ k >= 1 => SeqOf(first, k) \in Nat \cup {-1}
         /\ NextOf(first, k) \in Nat \cup {-1}
  BY DEF SeqOf, NextOf

(* When items have numbers, each is below the one the next item is given.  *)
Numbered ==
  IF numbered = "none" THEN nextSeq = -1
  ELSE nextSeq \in Nat /\ \A i \in 1..Len(list) : list[i].seq < nextSeq

(* A list that is loaded again shows either every segment from the oldest  *)
(* on, or all but that one; no item of it is dropped, since what           *)
(* list_test_and_add_item looks for has a seq of before.                   *)
LEMMA NewItems ==
  ASSUME pub \in 1..Segs, live \in BOOLEAN, over \in BOOLEAN, Numbered,
         list \in Seq(Cell)
  PROVE  \E lo \in {Oldest, Oldest + 1}, first \in Nat :
           /\ first >= nextSeq
           /\ Parsed = [items |-> Fresh(lo, first), next |-> NextOf(first, Shown(lo))]
  <1>1. /\ Oldest \in 1..pub /\ Lines \in Seq(Int)
        /\ Lines = [k \in 1..Shown(Oldest) |-> Line(Oldest, k)]
    BY LinesAre
  <1>2. /\ Oldest \in Nat /\ pub \in Nat /\ Shown(Oldest) \in Nat /\ Shown(Oldest) >= 1
        /\ Shown(Oldest + 1) = Shown(Oldest) - 1
        /\ Len(Lines) = Shown(Oldest)
    <2>1. Oldest \in Nat /\ pub \in Nat
      BY <1>1, SizesOK
    <2>2. Shown(Oldest) \in Nat /\ Shown(Oldest) >= 1 /\ Shown(Oldest + 1) = Shown(Oldest) - 1
      BY <1>1, <2>1 DEF Shown
    <2> QED BY <1>1, <2>1, <2>2
  <1>3. CASE numbered = "none"
    <2>1. nextSeq = -1 /\ Parsed = Unnumbered(Lines)
      BY <1>3 DEF Numbered, Parsed
    <2>2. [i \in 1..Len(Lines) |-> Item(Lines[i], -1)] = Fresh(Oldest, 0)
      BY <1>1, <1>2, <1>3 DEF Fresh, SeqOf
    <2>3. Parsed = [items |-> Fresh(Oldest, 0), next |-> NextOf(0, Shown(Oldest))]
      BY <1>3, <2>1, <2>2 DEF Unnumbered, NextOf
    <2>4. 0 >= nextSeq
      BY <2>1
    <2> QED BY <2>3, <2>4
  <1>4. CASE numbered # "none"
    <2>1. nextSeq \in Nat /\ \A i \in 1..Len(list) : list[i].seq < nextSeq
      BY <1>4 DEF Numbered
    <2>2. \A s \in Int, q \in Nat : q >= nextSeq => ~Dropped(s, q)
      <3> SUFFICES ASSUME NEW s \in Int, NEW q \in Nat, q >= nextSeq, Dropped(s, q)
                   PROVE  FALSE
        OBVIOUS
      <3>1. PICK i \in 1..Len(list) : list[i] = Item(s, q)
        BY DEF Dropped
      <3>2. list[i].seq < nextSeq /\ list[i].seq = q
        BY <2>1, <3>1 DEF Item
      <3> QED BY <2>1, <3>2
    (* The whole list, numbered from a number that is not below next_seq. *)
    <2>3. ASSUME NEW first \in Nat, first >= nextSeq
          PROVE  Parse(Lines, first) = [items |-> Fresh(Oldest, first),
                                        next |-> NextOf(first, Shown(Oldest))]
      <3>1. \A i \in 1..Len(Lines), q \in Nat : q >= first => ~Dropped(Lines[i], q)
        BY <1>1, <1>2, <2>1, <2>2, <2>3, ElementOfSeq
      <3>2. Parse(Lines, first) =
              [items |-> [k \in 1..Len(Lines) |-> Item(Lines[k], first + k - 1)],
               next |-> first + Len(Lines)]
        BY <1>1, <3>1, ParseAll
      <3>3. [k \in 1..Len(Lines) |-> Item(Lines[k], first + k - 1)] = Fresh(Oldest, first)
        BY <1>1, <1>2, <1>4 DEF Fresh, SeqOf
      <3> QED BY <1>2, <1>4, <3>2, <3>3 DEF NextOf
    <2>4. CASE numbered = "first"
      <3>1. Parsed = Parse(Lines, nextSeq)
        BY <2>4 DEF Parsed
      <3> QED BY <2>1, <2>3, <3>1
    <2>5. CASE numbered # "first" /\ Oldest >= nextSeq
      <3>1. Parsed = Parse(Lines, Oldest)
        BY <1>4, <2>5 DEF Parsed
      <3> QED BY <1>2, <2>3, <2>5, <3>1
    <2>6. CASE numbered # "first" /\ ~(Oldest >= nextSeq)
      <3> DEFINE rest == Tail(Lines)
      <3>1. /\ rest \in Seq(Int) /\ Len(rest) = Shown(Oldest + 1)
            /\ \A k \in 1..Shown(Oldest + 1) : rest[k] = Lines[k + 1]
        BY <1>1, <1>2, HeadTailProperties, EmptySeq
      <3>2. \A i \in 1..Len(rest), q \in Nat : q >= nextSeq => ~Dropped(rest[i], q)
        BY <2>2, <3>1, ElementOfSeq
      <3>3. Parse(rest, nextSeq) =
              [items |-> [k \in 1..Len(rest) |-> Item(rest[k], nextSeq + k - 1)],
               next |-> nextSeq + Len(rest)]
        BY <2>1, <3>1, <3>2, ParseAll
      <3>4. \A k \in 1..Shown(Oldest + 1) : rest[k] = Line(Oldest + 1, k)
        <4> SUFFICES ASSUME NEW k \in 1..Shown(Oldest + 1)
                     PROVE  Lines[k + 1] = Line(Oldest + 1, k)
          BY <3>1
        <4>1. k + 1 \in 1..Shown(Oldest)
          BY <1>2
        <4>2. Lines[k + 1] = Line(Oldest, k + 1)
          BY <1>1, <4>1
        <4>3. k \in Nat
          BY <1>2
        <4> QED BY <1>2, <4>2, <4>3 DEF Line
      <3>5. [k \in 1..Len(rest) |-> Item(rest[k], nextSeq + k - 1)] = Fresh(Oldest + 1, nextSeq)
        BY <1>4, <3>1, <3>4 DEF Fresh, SeqOf
      <3>6. Parsed = [items |-> Fresh(Oldest + 1, nextSeq),
                      next |-> NextOf(nextSeq, Shown(Oldest + 1))]
        BY <1>4, <2>6, <3>1, <3>3, <3>5 DEF Parsed, NextOf
      <3>7. nextSeq >= nextSeq
        BY <2>1
      <3> QED BY <2>1, <3>6, <3>7
    <2> QED BY <2>4, <2>5, <2>6
  <1> QED BY <1>3, <1>4

-----------------------------------------------------------------------------
(* A list that is loaded again. *)

All(lo, first) == list \o Fresh(lo, first)

(* The items of before, and after them those of the new list.              *)
LEMMA JoinedList ==
  ASSUME TypeOK, NEW lo \in {Oldest, Oldest + 1}, NEW first \in Nat
  PROVE  /\ Shown(lo) \in Nat /\ lo \in Nat
         /\ \A k \in 1..Shown(lo) : Line(lo, k) \in 0..pub
         /\ Fresh(lo, first) \in Seq(Cell)
         /\ Len(Fresh(lo, first)) = Shown(lo)
         /\ All(lo, first) \in Seq(Cell)
         /\ Len(All(lo, first)) = Len(list) + Shown(lo)
         /\ \A i \in 1..Len(list) : All(lo, first)[i] = list[i]
         /\ \A k \in 1..Shown(lo) :
              All(lo, first)[Len(list) + k] = Item(Line(lo, k), SeqOf(first, k))
  <1>1. pub \in 1..Segs /\ live \in BOOLEAN /\ over \in BOOLEAN /\ list \in Seq(Cell)
    BY DEF TypeOK, Cell
  <1>2. Oldest \in 1..pub /\ lo \in Nat /\ lo >= 1 /\ pub \in Nat /\ lo <= pub + 1
    BY <1>1, LinesAre, SizesOK
  <1>3. Shown(lo) \in Nat
    BY <1>1, <1>2 DEF Shown
  <1>4. ASSUME NEW k \in 1..Shown(lo)
        PROVE  Line(lo, k) \in 0..pub /\ Item(Line(lo, k), SeqOf(first, k)) \in Cell
    <2>1. Line(lo, k) \in 0..pub
      BY <1>2, <1>3 DEF Line, End
    <2>2. 0..pub \subseteq 0..Segs /\ SeqOf(first, k) \in Nat \cup {-1}
      <3>1. k \in Nat /\ k >= 1
        BY <1>3
      <3> QED BY <1>1, <1>2, <3>1, NumbersTyped, SizesOK
    <2> QED BY <2>1, <2>2 DEF Item, Cell
  <1>5. Fresh(lo, first) \in Seq(Cell) /\ Len(Fresh(lo, first)) = Shown(lo)
    BY <1>3, <1>4 DEF Fresh
  <1>6. \A k \in 1..Shown(lo) : Fresh(lo, first)[k] = Item(Line(lo, k), SeqOf(first, k))
    BY DEF Fresh
  <1> DEFINE f == Fresh(lo, first)
  <1> HIDE DEF f
  <1>7. /\ list \o f \in Seq(Cell) /\ Len(list \o f) = Len(list) + Len(f)
        /\ \A i \in 1..Len(list) + Len(f) :
             (list \o f)[i] = IF i <= Len(list) THEN list[i] ELSE f[i - Len(list)]
    BY <1>1, <1>5, ConcatProperties DEF f
  <1>8. All(lo, first) = list \o f
    BY DEF All, f
  <1>9. Len(list) \in Nat /\ Len(f) = Shown(lo)
    BY <1>1, <1>5, LenProperties DEF f
  <1>10. \A i \in 1..Len(list) : (list \o f)[i] = list[i]
    BY <1>7, <1>9, <1>3
  <1>11. ASSUME NEW k \in 1..Shown(lo)
         PROVE  (list \o f)[Len(list) + k] = f[k]
    <2>1. /\ Len(list) + k \in 1..Len(list) + Len(f) /\ ~(Len(list) + k <= Len(list))
          /\ Len(list) + k - Len(list) = k
      BY <1>3, <1>9
    <2> QED BY <1>7, <2>1
  <1>12. ASSUME NEW k \in 1..Shown(lo)
         PROVE  All(lo, first)[Len(list) + k] = Item(Line(lo, k), SeqOf(first, k))
    BY <1>6, <1>8, <1>11 DEF f
  <1>13. All(lo, first) \in Seq(Cell) /\ Len(All(lo, first)) = Len(list) + Shown(lo)
    BY <1>7, <1>8, <1>9
  <1>14. \A i \in 1..Len(list) : All(lo, first)[i] = list[i]
    BY <1>8, <1>10
  <1> QED BY <1>2, <1>3, <1>4, <1>5, <1>12, <1>13, <1>14

(* All that loading a list again does: where current_item goes, to c,      *)
(* before list_shrink_live_list takes the first items away.                *)
LoadedAgain(lo, first, gone, c) ==
  LET all == All(lo, first)
  IN /\ c <= Len(list) + Shown(lo)
     /\ first >= nextSeq /\ nextSeq' = NextOf(first, Shown(lo))
     /\ list' = SubSeq(all, gone + 1, Len(all))
     /\ ended' = (ended \/ over)
     /\ cur' = c - gone
     /\ After(cur', Len(all) - gone, ended')
     /\ IF c = 0 THEN gone = 0 ELSE gone < c
     /\ ended' => gone = 0
     /\ \/ c = cur
        \/ OnFile /\ c > Len(list) /\ all[c].seg = list[cur].seg
     /\ OnFile /\ c = cur =>
          \A k \in 1..Shown(lo) : Line(lo, k) # list[cur].seg

LEMMA Reloaded ==
  ASSUME TypeOK, Numbered, Reload
  PROVE  \E lo \in {Oldest, Oldest + 1}, first \in Nat, gone \in Nat, c \in Nat :
           LoadedAgain(lo, first, gone, c)
  <1>1. PICK lo \in {Oldest, Oldest + 1}, first \in Nat :
          /\ first >= nextSeq
          /\ Parsed = [items |-> Fresh(lo, first), next |-> NextOf(first, Shown(lo))]
    BY NewItems DEF TypeOK, Cell
  <1> DEFINE new == Fresh(lo, first)
             all == All(lo, first)
             e == ended \/ over
             c == Moved(new)
             gone == Shrunk(Len(all), c, e)
  <1>2. /\ list' = SubSeq(all, gone + 1, Len(all))
        /\ nextSeq' = NextOf(first, Shown(lo))
        /\ ended' = e
        /\ cur' = c - gone
        /\ After(c - gone, Len(all) - gone, e)
    <2>1. Parsed.items = new /\ Parsed.next = NextOf(first, Shown(lo))
      BY <1>1
    <2>2. PICK p \in {Parsed} :
            LET b == list \o p.items
                d == Moved(p.items)
                g == Shrunk(Len(b), d, e)
            IN /\ list' = SubSeq(b, g + 1, Len(b))
               /\ nextSeq' = p.next
               /\ ended' = e
               /\ cur' = d - g
               /\ After(d - g, Len(b) - g, e)
      BY DEF Reload
    <2>3. p.items = new /\ p.next = NextOf(first, Shown(lo)) /\ list \o new = all
      BY <2>1, <2>2 DEF All
    <2> HIDE DEF new, all, e
    <2> QED BY <2>2, <2>3
  <1>3. /\ Shown(lo) \in Nat /\ Len(new) = Shown(lo) /\ Len(all) = Len(list) + Shown(lo)
        /\ \A k \in 1..Shown(lo) :
             /\ new[k].seg = Line(lo, k)
             /\ all[Len(list) + k].seg = Line(lo, k)
    <2>1. /\ Shown(lo) \in Nat /\ Len(new) = Shown(lo)
          /\ Len(all) = Len(list) + Shown(lo)
          /\ \A k \in 1..Shown(lo) :
               all[Len(list) + k] = Item(Line(lo, k), SeqOf(first, k))
      BY JoinedList
    <2>2. \A k \in 1..Shown(lo) : new[k] = Item(Line(lo, k), SeqOf(first, k))
      BY DEF Fresh
    <2>3. \A s, q : Item(s, q).seg = s
      BY DEF Item
    <2> HIDE DEF new, all
    <2> QED BY <2>1, <2>2, <2>3
  <1>4. Len(list) \in Nat /\ cur \in 0..Len(list)
    BY LenProperties DEF TypeOK
  <1>5. /\ c \in 0..Len(list) + Shown(lo) /\ c \in Nat
        /\ OnFile => c >= 1
        /\ c = cur \/ (OnFile /\ c > Len(list) /\ all[c].seg = list[cur].seg)
        /\ OnFile /\ c = cur => \A k \in 1..Shown(lo) : Line(lo, k) # list[cur].seg
    <2>1. CASE OnFile /\ Again(new) # {}
      <3>1. Again(new) \in SUBSET Nat
        BY <1>3 DEF Again
      <3>2. \E i \in Again(new) : \A j \in Again(new) : i <= j
        BY <2>1, <3>1, LeastOf
      <3>3. PICK i \in Again(new) : c = Len(list) + i
        BY <2>1, <3>2 DEF Moved
      <3>4. i \in 1..Shown(lo) /\ new[i].seg = list[cur].seg
        BY <1>3 DEF Again
      <3>5. c > Len(list) /\ c <= Len(list) + Shown(lo) /\ c \in Nat /\ c # cur
        BY <1>3, <1>4, <3>3, <3>4
      <3>6. all[c].seg = list[cur].seg
        BY <1>3, <3>3, <3>4
      <3> HIDE DEF c
      <3> QED BY <1>3, <1>4, <2>1, <3>5, <3>6
    <2>2. CASE ~(OnFile /\ Again(new) # {})
      <3>1. c = cur
        BY <2>2 DEF Moved
      <3>2. OnFile => \A k \in 1..Shown(lo) : Line(lo, k) # list[cur].seg
        BY <2>2, <1>3 DEF Again
      <3> HIDE DEF c
      <3> QED BY <1>3, <1>4, <3>1, <3>2 DEF OnFile
    <2> QED BY <2>1, <2>2
  <1>6. /\ gone \in Nat
        /\ e => gone = 0
        /\ IF c = 0 THEN gone = 0 ELSE gone < c
    <2>1. CASE OnFile /\ ~e /\ Len(all) > ListMax
      <3>1. gone = Least(Len(all) - ListKeep, c - 1)
        BY <2>1 DEF Shrunk
      <3>2. Len(all) - ListKeep \in Nat /\ c - 1 \in Nat
        <4>1. /\ Len(all) \in Nat /\ c \in Nat /\ c >= 1
              /\ Len(all) > ListMax /\ ListMax \in Nat /\ ListKeep \in 0..ListMax
          BY <1>3, <1>4, <1>5, <2>1, SizesOK
        <4> HIDE DEF c, all
        <4> QED BY <4>1
      <3> HIDE DEF c, e, gone, all
      <3> QED BY <1>5, <2>1, <3>1, <3>2 DEF Least
    <2>2. CASE ~(OnFile /\ ~e /\ Len(all) > ListMax)
      <3>1. gone = 0
        BY <2>2 DEF Shrunk
      <3> HIDE DEF c, e, gone, all
      <3> QED BY <1>5, <3>1
    <2> QED BY <2>1, <2>2
  <1> HIDE DEF new, c, gone
  <1>7. c <= Len(list) + Shown(lo)
    BY <1>3, <1>4, <1>5
  <1>8. After(cur', Len(all) - gone, ended')
    BY <1>2
  <1> HIDE DEF all, e
  <1>9. /\ c <= Len(list) + Shown(lo)
        /\ first >= nextSeq /\ nextSeq' = NextOf(first, Shown(lo))
        /\ list' = SubSeq(all, gone + 1, Len(all))
        /\ ended' = e
        /\ cur' = c - gone
        /\ After(cur', Len(all) - gone, ended')
        /\ IF c = 0 THEN gone = 0 ELSE gone < c
        /\ ended' => gone = 0
        /\ c = cur \/ (OnFile /\ c > Len(list) /\ all[c].seg = list[cur].seg)
        /\ OnFile /\ c = cur => \A k \in 1..Shown(lo) : Line(lo, k) # list[cur].seg
    BY <1>1, <1>2, <1>5, <1>6, <1>7, <1>8
  <1>10. gone \in Nat /\ c \in Nat
    BY <1>5, <1>6
  <1>11. LoadedAgain(lo, first, gone, c)
    BY <1>9 DEF all, e, LoadedAgain
  <1> QED BY <1>10, <1>11

-----------------------------------------------------------------------------
(* The type invariant, with what it needs of the control of both threads. *)

OnSegment == pc \in {"open", "read", "put", "skip"}
Seeking == call \in {"seeking", "resetting", "placing"}

(* Pointers that outlive a step: the downloader keeps none while the list  *)
(* is loaded, the player keeps one only where the list stays as it is.     *)
Aside ==
  /\ Numbered
  /\ OnSegment => seg # End
  /\ pc # "switched" => nxt = 0
  /\ live => ~Seeking /\ goal = 0
  /\ ~live => over
  /\ Seeking => goal \in 1..Len(list) /\ list[goal].seg # End

TInv == TypeOK /\ Aside

(* A position in the stream is a number.                                   *)
LEMMA PosNat ==
  ASSUME NEW s \in Nat \ {0}, NEW n \in Nat
  PROVE  Pos(s, n) \in Nat
  <1>1. s - 1 \in Nat /\ Units \in Nat
    BY SizesOK
  <1>2. (s - 1) * Units \in Nat
    BY <1>1
  <1> QED BY <1>2 DEF Pos

LEMMA TopTyped ==
  ASSUME TInv, Top
  PROVE  TInv'
  <1>1. TypeOK'
    <2>1. /\ pc' = "ended" \/ pc' = "get"
          /\ exited' \in BOOLEAN
          /\ resetFlag' = 1 \/ resetFlag' = resetFlag
      BY DEF Top, TInv, TypeOK
    <2>9. UNCHANGED <<live, numbered, pub, over, list, cur, nextSeq, ended, freed, fifo, exit, reset,
                      finish, seg, hasEnd, off, pend, nxt, call, goal, stop, at, eof,
                      raced>>
      BY DEF Top, server, mgt, flags, loader, player
    <2> QED BY <2>1, <2>9 DEF TInv, TypeOK
  <1>2. Aside'
    BY SizesOK
       DEF TInv, TypeOK, Top, server, mgt, flags, loader, player, Aside, OnSegment,
           Seeking, Numbered, End
  <1> QED BY <1>1, <1>2 DEF TInv

LEMMA GetTyped ==
  ASSUME TInv, Get
  PROVE  TInv'
  <1>1. TypeOK'
    <2>1. /\ pc' = "top" \/ pc' = "got"
          /\ hasEnd' \in BOOLEAN
      BY DEF Get, TInv, TypeOK
    <2>2. seg' \in 0..Segs
      <3>1. CASE cur = 0
        BY <3>1 DEF Get, TInv, TypeOK
      <3>2. CASE cur # 0
        <4>1. list \in Seq(Cell) /\ Len(list) \in Nat
          BY LenProperties DEF TInv, TypeOK, Cell
        <4>2. cur \in 1..Len(list)
          BY <3>2, <4>1 DEF TInv, TypeOK
        <4>3. list[cur] \in Cell
          BY <4>1, <4>2, ElementOfSeq
        <4> QED BY <3>2, <4>3 DEF Get, Cell
      <3> QED BY <3>1, <3>2
    <2>9. UNCHANGED <<live, numbered, pub, over, list, cur, nextSeq, ended, freed, fifo, exit, exited,
                      reset, resetFlag, finish, off, pend, nxt, call, goal, stop, at, eof,
                      raced>>
      BY DEF Get, server, mgt, flags, loader, player
    <2> QED BY <2>1, <2>2, <2>9 DEF TInv, TypeOK
  <1>2. Aside'
    BY SizesOK
       DEF TInv, TypeOK, Get, server, mgt, flags, loader, player, Aside, OnSegment,
           Seeking, Numbered, End
  <1> QED BY <1>1, <1>2 DEF TInv

LEMMA BeginTyped ==
  ASSUME TInv, Begin
  PROVE  TInv'
  <1>1. TypeOK'
    BY SizesOK
       DEF TInv, TypeOK, Begin, server, mgt, flags, loader, player, Aside, OnSegment,
           Seeking
  <1>2. Aside'
    BY SizesOK
       DEF TInv, TypeOK, Begin, server, mgt, flags, loader, player, Aside, OnSegment,
           Seeking, Numbered, End
  <1> QED BY <1>1, <1>2 DEF TInv

LEMMA OpenTyped ==
  ASSUME TInv, Open
  PROVE  TInv'
  <1>1. TypeOK'
    BY SizesOK
       DEF TInv, TypeOK, Open, server, mgt, flags, loader, player, Aside, OnSegment,
           Seeking
  <1>2. Aside'
    BY SizesOK
       DEF TInv, TypeOK, Open, server, mgt, flags, loader, player, Aside, OnSegment,
           Seeking, Numbered, End
  <1> QED BY <1>1, <1>2 DEF TInv

LEMMA OpenGoneTyped ==
  ASSUME TInv, OpenGone
  PROVE  TInv'
  <1>1. TypeOK'
    BY SizesOK
       DEF TInv, TypeOK, OpenGone, server, mgt, flags, loader, player, Aside, OnSegment,
           Seeking
  <1>2. Aside'
    BY SizesOK
       DEF TInv, TypeOK, OpenGone, server, mgt, flags, loader, player, Aside, OnSegment,
           Seeking, Numbered, End
  <1> QED BY <1>1, <1>2 DEF TInv

LEMMA OpenFailsTyped ==
  ASSUME TInv, OpenFails
  PROVE  TInv'
  <1>1. TypeOK'
    BY SizesOK
       DEF TInv, TypeOK, OpenFails, server, mgt, flags, loader, player, Aside, OnSegment,
           Seeking
  <1>2. Aside'
    BY SizesOK
       DEF TInv, TypeOK, OpenFails, server, mgt, flags, loader, player, Aside, OnSegment,
           Seeking, Numbered, End
  <1> QED BY <1>1, <1>2 DEF TInv

LEMMA LeaveTyped ==
  ASSUME TInv, Leave
  PROVE  TInv'
  <1>1. TypeOK'
    BY SizesOK
       DEF TInv, TypeOK, Leave, server, mgt, flags, loader, player, Aside, OnSegment,
           Seeking
  <1>2. Aside'
    BY SizesOK
       DEF TInv, TypeOK, Leave, server, mgt, flags, loader, player, Aside, OnSegment,
           Seeking, Numbered, End
  <1> QED BY <1>1, <1>2 DEF TInv

LEMMA FetchTyped ==
  ASSUME TInv, Fetch
  PROVE  TInv'
  <1>1. TypeOK'
    BY SizesOK
       DEF TInv, TypeOK, Fetch, server, mgt, flags, loader, player, Aside, OnSegment,
           Seeking, Least
  <1>2. Aside'
    BY SizesOK
       DEF TInv, TypeOK, Fetch, server, mgt, flags, loader, player, Aside, OnSegment,
           Seeking, Numbered, End, Least
  <1> QED BY <1>1, <1>2 DEF TInv

LEMMA FetchEndsTyped ==
  ASSUME TInv, FetchEnds
  PROVE  TInv'
  <1>1. TypeOK'
    BY SizesOK
       DEF TInv, TypeOK, FetchEnds, server, mgt, flags, loader, player, Aside, OnSegment,
           Seeking
  <1>2. Aside'
    BY SizesOK
       DEF TInv, TypeOK, FetchEnds, server, mgt, flags, loader, player, Aside, OnSegment,
           Seeking, Numbered, End
  <1> QED BY <1>1, <1>2 DEF TInv

LEMMA PutRestTyped ==
  ASSUME TInv, PutRest
  PROVE  TInv'
  <1>1. TypeOK'
    BY SizesOK
       DEF TInv, TypeOK, PutRest, server, mgt, flags, loader, player, Aside, OnSegment,
           Seeking
  <1>2. Aside'
    BY SizesOK
       DEF TInv, TypeOK, PutRest, server, mgt, flags, loader, player, Aside, OnSegment,
           Seeking, Numbered, End
  <1> QED BY <1>1, <1>2 DEF TInv

LEMMA SkipTyped ==
  ASSUME TInv, Skip
  PROVE  TInv'
  <1>1. TypeOK'
    BY SizesOK
       DEF TInv, TypeOK, Skip, server, mgt, flags, loader, player, Aside, OnSegment,
           Seeking
  <1>2. Aside'
    BY SizesOK
       DEF TInv, TypeOK, Skip, server, mgt, flags, loader, player, Aside, OnSegment,
           Seeking, Numbered, End
  <1> QED BY <1>1, <1>2 DEF TInv

LEMMA SwitchNextTyped ==
  ASSUME TInv, SwitchNext
  PROVE  TInv'
  <1>1. TypeOK'
    BY SizesOK
       DEF TInv, TypeOK, SwitchNext, server, mgt, flags, loader, player, Aside,
           OnSegment, Seeking, Returns, AtLast
  <1>2. Aside'
    BY SizesOK
       DEF TInv, TypeOK, SwitchNext, server, mgt, flags, loader, player, Aside,
           OnSegment, Seeking, Numbered, End, Returns, AtLast
  <1> QED BY <1>1, <1>2 DEF TInv

LEMMA TooEarlyTyped ==
  ASSUME TInv, TooEarly
  PROVE  TInv'
  <1>1. TypeOK'
    BY SizesOK
       DEF TInv, TypeOK, TooEarly, server, mgt, flags, loader, player, Aside,
           OnSegment, Seeking, Returns, After, AtLast
  <1>2. Aside'
    BY SizesOK
       DEF TInv, TypeOK, TooEarly, server, mgt, flags, loader, player, Aside,
           OnSegment, Seeking, Numbered, End, Returns, After, AtLast
  <1> QED BY <1>1, <1>2 DEF TInv

LEMMA ReloadFailsTyped ==
  ASSUME TInv, ReloadFails
  PROVE  TInv'
  <1>1. TypeOK'
    BY SizesOK
       DEF TInv, TypeOK, ReloadFails, server, mgt, flags, loader, player, Aside,
           OnSegment, Seeking, Returns, After, AtLast
  <1>2. Aside'
    BY SizesOK
       DEF TInv, TypeOK, ReloadFails, server, mgt, flags, loader, player, Aside,
           OnSegment, Seeking, Numbered, End, Returns, After, AtLast
  <1> QED BY <1>1, <1>2 DEF TInv

LEMMA SwitchStoppedTyped ==
  ASSUME TInv, SwitchStopped
  PROVE  TInv'
  <1>1. TypeOK'
    BY SizesOK
       DEF TInv, TypeOK, SwitchStopped, server, mgt, flags, loader, player, Aside,
           OnSegment, Seeking
  <1>2. Aside'
    BY SizesOK
       DEF TInv, TypeOK, SwitchStopped, server, mgt, flags, loader, player, Aside,
           OnSegment, Seeking, Numbered, End
  <1> QED BY <1>1, <1>2 DEF TInv

LEMMA SwitchedTyped ==
  ASSUME TInv, Switched
  PROVE  TInv'
  <1>1. TypeOK'
    BY SizesOK
       DEF TInv, TypeOK, Switched, server, mgt, flags, loader, player, Aside, OnSegment,
           Seeking
  <1>2. Aside'
    BY SizesOK
       DEF TInv, TypeOK, Switched, server, mgt, flags, loader, player, Aside, OnSegment,
           Seeking, Numbered, End
  <1> QED BY <1>1, <1>2 DEF TInv

LEMMA ReadEndTyped ==
  ASSUME TInv, ReadEnd
  PROVE  TInv'
  <1>1. TypeOK'
    BY SizesOK
       DEF TInv, TypeOK, ReadEnd, server, mgt, flags, loader, player, Aside, OnSegment,
           Seeking
  <1>2. Aside'
    BY SizesOK
       DEF TInv, TypeOK, ReadEnd, server, mgt, flags, loader, player, Aside, OnSegment,
           Seeking, Numbered, End
  <1> QED BY <1>1, <1>2 DEF TInv

LEMMA PublishTyped ==
  ASSUME TInv, Publish
  PROVE  TInv'
  <1>1. TypeOK'
    BY SizesOK
       DEF TInv, TypeOK, Publish, server, mgt, flags, loader, player, Aside, OnSegment,
           Seeking
  <1>2. Aside'
    BY SizesOK
       DEF TInv, TypeOK, Publish, server, mgt, flags, loader, player, Aside, OnSegment,
           Seeking, Numbered, End
  <1> QED BY <1>1, <1>2 DEF TInv

LEMMA FinishTyped ==
  ASSUME TInv, Finish
  PROVE  TInv'
  <1>1. TypeOK'
    BY SizesOK
       DEF TInv, TypeOK, Finish, server, mgt, flags, loader, player, Aside, OnSegment,
           Seeking
  <1>2. Aside'
    BY SizesOK
       DEF TInv, TypeOK, Finish, server, mgt, flags, loader, player, Aside, OnSegment,
           Seeking, Numbered, End
  <1> QED BY <1>1, <1>2 DEF TInv

LEMMA InterruptTyped ==
  ASSUME TInv, Interrupt
  PROVE  TInv'
  <1>1. TypeOK'
    BY SizesOK
       DEF TInv, TypeOK, Interrupt, server, mgt, flags, loader, player, Aside, OnSegment,
           Seeking
  <1>2. Aside'
    BY SizesOK
       DEF TInv, TypeOK, Interrupt, server, mgt, flags, loader, player, Aside, OnSegment,
           Seeking, Numbered, End
  <1> QED BY <1>1, <1>2 DEF TInv

LEMMA SeekTyped ==
  ASSUME TInv, Seek
  PROVE  TInv'
  <1>1. TypeOK'
    <2>1. /\ call' = "seeking" /\ eof' \in BOOLEAN /\ raced' \in BOOLEAN /\ cur' = 0
      BY DEF Seek, TInv, TypeOK
    <2>2. goal' \in 0..Len(list) /\ 0 \in 0..Len(list)
      <3>1. Len(list) \in Nat
        BY LenProperties DEF TInv, TypeOK
      <3> QED BY <3>1 DEF Seek
    <2>9. UNCHANGED <<live, numbered, pub, over, list, nextSeq, ended, freed, fifo, exit, exited, reset,
                      resetFlag, finish, pc, seg, hasEnd, off, pend, nxt, stop, at>>
      BY DEF Seek, server, mgt, flags, loader, player
    <2> QED BY <2>1, <2>2, <2>9 DEF TInv, TypeOK
  <1>2. Aside'
    BY SizesOK
       DEF TInv, TypeOK, Seek, server, mgt, flags, loader, player, Aside, OnSegment,
           Seeking, Numbered, End
  <1> QED BY <1>1, <1>2 DEF TInv

LEMMA ResetTyped ==
  ASSUME TInv, Reset
  PROVE  TInv'
  <1>1. TypeOK'
    BY SizesOK
       DEF TInv, TypeOK, Reset, server, mgt, flags, loader, player, Aside, OnSegment,
           Seeking
  <1>2. Aside'
    BY SizesOK
       DEF TInv, TypeOK, Reset, server, mgt, flags, loader, player, Aside, OnSegment,
           Seeking, Numbered, End
  <1> QED BY <1>1, <1>2 DEF TInv

LEMMA EmptiedTyped ==
  ASSUME TInv, Emptied
  PROVE  TInv'
  <1>1. TypeOK'
    <2>1. fifo' \in Seq(Nat) /\ Len(fifo') <= FifoSize
      <3>1. << >> \in Seq(Nat) /\ Len(<< >>) = 0 /\ 0 <= FifoSize
        BY EmptySeq, SizesOK
      <3>2. fifo' = << >>
        BY DEF Emptied
      <3> QED BY <3>1, <3>2
    <2>2. call' = "placing" /\ reset' \in BOOLEAN /\ finish' \in BOOLEAN
      BY DEF Emptied
    <2>9. UNCHANGED <<live, numbered, pub, over, list, cur, nextSeq, ended, freed, exit, exited, resetFlag,
                      pc, seg, hasEnd, off, pend, nxt, goal, stop, at, eof, raced>>
      BY DEF Emptied, server, mgt, flags, loader, player
    <2> QED BY <2>1, <2>2, <2>9 DEF TInv, TypeOK
  <1>2. Aside'
    BY SizesOK
       DEF TInv, TypeOK, Emptied, server, mgt, flags, loader, player, Aside, OnSegment,
           Seeking, Numbered, End
  <1> QED BY <1>1, <1>2 DEF TInv

LEMMA PlacedTyped ==
  ASSUME TInv, Placed
  PROVE  TInv'
  <1>1. TypeOK'
    <2>1. /\ goal \in 1..Len(list) /\ list[goal].seg # End /\ list \in Seq(Cell)
      BY DEF Placed, TInv, Aside, Seeking, TypeOK, Cell
    <2>2. list[goal] \in Cell
      BY <2>1, ElementOfSeq
    <2>3. list[goal].seg \in 1..Segs
      BY <2>1, <2>2, SizesOK DEF Cell, End
    <2>4. Pos(list[goal].seg, 1) \in Nat
      BY <2>3, PosNat, SizesOK
    <2>5. /\ call' = "idle" /\ cur' = goal /\ at' = Pos(list[goal].seg, 1)
          /\ goal \in 0..Len(list)
      BY DEF Placed, TInv, TypeOK
    <2>9. UNCHANGED <<live, numbered, pub, over, list, nextSeq, ended, freed, fifo, exit, exited, reset,
                      resetFlag, finish, pc, seg, hasEnd, off, pend, nxt, goal, stop, eof,
                      raced>>
      BY DEF Placed, server, mgt, flags, loader, player
    <2> QED BY <2>1, <2>2, <2>3, <2>4, <2>5, <2>9 DEF TInv, TypeOK
  <1>2. Aside'
    BY SizesOK
       DEF TInv, TypeOK, Placed, server, mgt, flags, loader, player, Aside, OnSegment,
           Seeking, Numbered, End
  <1> QED BY <1>1, <1>2 DEF TInv

LEMMA CloseTyped ==
  ASSUME TInv, Close
  PROVE  TInv'
  <1>1. TypeOK'
    BY SizesOK
       DEF TInv, TypeOK, Close, server, mgt, flags, loader, player, Aside, OnSegment,
           Seeking
  <1>2. Aside'
    BY SizesOK
       DEF TInv, TypeOK, Close, server, mgt, flags, loader, player, Aside, OnSegment,
           Seeking, Numbered, End
  <1> QED BY <1>1, <1>2 DEF TInv

LEMMA JoinedTyped ==
  ASSUME TInv, Joined
  PROVE  TInv'
  <1>1. TypeOK'
    BY SizesOK
       DEF TInv, TypeOK, Joined, server, mgt, flags, loader, player, Aside, OnSegment,
           Seeking
  <1>2. Aside'
    BY SizesOK
       DEF TInv, TypeOK, Joined, server, mgt, flags, loader, player, Aside, OnSegment,
           Seeking, Numbered, End
  <1> QED BY <1>1, <1>2 DEF TInv

LEMMA ClosedTyped ==
  ASSUME TInv, Closed
  PROVE  TInv'
  <1>1. TypeOK'
    BY SizesOK
       DEF TInv, TypeOK, Closed, server, mgt, flags, loader, player, Aside, OnSegment,
           Seeking, vars
  <1>2. Aside'
    BY SizesOK
       DEF TInv, TypeOK, Closed, server, mgt, flags, loader, player, Aside, OnSegment,
           Seeking, Numbered, End, vars
  <1> QED BY <1>1, <1>2 DEF TInv

LEMMA PutTyped ==
  ASSUME TInv, Put
  PROVE  TInv'
  <1> DEFINE n == Least(Space, pend)
             f == [i \in 1..n |-> Pos(seg, off - pend + i)]
  <1>1. /\ fifo \in Seq(Nat) /\ Len(fifo) <= FifoSize /\ Len(fifo) \in Nat
        /\ off \in 0..Units /\ pend \in 0..off /\ seg \in Nat \ {0}
    BY LenProperties, SizesOK DEF Put, TInv, TypeOK, Aside, OnSegment, End
  <1>2. n \in Nat /\ n <= pend /\ Len(fifo) + n <= FifoSize
    BY <1>1, SizesOK DEF Least, Space
  <1>3. f \in Seq(Nat) /\ Len(f) = n
    <2>1. \A i \in 1..n : Pos(seg, off - pend + i) \in Nat
      <3> SUFFICES ASSUME NEW i \in 1..n PROVE Pos(seg, off - pend + i) \in Nat
        OBVIOUS
      <3>1. off - pend + i \in Nat
        BY <1>1, <1>2, SizesOK
      <3> QED BY <1>1, <3>1, PosNat
    <2> HIDE DEF n
    <2> QED BY <1>2, <2>1
  <1> HIDE DEF f, n
  <1>4. fifo' = fifo \o f /\ pend' = pend - n /\ pc' = "read" /\ pc = "put"
    BY DEF Put, f, n
  <1>5. fifo' \in Seq(Nat) /\ Len(fifo') = Len(fifo) + n
    BY <1>1, <1>3, <1>4, ConcatProperties
  <1>6. UNCHANGED <<live, numbered, pub, over, list, cur, nextSeq, ended, freed, exit, exited, reset,
                    resetFlag, finish, seg, hasEnd, off, nxt, call, goal, stop, at,
                    eof, raced>>
    BY DEF Put, server, mgt, flags, player
  <1>7. TypeOK'
    <2>1. Len(fifo') <= FifoSize /\ pend' \in 0..off
      BY <1>1, <1>2, <1>4, <1>5, SizesOK
    <2> QED BY <2>1, <1>4, <1>5, <1>6 DEF TInv, TypeOK
  <1>8. Aside'
    BY <1>4, <1>6 DEF TInv, Aside, OnSegment, Seeking, Numbered
  <1> QED BY <1>7, <1>8 DEF TInv

LEMMA ReadTyped ==
  ASSUME TInv, Read
  PROVE  TInv'
  <1>1. PICK n \in 1..Len(fifo) : /\ at' = fifo[n] + 1
                                 /\ fifo' = SubSeq(fifo, n + 1, Len(fifo))
    BY DEF Read
  <1>2. fifo \in Seq(Nat) /\ Len(fifo) \in Nat /\ Len(fifo) <= FifoSize
    BY LenProperties DEF TInv, TypeOK
  <1>3. fifo' \in Seq(Nat) /\ Len(fifo') = Len(fifo) - n
    <2>1. n \in 0..Len(fifo)
      BY <1>2
    <2> QED BY <1>1, <1>2, <2>1, TailFrom
  <1>4. Len(fifo') <= FifoSize
    BY <1>2, <1>3, SizesOK
  <1>5. at' \in Nat
    BY <1>1, <1>2, ElementOfSeq
  <1>6. UNCHANGED <<live, numbered, pub, over, list, cur, nextSeq, ended, freed, exit, exited, reset,
                    resetFlag, finish, pc, seg, hasEnd, off, pend, nxt, call, goal, stop,
                    raced>>
    BY DEF Read, server, mgt, flags, loader
  <1>7. TypeOK'
    <2>1. eof' \in BOOLEAN /\ fifo' \in Seq(Nat)
      BY <1>3 DEF Read
    <2> QED BY <2>1, <1>4, <1>5, <1>6 DEF TInv, TypeOK
  <1>8. Aside'
    BY <1>6 DEF TInv, Aside, OnSegment, Seeking, Numbered
  <1> QED BY <1>7, <1>8 DEF TInv

LEMMA ReloadTyped ==
  ASSUME TInv, Reload
  PROVE  TInv'
  <1>1. TypeOK /\ Numbered
    BY DEF TInv, Aside
  <1>2. PICK lo \in {Oldest, Oldest + 1}, first \in Nat, gone \in Nat, c \in Nat :
          LoadedAgain(lo, first, gone, c)
    BY <1>1, Reloaded
  <1> DEFINE all == All(lo, first)
             len == Len(list) + Shown(lo)
  <1>3. /\ Shown(lo) \in Nat /\ lo \in Nat /\ all \in Seq(Cell) /\ Len(all) = len
        /\ \A k \in 1..Shown(lo) : Line(lo, k) \in 0..pub
        /\ \A i \in 1..Len(list) : all[i] = list[i]
        /\ \A k \in 1..Shown(lo) :
             all[Len(list) + k] = Item(Line(lo, k), SeqOf(first, k))
    BY <1>1, JoinedList
  <1>a. /\ c <= len /\ first >= nextSeq
        /\ nextSeq' = NextOf(first, Shown(lo)) /\ cur' = c - gone
        /\ IF c = 0 THEN gone = 0 ELSE gone < c
        /\ ended' = (ended \/ over)
        /\ ended' => gone = 0
    BY <1>2 DEF LoadedAgain
  <1>4. Len(list) \in Nat /\ len \in Nat /\ gone \in 0..len
    <2>1. Len(list) \in Nat
      BY <1>1, LenProperties DEF TypeOK
    <2> QED BY <2>1, <1>3, <1>a
  <1> HIDE DEF all
  <1>5. /\ list' \in Seq(Cell) /\ Len(list') = len - gone
        /\ \A i \in 1..len - gone : list'[i] = all[gone + i]
    <2>1. list' = SubSeq(all, gone + 1, Len(all)) /\ gone \in 0..Len(all)
      BY <1>2, <1>3, <1>4 DEF all, LoadedAgain
    <2> DEFINE rest == SubSeq(all, gone + 1, Len(all))
    <2>2. /\ rest \in Seq(Cell) /\ Len(rest) = Len(all) - gone
          /\ \A i \in 1..Len(all) - gone : rest[i] = all[gone + i]
      BY <1>3, <2>1, TailFrom
    <2> HIDE DEF rest
    <2>3. list' = rest /\ Len(all) = len
      BY <1>3, <2>1 DEF rest
    <2> QED BY <2>2, <2>3
  <1>6. cur' \in 0..Len(list') /\ nextSeq' \in Nat \cup {-1}
    <2>1. nextSeq' \in Nat \cup {-1}
      BY <1>3, <1>a, NumbersTyped
    <2>2. c - gone \in 0..len - gone
      BY <1>4, <1>a
    <2> QED BY <2>1, <2>2, <1>5, <1>a
  <1>7. nxt' \in 0..Len(list') /\ (pc' = "switched" \/ (pc' = "switch" /\ nxt' = 0))
    <2>1. After(cur', Len(list'), ended')
      BY <1>2, <1>3, <1>5 DEF all, LoadedAgain
    <2>2. nxt = 0 /\ pc = "switch"
      BY DEF Reload, TInv, Aside
    <2> QED BY <2>1, <2>2, <1>4, <1>5, <1>6 DEF After, Returns
  <1>8. UNCHANGED <<live, numbered, pub, over, freed, fifo, exit, exited, reset, resetFlag, finish, seg,
                    hasEnd, off, pend, call, goal, stop, at, eof, raced>>
    BY DEF Reload, server, flags, player
  <1>9. ended' \in BOOLEAN /\ Numbered'
    <2>1. ended' \in BOOLEAN
      BY <1>1, <1>a DEF TypeOK
    <2>2. CASE numbered = "none"
      <3>1. nextSeq' = -1 /\ numbered' = "none"
        BY <2>2, <1>8, <1>a DEF NextOf
      <3> QED BY <2>1, <3>1 DEF Numbered
    <2>3. CASE numbered # "none"
      <3>1. /\ nextSeq' = first + Shown(lo) /\ nextSeq \in Nat
            /\ \A i \in 1..Len(list) : list[i].seq < nextSeq
        BY <2>3, <1>1, <1>a DEF NextOf, Numbered
      <3>2. nextSeq' \in Nat /\ nextSeq <= nextSeq'
        BY <1>3, <1>a, <3>1
      <3>3. ASSUME NEW i \in 1..Len(list')
            PROVE  list'[i].seq < nextSeq'
        <4>1. gone + i \in 1..len /\ list'[i] = all[gone + i]
          BY <1>4, <1>5
        <4>2. CASE gone + i <= Len(list)
          <5>1. all[gone + i] = list[gone + i] /\ gone + i \in 1..Len(list)
            BY <1>3, <1>4, <4>1, <4>2
          <5>2. list[gone + i] \in Cell
            BY <1>1, <5>1, ElementOfSeq DEF TypeOK, Cell
          <5>3. list[gone + i].seq < nextSeq /\ list[gone + i].seq \in Int
            BY <3>1, <5>1, <5>2 DEF Cell
          <5> QED BY <4>1, <5>1, <5>3, <3>1, <3>2
        <4>3. CASE ~(gone + i <= Len(list))
          <5> DEFINE k == gone + i - Len(list)
          <5>1. k \in 1..Shown(lo) /\ gone + i = Len(list) + k
            BY <1>3, <1>4, <4>1, <4>3
          <5>2. all[gone + i].seq = first + k - 1
            <6>1. all[gone + i] = Item(Line(lo, k), SeqOf(first, k))
              BY <1>3, <5>1
            <6>2. all[gone + i].seq = SeqOf(first, k)
              BY <6>1 DEF Item
            <6> HIDE DEF k
            <6> QED BY <2>3, <6>2 DEF SeqOf
          <5>3. k \in Nat /\ k <= Shown(lo)
            BY <1>3, <5>1
          <5> HIDE DEF k
          <5> QED BY <1>3, <3>1, <4>1, <5>2, <5>3
        <4> QED BY <4>2, <4>3
      <3> QED BY <2>1, <2>3, <3>2, <3>3, <1>8 DEF Numbered
    <2> QED BY <2>2, <2>3
  <1>10. goal \in 0..Len(list') /\ (Seeking => goal \in 1..Len(list') /\ list'[goal].seg # End)
    <2>1. CASE live
      <3>1. goal = 0 /\ ~Seeking
        BY <2>1 DEF TInv, Aside
      <3> QED BY <3>1, <1>4, <1>5
    <2>2. CASE ~live
      <3>1. ended' /\ gone = 0
        BY <2>2, <1>a DEF TInv, Aside
      <3>2. goal \in 0..Len(list) /\ len >= Len(list) /\ Len(list') = len
        BY <3>1, <1>1, <1>3, <1>4, <1>5 DEF TypeOK
      <3>3. goal # 0 => list'[goal] = list[goal]
        BY <3>1, <3>2, <1>3, <1>4, <1>5
      <3> QED BY <3>2, <3>3, <1>4 DEF TInv, Aside
    <2> QED BY <2>1, <2>2
  <1>11. TypeOK'
    BY <1>1, <1>5, <1>6, <1>7, <1>8, <1>9, <1>10 DEF TypeOK, Cell
  <1>12. Aside'
    <2>1. Aside
      BY DEF TInv
    <2>2. ~OnSegment' /\ (pc' # "switched" => nxt' = 0)
      BY <1>7 DEF OnSegment
    <2> QED BY <2>1, <2>2, <1>8, <1>9, <1>10 DEF Aside, Seeking, Numbered
  <1> QED BY <1>11, <1>12 DEF TInv

LEMMA InitTyped ==
  ASSUME Init
  PROVE  TInv
  <1>1. live \in BOOLEAN /\ over = ~live /\ pub \in 1..Segs /\ pub = IF live THEN Window ELSE Segs
    BY SizesOK DEF Init
  <1>2. over \in BOOLEAN
    BY <1>1
  <1>3. /\ Oldest \in 1..pub /\ Lines \in Seq(Int)
        /\ Lines = [k \in 1..Shown(Oldest) |-> Line(Oldest, k)]
    BY <1>1, <1>2, LinesAre
  <1>4. Oldest = 1 /\ pub \in Nat /\ pub >= 1
    BY <1>1, SizesOK DEF Oldest
  <1>5. Shown(Oldest) \in Nat /\ Shown(Oldest) >= pub /\ Len(Lines) = Shown(Oldest)
    <2>1. Shown(Oldest) \in Nat /\ Shown(Oldest) >= pub
      BY <1>4 DEF Shown
    <2> QED BY <2>1, <1>3
  <1>6. ASSUME NEW k \in 1..Len(Lines)
        PROVE  /\ Lines[k] \in 0..Segs
               /\ Item(Lines[k], IF numbered = "none" THEN -1 ELSE k) \in Cell
               /\ k <= pub => Lines[k] = k
    <2>1. Lines[k] = Line(1, k) /\ k \in Nat /\ k >= 1
      BY <1>3, <1>4, <1>5
    <2>2. k <= pub => Lines[k] = k
      BY <1>1, <1>4, <2>1, SizesOK DEF Line, End
    <2>3. Lines[k] \in 0..Segs
      BY <1>1, <1>4, <2>1, SizesOK DEF Line, End
    <2> QED BY <2>1, <2>2, <2>3 DEF Item, Cell
  <1>7. list = [k \in 1..Len(Lines) |->
                  Item(Lines[k], IF numbered = "none" THEN -1 ELSE k)]
    BY DEF Init
  <1>8. list \in Seq(Cell) /\ Len(list) = Len(Lines)
    BY <1>5, <1>6, <1>7
  <1>9. \A k \in 1..Len(list) :
          list[k].seg = Lines[k] /\ (numbered # "none" => list[k].seq = k)
    <2>1. \A k \in 1..Len(list) :
            list[k] = Item(Lines[k], IF numbered = "none" THEN -1 ELSE k)
      BY <1>7, <1>8
    <2>2. \A s, q : Item(s, q).seg = s /\ Item(s, q).seq = q
      BY DEF Item
    <2> QED BY <2>1, <2>2
  <1>10. cur \in 0..pub
    <2>1. CASE live
      <3>1. pub = Window /\ cur \in Starts
        BY <2>1, <1>1 DEF Init
      <3>2. Window \div 2 + 2 \in Nat
        BY SizesOK
      <3> QED BY <3>1, <3>2, SizesOK DEF Starts
    <2>2. CASE ~live
      BY <2>2, <1>4 DEF Init
    <2> QED BY <1>1, <2>1, <2>2
  <1>11. cur \in 0..Len(list)
    BY <1>4, <1>5, <1>8, <1>10
  <1>12. at \in Nat
    <2>1. CASE cur = 0
      BY <2>1 DEF Init
    <2>2. CASE cur # 0
      <3>1. cur \in 1..Len(list) /\ list[cur].seg = cur /\ cur \in Nat \ {0}
        BY <2>2, <1>4, <1>5, <1>6, <1>8, <1>9, <1>10
      <3>2. Pos(cur, 1) \in Nat
        BY <3>1, PosNat
      <3> QED BY <2>2, <3>1, <3>2 DEF Init
    <2> QED BY <2>1, <2>2
  <1>13. nextSeq = (IF numbered = "none" THEN -1 ELSE Len(list) + 1)
         /\ nextSeq \in Nat \cup {-1}
    BY <1>5, <1>8 DEF Init
  <1>14. Numbered
    BY <1>5, <1>8, <1>9, <1>13 DEF Numbered
  <1>15. fifo \in Seq(Nat) /\ Len(fifo) <= FifoSize
    <2>1. << >> \in Seq(Nat) /\ Len(<< >>) = 0 /\ 0 <= FifoSize
      BY EmptySeq, SizesOK
    <2>2. fifo = << >>
      BY DEF Init
    <2> QED BY <2>1, <2>2
  <1>16. /\ ended \in BOOLEAN /\ freed \in BOOLEAN /\ numbered \in Numberings
         /\ exit \in BOOLEAN /\ exited \in BOOLEAN
         /\ reset \in BOOLEAN /\ resetFlag = -1 /\ finish \in BOOLEAN
         /\ pc = "top" /\ seg = 0 /\ hasEnd \in BOOLEAN /\ off = 0 /\ pend = 0
         /\ nxt = 0 /\ call = "idle" /\ goal = 0 /\ stop \in BOOLEAN
         /\ eof \in BOOLEAN /\ raced \in BOOLEAN
    BY <1>2 DEF Init, End
  <1>17. 0 \in 0..Len(list) /\ 0 \in 0..Segs /\ 0 \in 0..Units
    BY <1>5, <1>8, SizesOK
  <1>18. TypeOK
    BY <1>1, <1>2, <1>8, <1>11, <1>12, <1>13, <1>15, <1>16, <1>17 DEF TypeOK, Cell
  <1>19. Aside
    BY <1>1, <1>14, <1>16 DEF Aside, OnSegment, Seeking
  <1> QED BY <1>18, <1>19 DEF TInv

(* No step breaks it.                                                      *)
LEMMA NextTyped ==
  ASSUME TInv, [Next]_vars
  PROVE  TInv'
  <1>1. CASE UNCHANGED vars
    BY <1>1 DEF vars, server, mgt, flags, loader, player, TInv, TypeOK, Aside,
       OnSegment, Seeking, Numbered
  <1>2. CASE OpenAgain \/ FetchAgain
    BY <1>1, <1>2 DEF OpenAgain, FetchAgain
  <1>3. CASE Next /\ ~OpenAgain /\ ~FetchAgain
    BY <1>3, TopTyped, GetTyped, BeginTyped, OpenTyped, OpenGoneTyped, OpenFailsTyped,
       LeaveTyped, FetchTyped, FetchEndsTyped, PutRestTyped, PutTyped, SkipTyped,
       SwitchNextTyped, ReloadTyped, TooEarlyTyped, ReloadFailsTyped,
       SwitchStoppedTyped, SwitchedTyped, PublishTyped, FinishTyped, InterruptTyped,
       ReadTyped, ReadEndTyped, SeekTyped, ResetTyped, EmptiedTyped, PlacedTyped,
       JoinedTyped, CloseTyped, ClosedTyped
       DEF Next, Download, Reads, Carry
  <1> QED BY <1>1, <1>2, <1>3

LEMMA AlwaysTyped == Spec => []TInv
  BY InitTyped, NextTyped, PTL DEF Spec

(* TypeOK: whatever the two threads do, in whatever order, current_item    *)
(* and the items they remember are in the list, also when loading it again *)
(* has removed items and moved current_item; the fifo stays within its     *)
(* bound. For a list with and a list without an end, for any sizes.        *)
THEOREM ListTyped == Spec => []TypeOK
  <1>1. TInv => TypeOK
    BY DEF TInv
  <1> QED BY <1>1, AlwaysTyped, PTL
-----------------------------------------------------------------------------
(* The numbers of the items. *)

(* Only loading the list again changes the items or what the next is given. *)
LEMMA ListStays ==
  ASSUME [Next]_vars, ~Reload
  PROVE  list' = list /\ nextSeq' = nextSeq
  <1>1. CASE UNCHANGED vars
    BY <1>1 DEF vars, mgt
  <1>2. CASE OpenAgain \/ FetchAgain
    BY <1>1, <1>2 DEF OpenAgain, FetchAgain
  <1>3. CASE Next /\ ~OpenAgain /\ ~FetchAgain
    BY <1>3
       DEF Next, Download, Reads, Carry, vars, mgt, Publish, Finish, Interrupt,
           Top, Get, Begin, Open, OpenGone, OpenFails, Leave, Fetch, FetchEnds,
           PutRest, Put, Skip, SwitchNext, TooEarly, ReloadFails, SwitchStopped,
           Switched, Read, ReadEnd, Seek, Reset, Emptied, Placed, Joined, Close,
           Closed
  <1> QED BY <1>1, <1>2, <1>3

LEMMA NumberedStays ==
  ASSUME [Next]_vars
  PROVE  numbered' = numbered
  <1>1. CASE UNCHANGED vars
    BY <1>1 DEF vars, server
  <1>2. CASE OpenAgain \/ FetchAgain
    BY <1>1, <1>2 DEF OpenAgain, FetchAgain
  <1>3. CASE Next /\ ~OpenAgain /\ ~FetchAgain
    BY <1>3
       DEF Next, Download, Reads, Carry, vars, server, Publish, Finish, Interrupt,
           Top, Get, Begin, Open, OpenGone, OpenFails, Leave, Fetch, FetchEnds,
           PutRest, Put, Skip, SwitchNext, Reload, TooEarly, ReloadFails,
           SwitchStopped, Switched, Read, ReadEnd, Seek, Reset, Emptied, Placed,
           Joined, Close, Closed
  <1> QED BY <1>1, <1>2, <1>3

(* What follows rising numbers, from where they end, rises with them; and  *)
(* items without a number are followed by such items.                      *)
LEMMA SeqsReloaded ==
  ASSUME TInv, SeqsRise, Reload
  PROVE  SeqsRise'
  <1>0. numbered' = numbered
    BY DEF Reload, server
  <1>1. PICK lo \in {Oldest, Oldest + 1}, first \in Nat, gone \in Nat, c \in Nat :
          LoadedAgain(lo, first, gone, c)
    BY Reloaded DEF TInv, Aside
  <1> DEFINE all == All(lo, first)
             len == Len(list) + Shown(lo)
  <1>2. /\ Shown(lo) \in Nat /\ Len(list) \in Nat
        /\ all \in Seq(Cell) /\ Len(all) = len
        /\ \A i \in 1..Len(list) : all[i] = list[i]
        /\ \A k \in 1..Shown(lo) : all[Len(list) + k].seq = SeqOf(first, k)
    <2>1. /\ Shown(lo) \in Nat /\ all \in Seq(Cell) /\ Len(all) = len
          /\ \A i \in 1..Len(list) : all[i] = list[i]
          /\ \A k \in 1..Shown(lo) :
               all[Len(list) + k] = Item(Line(lo, k), SeqOf(first, k))
      BY JoinedList DEF TInv
    <2>2. Len(list) \in Nat
      BY LenProperties DEF TInv, TypeOK
    <2>3. \A s, q : Item(s, q).seq = q
      BY DEF Item
    <2> HIDE DEF all
    <2> QED BY <2>1, <2>2, <2>3
  <1>3. /\ first >= nextSeq /\ nextSeq' = NextOf(first, Shown(lo))
        /\ list' = SubSeq(all, gone + 1, Len(all))
        /\ gone \in 0..len
    <2>1. /\ first >= nextSeq /\ nextSeq' = NextOf(first, Shown(lo))
          /\ list' = SubSeq(all, gone + 1, Len(all))
          /\ c <= len /\ IF c = 0 THEN gone = 0 ELSE gone < c
      BY <1>1 DEF LoadedAgain
    <2> HIDE DEF all
    <2> QED BY <1>2, <2>1
  <1> HIDE DEF all
  <1>4. ASSUME NEW i \in 1..len
        PROVE  IF i <= Len(list) THEN all[i].seq = list[i].seq
                                 ELSE all[i].seq = SeqOf(first, i - Len(list))
    <2>1. CASE i <= Len(list)
      BY <1>2, <2>1
    <2>2. CASE ~(i <= Len(list))
      <3>1. i - Len(list) \in 1..Shown(lo) /\ i = Len(list) + (i - Len(list))
        BY <1>2, <2>2
      <3> QED BY <1>2, <2>2, <3>1
    <2> QED BY <2>1, <2>2
  <1>7. /\ Len(list') = len - gone
        /\ \A i \in 1..len - gone : list'[i] = all[gone + i]
    <2>1. all \in Seq(Cell) /\ Len(all) = len /\ gone \in 0..Len(all)
      BY <1>2, <1>3
    <2>2. list' = SubSeq(all, gone + 1, Len(all))
      BY <1>3
    <2> HIDE DEF len
    <2> QED BY <2>1, <2>2, TailFrom
  <1>8. ASSUME NEW i \in 1..len - gone
        PROVE  gone + i \in 1..len /\ list'[i] = all[gone + i]
    <2>1. i \in 1 - gone..len - gone /\ len \in Int /\ gone \in Int
      BY <1>2, <1>3
    <2>2. gone + i \in 1..len
      BY <2>1, Shifted
    <2> QED BY <1>7, <2>2
  <1>9. CASE numbered = "none"
    <2>1. nextSeq' = -1
      BY <1>3, <1>9 DEF NextOf
    <2>2. \A i \in 1..Len(list) : list[i].seq = -1
      BY <1>9 DEF SeqsRise
    <2>3. ASSUME NEW i \in 1..len
          PROVE  all[i].seq = -1
      <3>1. i <= Len(list) => i \in 1..Len(list)
        BY <1>2
      <3> QED BY <1>4, <1>9, <2>2, <3>1 DEF SeqOf
    <2>4. \A i \in 1..Len(list') : list'[i].seq = -1
      BY <1>7, <1>8, <2>3
    <2> QED BY <1>0, <1>9, <2>1, <2>4 DEF SeqsRise
  <1>10. CASE numbered # "none"
    <2>1. nextSeq \in Nat /\ nextSeq' = first + Shown(lo)
      BY <1>3, <1>10 DEF TInv, Aside, Numbered, NextOf
    <2>2. nextSeq' \in Nat /\ nextSeq <= nextSeq' /\ nextSeq <= first
      <3>1. Shown(lo) \in Nat /\ first >= nextSeq
        BY <1>2, <1>3
      <3> QED BY <2>1, <3>1
    <2>3. \A k \in Int : SeqOf(first, k) = first + k - 1
      BY <1>10 DEF SeqOf
    <2>5. \A i \in 1..Len(list) : list[i].seq \in Int /\ list[i].seq < nextSeq
      <3>1. list \in Seq(Cell)
        BY DEF TInv, TypeOK, Cell
      <3>2. \A i \in 1..Len(list) : list[i] \in Cell
        BY <3>1, ElementOfSeq
      <3>3. \A i \in 1..Len(list) : list[i].seq \in Nat \cup {-1}
        BY <3>2 DEF Cell
      <3>4. \A i \in 1..Len(list) : list[i].seq < nextSeq
        BY <1>10 DEF SeqsRise
      <3> QED BY <3>3, <3>4
    (* The joined list rises, up to the new next_seq. *)
    <2>6. ASSUME NEW i \in 1..len
          PROVE  /\ all[i].seq < nextSeq'
                 /\ \A j \in 1..i - 1 : all[j].seq < all[i].seq
      <3>1. i \in Nat /\ i >= 1 /\ i <= len /\ len = Len(list) + Shown(lo)
        BY <1>2
      <3>2. CASE i <= Len(list)
        <4>1. all[i].seq = list[i].seq /\ list[i].seq \in Int /\ list[i].seq < nextSeq
          BY <1>2, <1>4, <2>5, <3>1, <3>2
        <4>3. ASSUME NEW j \in 1..i - 1
              PROVE  all[j].seq < all[i].seq
          <5>1. j \in 1..Len(list) /\ i \in 1..Len(list)
            BY <1>2, <3>1, <3>2
          <5>2. list[j].seq < list[i].seq
            BY <1>10, <5>1 DEF SeqsRise
          <5> QED BY <1>2, <5>1, <5>2
        <4> QED BY <2>1, <2>2, <4>1, <4>3
      <3>3. CASE ~(i <= Len(list))
        <4>1. all[i].seq = first + (i - Len(list)) - 1
          <5>1. all[i].seq = SeqOf(first, i - Len(list))
            BY <1>4, <3>3
          <5>2. i - Len(list) \in Int
            BY <1>2
          <5> HIDE DEF len
          <5> QED BY <2>3, <5>1, <5>2
        <4>2. all[i].seq < nextSeq'
          BY <1>2, <2>1, <3>1, <4>1
        <4>3. ASSUME NEW j \in 1..i - 1
              PROVE  all[j].seq < all[i].seq
          <5>1. j \in 1..len
            BY <1>2, <3>1
          <5>2. CASE j <= Len(list)
            <6>1. all[j].seq = list[j].seq /\ j \in 1..Len(list)
              BY <1>2, <1>4, <5>1, <5>2
            <6>2. all[j].seq \in Int /\ all[j].seq < nextSeq
              BY <2>5, <6>1
            <6>3. all[i].seq \in Nat /\ first <= all[i].seq
              BY <1>2, <3>1, <3>3, <4>1
            <6> HIDE DEF len
            <6> QED BY <2>1, <2>2, <6>2, <6>3
          <5>3. CASE ~(j <= Len(list))
            <6>1. all[j].seq = first + (j - Len(list)) - 1
              <7>1. all[j].seq = SeqOf(first, j - Len(list))
                BY <1>4, <5>1, <5>3
              <7>2. j - Len(list) \in Int
                BY <1>2
              <7> HIDE DEF len
              <7> QED BY <2>3, <7>1, <7>2
            <6> QED BY <1>2, <3>1, <4>1, <6>1
          <5> QED BY <5>2, <5>3
        <4> QED BY <4>2, <4>3
      <3> QED BY <3>2, <3>3
    <2>7. ASSUME NEW i \in 1..len - gone
          PROVE  /\ list'[i].seq < nextSeq'
                 /\ \A j \in 1..i - 1 : list'[j].seq < list'[i].seq
      <3>1. ASSUME NEW j \in 1..i - 1
            PROVE  list'[j].seq < list'[i].seq
        <4>1. j \in 1..len - gone /\ gone + j \in 1..(gone + i) - 1
          <5>1. len \in Nat /\ gone \in 0..len
            BY <1>2, <1>3
          <5> HIDE DEF len
          <5> QED BY <5>1
        <4> QED BY <1>7, <1>8, <2>6, <4>1
      <3> QED BY <1>8, <2>6, <3>1
    <2> QED BY <1>0, <1>7, <1>10, <2>7 DEF SeqsRise
  <1> QED BY <1>9, <1>10

(* SeqsRise: whatever window of a list the server shows, whether it tells  *)
(* its media sequence each time or only when the list is opened, the items *)
(* that a reload adds get numbers above all the others, so that what       *)
(* list_test_and_add_item looks for is never there; and of a list that     *)
(* never tells it no item gets a number.                                   *)
THEOREM ListNumbered == Spec => []SeqsRise
  <1>1. ASSUME Init
        PROVE  SeqsRise
    <2>1. list = [i \in 1..Len(Lines) |->
                    Item(Lines[i], IF numbered = "none" THEN -1 ELSE i)]
      BY <1>1 DEF Init
    <2>2. Len(Lines) \in Nat
      <3>1. pub \in 1..Segs /\ live \in BOOLEAN /\ over \in BOOLEAN
        BY <1>1, SizesOK DEF Init
      <3>2. Lines \in Seq(Int)
        BY <3>1, LinesAre
      <3> QED BY <3>2, LenProperties
    <2>3. \A s, q : Item(s, q).seq = q
      BY DEF Item
    <2>4. /\ Len(list) = Len(Lines)
          /\ \A i \in 1..Len(list) :
               list[i].seq = IF numbered = "none" THEN -1 ELSE i
      BY <2>1, <2>2, <2>3
    <2>5. nextSeq = IF numbered = "none" THEN -1 ELSE Len(list) + 1
      BY <1>1, <2>4 DEF Init
    <2> QED BY <2>2, <2>4, <2>5 DEF SeqsRise
  <1>2. ASSUME TInv, SeqsRise, [Next]_vars
        PROVE  SeqsRise'
    BY <1>2, SeqsReloaded, ListStays, NumberedStays DEF SeqsRise
  <1> QED BY <1>1, <1>2, AlwaysTyped, PTL DEF Spec
=============================================================================
