------------------------------ MODULE FlatText ------------------------------
(***************************************************************************)
(* What a user of JOVE sees of the buffer being edited: one sequence of    *)
(* characters, some of them line separators, a point and marks between     *)
(* them, and the text killed last.                                         *)
(*                                                                         *)
(* A step is stated of the records a and b of the four variables before    *)
(* and after it.                                                           *)
(***************************************************************************)
EXTENDS Integers, Sequences

CONSTANTS
  NL,         \* the line separator
  Mark        \* the marks

VARIABLES
  text,       \* a sequence of characters and NL
  point,      \* how many characters are before the point
  place,      \* how many are before each mark
  killed      \* the newest kill, a sequence like text

vars == <<text, point, place, killed>>

Seen == [text |-> text, point |-> point, place |-> place, killed |-> killed]

Upto(t, i)     == SubSeq(t, 1, i)
From(t, i)     == SubSeq(t, i + 1, Len(t))
Piece(t, i, j) == SubSeq(t, i + 1, j)

Init ==
  /\ text = <<>> /\ killed = <<>>
  /\ point = 0
  /\ place = [m \in Mark |-> 0]

(* t is put in at the point.  A mark after the point moves along, one at   *)
(* the point stays before the new text.                                    *)
Inserted(a, b, t) ==
  /\ b.text = Upto(a.text, a.point) \o t \o From(a.text, a.point)
  /\ b.place = [m \in Mark |-> a.place[m] + IF a.place[m] > a.point THEN Len(t) ELSE 0]

Insert(a, b) ==
  /\ Inserted(a, b, Piece(b.text, a.point, b.point))
  /\ b.killed = a.killed

Open(a, b) ==
  /\ Inserted(a, b, [k \in 1..(Len(b.text) - Len(a.text)) |-> NL])
  /\ b.point = a.point /\ b.killed = a.killed

(* What is between i and j goes; a mark in there is left at i.             *)
Removed(a, b, i, j) ==
  /\ b.text = Upto(a.text, i) \o From(a.text, j)
  /\ b.place = [m \in Mark |-> IF a.place[m] > j THEN a.place[m] - (j - i)
                               ELSE IF a.place[m] > i THEN i ELSE a.place[m]]
  /\ b.point = i

(* A delete takes one character and keeps it nowhere.                      *)
Delete(a, b, i) == Removed(a, b, i, i + 1) /\ b.killed = a.killed

(* A kill is a new one, or joins the last kill on the side it came from.   *)
(* The point is at one end of it.                                          *)
Kill(a, b, i, j) ==
  /\ Removed(a, b, i, j)
  /\ b.killed \in {Piece(a.text, i, j)}
                    \cup (IF a.point \in {i, j}
                          THEN {a.killed \o Piece(a.text, i, j), Piece(a.text, i, j) \o a.killed}
                          ELSE {})

Copy(a, b, i, j) ==
  b = [a EXCEPT !.killed = Piece(a.text, i, j)]

(* The killed text is put in; one mark is set where it begins.             *)
Yank(a, b) ==
  /\ b.text = Upto(a.text, a.point) \o a.killed \o From(a.text, a.point)
  /\ b.point = a.point + Len(a.killed)
  /\ b.killed = a.killed
  /\ \E m \in Mark :
       b.place = [k \in Mark |-> IF k = m THEN a.point
                                 ELSE IF a.place[k] > a.point THEN a.place[k] + Len(a.killed)
                                 ELSE a.place[k]]

Move(a, b)     == b = [a EXCEPT !.point = b.point] /\ b.point \in 0..Len(a.text)
Set(a, b, m)   == b = [a EXCEPT !.place[m] = a.point]
Exch(a, b, m)  == b = [a EXCEPT !.point = a.place[m], !.place[m] = a.point]

Edit(a, b) ==
  \/ Move(a, b)
  \/ Insert(a, b) \/ Open(a, b) \/ Yank(a, b)
  \/ \E i \in 0..(Len(a.text) - 1) : Delete(a, b, i)
  \/ \E i, j \in 0..Len(a.text) : i < j /\ (Kill(a, b, i, j) \/ Copy(a, b, i, j))
  \/ \E m \in Mark : Set(a, b, m) \/ Exch(a, b, m)

Next == \E a \in {Seen}, b \in {Seen'} : Edit(a, b)

Spec == Init /\ [][Next]_vars
=============================================================================
