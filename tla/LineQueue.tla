----------------------------- MODULE LineQueue -----------------------------
(***************************************************************************)
(* What a LineWrapper is for the text written around it: a queue of at     *)
(* most Capacity lines.  Each line that leaves it is written to the end of *)
(* the text, behind nothing but blanks; a line that finds the queue full   *)
(* pushes out the first.                                                   *)
(***************************************************************************)
EXTENDS Integers, Sequences

CONSTANTS
    Capacity,
    Blank       \* spaces and line breaks

VARIABLES
    waiting,    \* the lines that wait
    text        \* what has been written

vars == <<waiting, text>>

Init == waiting = << >> /\ text = << >>

Extended == Len(text') >= Len(text) /\ SubSeq(text', 1, Len(text)) = text

Written(line) ==
    /\ Extended /\ Len(text') >= Len(text) + Len(line)
    /\ SubSeq(text', Len(text') - Len(line) + 1, Len(text')) = line
    /\ \A i \in Len(text) + 1..Len(text') - Len(line) : text'[i] \in Blank

(* The queue becomes q with one more line behind it.                       *)
Longer(q) == Len(waiting') = Len(q) + 1 /\ SubSeq(waiting', 1, Len(q)) = q

Put == Len(waiting) < Capacity /\ Longer(waiting) /\ UNCHANGED text

PutFull == Len(waiting) = Capacity /\ Written(Head(waiting)) /\ Longer(Tail(waiting))

Take == waiting # << >> /\ Written(Head(waiting)) /\ waiting' = Tail(waiting)

Elsewhere == Extended /\ UNCHANGED waiting

Next == Put \/ PutFull \/ Take \/ Elsewhere

Spec == Init /\ [][Next]_vars

=============================================================================
