---------------------------- MODULE LineWrapper ----------------------------
(***************************************************************************)
(* Class LineWrapper (bin/optionparser.h): breaks text into lines of a     *)
(* given width and queues them in a ring buffer, so that they can be       *)
(* written between the lines of other columns.                             *)
(***************************************************************************)
EXTENDS ScreenText

CONSTANT bufmask        \* the last index of the buffer, 15 in the code

ASSUME BufmaskAssumption == bufmask \in Nat \ {0}

(* head is the next slot to write, tail the one before the next to read.   *)
LineWrapper(x1, x2) ==
    [buf |-> [i \in 0..bufmask |-> << >>], x |-> x1, width |-> upmax(x2 - x1, 2),
     head |-> 0, tail |-> bufmask, wrote_something |-> FALSE]

After(i) == IF i = bufmask THEN 0 ELSE i + 1        \* (i + 1) & bufmask

buf_empty(w) == After(w.tail) = w.head

MutFull(w) == After(w.head) = w.tail
buf_full(w)  == w.tail = w.head

buf_store(w, data) == [w EXCEPT !.buf[w.head] = data, !.head = After(w.head)]

buf_next(w) == [w EXCEPT !.tail = After(w.tail)]

(* write_one_line(): what it writes, and what becomes of the wrapper.      *)
line_break(w) == IF w.wrote_something THEN <<NL>> \o indentation(0, w.x) ELSE << >>

one_line(w) ==
    line_break(w) \o (IF buf_empty(w) THEN << >> ELSE w.buf[After(w.tail)])

line_written(w) ==
    [(IF buf_empty(w) THEN w ELSE buf_next(w)) EXCEPT !.wrote_something = TRUE]

(* The loop of process(): how much of data goes on a line of its own, and  *)
(* whether the character behind that, a space, is left out.                *)
MutFitting(data, width) ==
    CHOOSE n \in 0..Len(data) :
        /\ Len(SubSeq(data, 1, n)) <= width
        /\ n < Len(data) => Len(SubSeq(data, 1, n + 1)) > width
Fitting(data, width) ==
    CHOOSE n \in 0..Len(data) :
        /\ Columns(SubSeq(data, 1, n)) <= width
        /\ n < Len(data) => Columns(SubSeq(data, 1, n + 1)) > width

MutSplit(data, width) ==
    LET n == Fitting(data, width)
    IN  [line |-> SubSeq(data, 1, n), rest |-> SubSeq(data, n + 2, Len(data))]
Split(data, width) ==
    LET maxi   == Fitting(data, width)
        spaces == {i \in 1..maxi + 1 : data[i] = SPACE}
    IN  IF Bytes(data) <= width \/ maxi = Len(data)
        THEN [line |-> data, rest |-> << >>]
        ELSE IF spaces # {}
        THEN [line |-> SubSeq(data, 1, Max(spaces) - 1),
              rest |-> SubSeq(data, Max(spaces) + 1, Len(data))]
        ELSE [line |-> SubSeq(data, 1, maxi), rest |-> SubSeq(data, maxi + 1, Len(data))]

(* The lines that wait, first in first out.                                *)
Slot(w, i) == IF w.tail + i > bufmask THEN w.tail + i - bufmask - 1 ELSE w.tail + i

Waiting(w) ==
    LET n == IF w.head > w.tail THEN w.head - w.tail - 1 ELSE w.head - w.tail + bufmask
    IN  [i \in 1..n |-> w.buf[Slot(w, i)]]

=============================================================================
