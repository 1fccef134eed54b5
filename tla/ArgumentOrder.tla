---------------------------- MODULE ArgumentOrder ----------------------------
(***************************************************************************)
(* What parsing an argument vector may do to its order: the arguments are  *)
(* gone through once from the left, each is either taken, as an option or  *)
(* the argument of one, or left for the program, and both kinds keep their *)
(* order.  Whenever the vector is gone through anew, it holds what was     *)
(* taken, then what was left, then what has not been looked at.            *)
(***************************************************************************)
EXTENDS Sequences, Naturals

CONSTANT Arguments      \* the arguments

VARIABLES
    taken,      \* arguments taken
    left,       \* arguments left
    rest        \* arguments not looked at yet

vars == <<taken, left, rest>>

Init ==
    /\ taken = << >> /\ left = << >>
    /\ rest \in Seq(Arguments)

Take ==
    \E n \in 1..2 :
        /\ n <= Len(rest)
        /\ taken' = taken \o SubSeq(rest, 1, n)
        /\ rest' = SubSeq(rest, n + 1, Len(rest))
        /\ UNCHANGED left

Leave ==
    /\ rest # << >>
    /\ left' = Append(left, Head(rest))
    /\ rest' = Tail(rest)
    /\ UNCHANGED taken

Anew ==
    /\ rest' = taken \o left \o rest
    /\ taken' = << >> /\ left' = << >>

Next == Take \/ Leave \/ Anew

Spec == Init /\ [][Next]_vars

=============================================================================
