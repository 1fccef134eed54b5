----------------------------- MODULE UsageParts -----------------------------
(***************************************************************************)
(* Class LinePartIterator (bin/optionparser.h): goes through the help      *)
(* texts of a usage array by table, row and part.  Here a usage array is a *)
(* sequence u of help texts, and what is behind its end is the entry of    *)
(* zeroes.  An iterator is a record; pointers into the help text of        *)
(* rowdesc are positions, 0 being the null pointer.                        *)
(***************************************************************************)
EXTENDS ScreenText

NoHelp == <<NUL>>       \* a null pointer for a help text: a break between tables

Iterator ==
    [tablestart : Nat, rowdesc : Nat, rowstart : Nat, ptr : Nat, col : Int,
     len : Nat, screenlen : Nat, max_line_in_block : Nat, line_in_block : Nat,
     target_line_in_block : Nat, hit_target_line : BOOLEAN]

LinePartIterator ==
    [tablestart |-> 1, rowdesc |-> 0, rowstart |-> 0, ptr |-> 0, col |-> -1,
     len |-> 0, screenlen |-> 0, max_line_in_block |-> 0, line_in_block |-> 0,
     target_line_in_block |-> 0, hit_target_line |-> TRUE]

help(u, d) == IF d \in DOMAIN u THEN u[d] ELSE NoHelp

Char(u, it, i) == IF i > Len(help(u, it.rowdesc)) THEN NUL ELSE help(u, it.rowdesc)[i]

data(u, it) == SubSeq(help(u, it.rowdesc), it.ptr, it.ptr + it.len - 1)
behind(u, it) == Char(u, it, it.ptr + it.len)       \* data()[length()]
column(it) == it.col
line(it)   == it.target_line_in_block

(* The first position from i on that holds one of chars, NUL among them.   *)
Find(u, it, i, chars) ==
    LET h == help(u, it.rowdesc)
    IN  Min({j \in i..Len(h) : h[j] \in chars} \cup {Len(h) + 1})

update_length(u, it) ==
    LET i == [it EXCEPT !.len = Find(u, it, it.ptr, Separators) - it.ptr]
    IN  [i EXCEPT !.screenlen = Columns(data(u, i))]

restartTable(u, it) ==
    [it EXCEPT !.rowdesc = it.tablestart, !.ptr = 0,
               !.rowstart = IF help(u, it.tablestart) = NoHelp THEN 0 ELSE 1]

(* The operations that return a boolean return it with the iterator.       *)
nextTable(u, it) ==
    LET From(d, S) == Min({e \in d..Len(u) + 1 : e \in S} \cup {Len(u) + 1})
        breaks == {e \in DOMAIN u : u[e] = NoHelp}
        d == IF it.rowdesc # 0 THEN From(it.tablestart, breaks) ELSE it.tablestart
        i == restartTable(u, [it EXCEPT !.tablestart = From(d, DOMAIN u \ breaks)])
    IN  [ok |-> i.rowstart # 0, it |-> i]

restartRow(it) ==
    [it EXCEPT !.ptr = it.rowstart, !.col = -1, !.len = 0, !.screenlen = 0,
               !.max_line_in_block = 0, !.line_in_block = 0,
               !.target_line_in_block = 0, !.hit_target_line = TRUE]

nextRow(u, it) ==
    LET e == Find(u, it, it.ptr, {NUL, NL})
    IN  IF it.ptr = 0
        THEN [ok |-> it.rowstart # 0, it |-> restartRow(it)]
        ELSE IF Char(u, it, e) = NL
        THEN [ok |-> TRUE, it |-> restartRow([it EXCEPT !.rowstart = e + 1])]
        ELSE IF help(u, it.rowdesc + 1) = NoHelp
        THEN [ok |-> FALSE, it |-> [it EXCEPT !.ptr = e]]
        ELSE [ok |-> TRUE, it |-> restartRow([it EXCEPT !.rowdesc = @ + 1, !.rowstart = 1])]

(* The loop of next(): a cell without a line of the target's index gets an *)
(* empty part where it ends.                                               *)
Found(u, it) == [ok |-> TRUE, it |-> [update_length(u, it) EXCEPT !.hit_target_line = TRUE]]

Down(it) ==
    [it EXCEPT !.line_in_block = @ + 1, !.ptr = @ + 1,
               !.max_line_in_block = upmax(@, it.line_in_block + 1)]

MutRight(it) == [it EXCEPT !.line_in_block = 0, !.col = @ + 1, !.ptr = @ + 1]
Right(it) ==
    [it EXCEPT !.hit_target_line = FALSE, !.line_in_block = 0, !.col = @ + 1, !.ptr = @ + 1]

Again(it) ==
    [it EXCEPT !.target_line_in_block = @ + 1, !.hit_target_line = FALSE, !.line_in_block = 0,
               !.col = 0, !.ptr = it.rowstart]

Loop(u, it) ==
    LET scan[i \in Iterator] ==
            LET j  == [i EXCEPT !.ptr = Find(u, i, i.ptr, Separators)]
                ch == Char(u, j, j.ptr)
                d  == IF ch = VT THEN Down(j) ELSE Right(j)
            IN  IF ch # VT /\ ~ j.hit_target_line THEN Found(u, j)
                ELSE IF ch \in {VT, TAB}
                THEN IF d.line_in_block = d.target_line_in_block THEN Found(u, d) ELSE scan[d]
                ELSE IF j.target_line_in_block < j.max_line_in_block THEN scan[Again(j)]
                ELSE [ok |-> FALSE,
                      it |-> update_length(u, [j EXCEPT !.target_line_in_block = @ + 1])]
    IN  scan[it]

next(u, it) ==
    IF it.ptr = 0 THEN [ok |-> FALSE, it |-> it]
    ELSE IF it.col = -1 THEN [ok |-> TRUE, it |-> update_length(u, [it EXCEPT !.col = 0])]
    ELSE Loop(u, [it EXCEPT !.ptr = @ + it.len])

=============================================================================
