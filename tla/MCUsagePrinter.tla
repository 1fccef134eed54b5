--------------------------- MODULE MCUsagePrinter ---------------------------
(* Usage arrays whose cells are short, long, wide, empty or of several     *)
(* lines; no letter is in two cells.                                       *)
EXTENDS UsagePrinter

(* Forms of a cell, with letters from b on.                                *)
Short(b) == <<b>>
Lined(b) == <<b, b + 1, VT, b + 2>>
Words(b) == <<b, SPACE, b + 1, b + 2, b + 3, SPACE, b + 4, b + 5>>
Word(b)  == <<b, b + 1, b + 2, b + 3, b + 4, b + 5, b + 6, b + 7, b + 8>>
Wide(b)  == <<19968 + b, 200 + b, 19969 + b>>

Cell(f, b) ==
    CASE f = "empty" -> << >> [] f = "short" -> Short(b) [] f = "lined" -> Lined(b)
      [] f = "words" -> Words(b) [] f = "word" -> Word(b) [] f = "wide" -> Wide(b)

Row(forms, b) ==
    FlattenSeq([i \in DOMAIN forms |->
                   (IF i > 1 THEN <<TAB>> ELSE << >>) \o Cell(forms[i], b + 10 * i)])

Forms == {"empty", "short", "lined", "words", "word", "wide"}

Narrow == BoundedSeq(Forms, 2) \ {<< >>}
Rows   == {<<"short", "lined", "words">>, <<"wide", "word", "short">>, <<"words">>,
           <<"word", "short", "short">>, <<"lined", "empty", "word", "short">>}

AllUsages ==
    {<<Row(r, 40), Row(s, 100)>> : r \in Narrow, s \in Rows}
      \cup {<<NoHelp, Row(r, 40) \o <<NL>> \o Row(s, 100), NoHelp, NoHelp, Row(t, 160)>> :
               r \in Rows, s \in Rows, t \in {<<"word", "lined">>}}

S(w, min, own) ==
    [width |-> w, last_column_min_percent |-> min, last_column_own_line_max_percent |-> own]

AllSettings == {S(1, 0, 0), S(7, 50, 75), S(14, 80, 30), S(0, 50, 75)}
=============================================================================
