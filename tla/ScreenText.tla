----------------------------- MODULE ScreenText -----------------------------
(***************************************************************************)
(* Text as bin/optionparser.h lays it out: a sequence of code points, each *)
(* of which takes one or two columns of the screen and one to four bytes.  *)
(***************************************************************************)
EXTENDS Integers, Sequences, SequencesExt, FiniteSetsExt

NUL   == 0      \* the end of a string
TAB   == 9      \* between cells
NL    == 10     \* between rows
VT    == 11     \* between the lines of a cell
SPACE == 32

Separators == {NUL, TAB, NL, VT}

upmax(i1, i2) == IF i1 >= i2 THEN i1 ELSE i2

isWideChar(ch) ==
    /\ ch # 12351
    /\ \/ ch \in 4352..4447   \/ ch \in 9001..9002   \/ ch \in 11904..42182
       \/ ch \in 43360..43388 \/ ch \in 44032..55291 \/ ch \in 63744..64255
       \/ ch \in 65040..65131 \/ ch \in 65281..65376 \/ ch \in 65504..65510
       \/ ch >= 110592

(* One column, or two; one byte and up to three more.                      *)
Columns(s) == Len(s) + Cardinality({i \in DOMAIN s : isWideChar(s[i])})

Bytes(s) ==
    LET From(ch) == Cardinality({i \in DOMAIN s : s[i] >= ch})
    IN  Len(s) + From(128) + From(2048) + From(65536)

(* The column in which the screen's cursor stands after text s.            *)
Cursor(s) ==
    LET breaks == {i \in DOMAIN s : s[i] = NL}
    IN  Columns(SubSeq(s, Max(breaks \cup {0}) + 1, Len(s)))

Spaces(n) == [i \in 1..n |-> SPACE]

(* indent(): what it writes, and the x it leaves.                          *)
indentation(x, want_x) ==
    IF want_x < x THEN <<NL>> \o Spaces(want_x) ELSE Spaces(want_x - x)

MutIndented(x, want_x) == IF want_x < x THEN x ELSE want_x
indented(x, want_x) == IF (want_x < x /\ want_x > 0) \/ want_x > x THEN want_x ELSE x

=============================================================================
