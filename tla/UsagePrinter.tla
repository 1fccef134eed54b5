---------------------------- MODULE UsagePrinter ----------------------------
(***************************************************************************)
(* printUsage() of bin/optionparser.h: the tables of a usage array are     *)
(* laid out in columns, the last of which is wrapped, and written to out.  *)
(* A part of the text is written in up to three steps, since what it is    *)
(* written to, the line with its cursor x and the two LineWrappers with    *)
(* their queues, is what the parts, rows and tables share.                 *)
(***************************************************************************)
EXTENDS LineWrapper, UsageParts

CONSTANTS
    maxcolumns,     \* 8 in the code
    Usages,         \* the usage arrays: sequences of help texts
    Settings        \* the parameters of the calls

ASSUME UsageAssumption ==
    /\ maxcolumns \in Nat \ {0}
    /\ Usages \subseteq Seq(Seq(Nat))
    /\ Settings \subseteq [width : Int, last_column_min_percent : Nat,
                           last_column_own_line_max_percent : Nat]

VARIABLES
    usage,          \* the usage array
    set,            \* the parameters
    pc,             \* what comes next: "table"; "widths", "width row", "width part" and
                    \* "layout"; "row", "part", "put", "wrap", "own", "flush" and "line"; "done"
    part,           \* the iterator
    overlong_column_threshold,
    col_width,
    lastcolumn,
    rightwidth,
    print_last_column_on_own_line,
    wrapper,        \* the two LineWrappers, "last" and "interjection"
    lineWrapper,    \* the one in use
    rest,           \* what process() has left of its data
    x,              \* the cursor, as the code sees it
    out             \* what has been written

input  == <<usage, set>>
layout_vars == <<overlong_column_threshold, col_width, lastcolumn, rightwidth,
                 print_last_column_on_own_line>>
lines  == <<wrapper, lineWrapper, rest>>
vars   == <<input, pc, part, layout_vars, lines, x, out>>

Wrappers == {"last", "interjection"}

Width == IF set.width < 1 THEN 80 ELSE IF set.width > 10000 THEN 10000 ELSE set.width

Percent(p) == (Width * p + 50) \div 100
last_column_min_width          == Percent(set.last_column_min_percent)
last_column_own_line_max_width == upmax(Percent(set.last_column_own_line_max_percent), 1)

(* Column i begins behind the columns in front of it; leftwidth is that of *)
(* the last one.                                                           *)
tabstop(i) ==
    LET sum[n \in 0..i] == IF n = 0 THEN 0 ELSE sum[n - 1] + col_width[n - 1] IN sum[i]

(* A row that has neither \t nor \v is an interjection; c, l and b are     *)
(* column() and line() of a part and what is behind it.                    *)
InTable(c, l, b) == c > 0 \/ l > 0 \/ b \in {TAB, VT}

Init ==
    /\ usage \in Usages /\ set \in Settings
    /\ pc = "table" /\ part = LinePartIterator
    /\ overlong_column_threshold = 0 /\ col_width = [i \in 0..maxcolumns - 1 |-> 0]
    /\ lastcolumn = 0 /\ rightwidth = 0
    /\ print_last_column_on_own_line = FALSE
    /\ wrapper = [w \in Wrappers |-> LineWrapper(0, 0)] /\ lineWrapper = "last"
    /\ rest = << >> /\ x = -1 /\ out = << >>

next_table ==
    LET t == nextTable(usage, part)
    IN  /\ pc = "table"
        /\ part' = t.it
        /\ pc' = IF t.ok THEN "widths" ELSE "done"
        /\ overlong_column_threshold' = 10000
        /\ UNCHANGED <<input, col_width, lastcolumn, rightwidth,
                       print_last_column_on_own_line, lines, x, out>>

(* A turn of the loop that determines the column widths goes through the   *)
(* parts of the table, and leaves out those as wide as the threshold.      *)
restart ==
    /\ pc = "widths"
    /\ lastcolumn' = 0 /\ col_width' = [i \in 0..maxcolumns - 1 |-> 0]
    /\ part' = restartTable(usage, part)
    /\ pc' = "width row"
    /\ UNCHANGED <<input, overlong_column_threshold, rightwidth,
                   print_last_column_on_own_line, lines, x, out>>

MutCounts(it) ==
    /\ it.col < maxcolumns /\ it.screenlen <= overlong_column_threshold
    /\ InTable(it.col, line(it), behind(usage, it))
Counts(it) ==
    /\ it.col < maxcolumns /\ it.screenlen < overlong_column_threshold
    /\ InTable(it.col, line(it), behind(usage, it))

measure ==
    LET n == next(usage, part)
        c == column(n.it)
    IN  /\ pc = "width part"
        /\ part' = n.it
        /\ IF ~ n.ok THEN pc' = "width row" /\ UNCHANGED <<lastcolumn, col_width>>
           ELSE /\ lastcolumn' = IF c < maxcolumns THEN upmax(lastcolumn, c) ELSE lastcolumn
                /\ col_width' = IF Counts(n.it)
                                THEN [col_width EXCEPT ![c] = upmax(@, n.it.screenlen)]
                                ELSE col_width
                /\ UNCHANGED pc
        /\ UNCHANGED <<input, overlong_column_threshold, rightwidth,
                       print_last_column_on_own_line, lines, x, out>>

measure_row ==
    LET r == nextRow(usage, part)
    IN  /\ pc = "width row" /\ r.ok
        /\ part' = r.it
        /\ pc' = "width part"
        /\ UNCHANGED <<input, layout_vars, lines, x, out>>

measured ==
    LET r == nextRow(usage, part)
    IN  /\ pc = "width row" /\ ~ r.ok
        /\ part' = r.it
        /\ overlong_column_threshold' = Max({col_width[i] : i \in 0..lastcolumn - 1} \cup {0})
        /\ pc' = IF tabstop(lastcolumn) > Width THEN "widths" ELSE "layout"
        /\ UNCHANGED <<input, col_width, lastcolumn, rightwidth,
                       print_last_column_on_own_line, lines, x, out>>

layout ==
    LET right == Width - tabstop(lastcolumn)
        own   == /\ right < last_column_min_width
                 /\ col_width[lastcolumn] = 0 \/ right < col_width[lastcolumn]
    IN  /\ pc = "layout"
        /\ rightwidth' = IF own THEN last_column_own_line_max_width ELSE right
        /\ print_last_column_on_own_line' = (own /\ lastcolumn # 0)
        /\ wrapper' = [w \in Wrappers |->
                           IF w = "last" THEN LineWrapper(Width - rightwidth', Width)
                           ELSE LineWrapper(0, Width)]
        /\ part' = restartTable(usage, part)
        /\ pc' = "row"
        /\ UNCHANGED <<input, overlong_column_threshold, col_width, lastcolumn,
                       lineWrapper, rest, x, out>>

next_row ==
    LET r == nextRow(usage, part)
    IN  /\ pc = "row"
        /\ part' = r.it
        /\ IF r.ok THEN pc' = "part" /\ x' = -1 ELSE pc' = "table" /\ UNCHANGED x
        /\ UNCHANGED <<input, layout_vars, lines, out>>

-----------------------------------------------------------------------------
(***************************************************************************)
(* The parts of a row.                                                     *)
(***************************************************************************)

drop_column ==
    LET n == next(usage, part)
    IN  /\ pc = "part" /\ n.ok /\ column(n.it) > lastcolumn
        /\ part' = n.it
        /\ UNCHANGED <<input, pc, layout_vars, lines, x, out>>

(* The cursor goes to the column of the part.                              *)
indent ==
    LET n  == next(usage, part)
        c  == column(n.it)
        x0 == IF c = 0 THEN 0 ELSE x
    IN  /\ pc = "part" /\ n.ok /\ c <= lastcolumn
        /\ part' = n.it
        /\ x' = indented(x0, tabstop(c))
        /\ out' = out \o (IF c = 0 /\ x >= 0 THEN <<NL>> ELSE << >>)
                      \o indentation(x0, tabstop(c))
        /\ pc' = "put"
        /\ UNCHANGED <<input, layout_vars, lines>>

OfLeft == column(part) < lastcolumn /\ InTable(column(part), line(part), behind(usage, part))

left_part ==
    /\ pc = "put" /\ OfLeft
    /\ out' = out \o data(usage, part) /\ x' = x + part.screenlen
    /\ pc' = "part"
    /\ UNCHANGED <<input, part, layout_vars, lines>>

postpone ==
    /\ pc = "put" /\ ~ OfLeft
    /\ print_last_column_on_own_line /\ column(part) = lastcolumn
    /\ pc' = "part"
    /\ UNCHANGED <<input, part, layout_vars, lines, x, out>>

(* process() begins with wrapper w.                                        *)
begin_process(w, text) ==
    /\ lineWrapper' = w /\ rest' = text
    /\ wrapper' = [wrapper EXCEPT ![w].wrote_something = FALSE]
    /\ pc' = "wrap"

wrapped_part ==
    /\ pc = "put" /\ ~ OfLeft
    /\ ~ (print_last_column_on_own_line /\ column(part) = lastcolumn)
    /\ begin_process(IF column(part) = 0 THEN "interjection" ELSE "last", data(usage, part))
    /\ UNCHANGED <<input, part, layout_vars, x, out>>

last_part ==
    LET n == next(usage, part)
    IN  /\ pc = "part" /\ ~ n.ok
        /\ IF print_last_column_on_own_line
           THEN pc' = "own" /\ part' = restartRow(n.it) /\ UNCHANGED out
           ELSE pc' = "flush" /\ part' = n.it /\ out' = Append(out, NL)
        /\ lineWrapper' = "last"
        /\ UNCHANGED <<input, layout_vars, wrapper, rest, x>>

-----------------------------------------------------------------------------
(***************************************************************************)
(* Lines of the LineWrapper in use.                                        *)
(***************************************************************************)

W == wrapper[lineWrapper]

(* output() of the next line of the data.                                  *)
wrap ==
    LET s == Split(rest, W.width)
    IN  /\ pc = "wrap" /\ rest # << >>
        /\ rest' = s.rest
        /\ out' = IF buf_full(W) THEN out \o one_line(W) ELSE out
        /\ wrapper' = [wrapper EXCEPT ![lineWrapper] =
                           buf_store(IF buf_full(W) THEN line_written(W) ELSE W, s.line)]
        /\ UNCHANGED <<input, pc, part, layout_vars, lineWrapper, x>>

end_process ==
    /\ pc = "wrap" /\ rest = << >>
    /\ out' = IF W.wrote_something THEN out ELSE out \o one_line(W)
    /\ wrapper' = [wrapper EXCEPT ![lineWrapper] =
                       IF W.wrote_something THEN W ELSE line_written(W)]
    /\ pc' = IF print_last_column_on_own_line /\ lineWrapper = "last" THEN "own" ELSE "part"
    /\ UNCHANGED <<input, part, layout_vars, lineWrapper, rest, x>>

(* The last column on lines of its own.                                    *)
own_line ==
    LET n == next(usage, part)
    IN  /\ pc = "own" /\ n.ok
        /\ part' = n.it
        /\ IF column(n.it) = lastcolumn
           THEN /\ out' = out \o <<NL>> \o indentation(0, Width - rightwidth)
                /\ begin_process("last", data(usage, n.it))
           ELSE UNCHANGED <<pc, lines, out>>
        /\ UNCHANGED <<input, layout_vars, x>>

last_own_line ==
    LET n == next(usage, part)
    IN  /\ pc = "own" /\ ~ n.ok
        /\ part' = n.it
        /\ out' = Append(out, NL)
        /\ pc' = "flush" /\ lineWrapper' = "last"
        /\ UNCHANGED <<input, layout_vars, wrapper, rest, x>>

(* flush() of one wrapper, then of the other.                              *)
flushed ==
    /\ pc' = IF lineWrapper = "last" THEN "flush" ELSE "row"
    /\ lineWrapper' = "interjection"

nothing_to_flush ==
    /\ pc = "flush" /\ buf_empty(W)
    /\ flushed
    /\ UNCHANGED <<input, part, layout_vars, wrapper, rest, x, out>>

flush ==
    /\ pc = "flush" /\ ~ buf_empty(W)
    /\ out' = out \o indentation(0, W.x)
    /\ wrapper' = [wrapper EXCEPT ![lineWrapper].wrote_something = FALSE]
    /\ pc' = "line"
    /\ UNCHANGED <<input, part, layout_vars, lineWrapper, rest, x>>

flush_line ==
    /\ pc = "line" /\ ~ buf_empty(W)
    /\ out' = out \o one_line(W)
    /\ wrapper' = [wrapper EXCEPT ![lineWrapper] = line_written(W)]
    /\ UNCHANGED <<input, pc, part, layout_vars, lineWrapper, rest, x>>

end_flush ==
    /\ pc = "line" /\ buf_empty(W)
    /\ out' = Append(out, NL)
    /\ flushed
    /\ UNCHANGED <<input, part, layout_vars, wrapper, rest, x>>

printed == pc = "done" /\ UNCHANGED vars

Next ==
    \/ next_table \/ restart \/ measure_row \/ measure \/ measured \/ layout \/ next_row
    \/ drop_column \/ indent \/ left_part \/ postpone \/ wrapped_part \/ last_part
    \/ wrap \/ end_process \/ own_line \/ last_own_line
    \/ nothing_to_flush \/ flush \/ flush_line \/ end_flush
    \/ printed

Spec == Init /\ [][Next]_vars

-----------------------------------------------------------------------------
(***************************************************************************)
(* Properties.                                                             *)
(***************************************************************************)

(* The pieces of s between the separators sep.                             *)
Pieces(s, sep) ==
    LET ends  == {0, Len(s) + 1} \cup {i \in DOMAIN s : s[i] = sep}
        th(k) == CHOOSE e \in ends : Cardinality({c \in ends : c < e}) = k
    IN  [k \in 1..Cardinality(ends) - 1 |-> SubSeq(s, th(k - 1) + 1, th(k) - 1)]

CurrentRow ==
    SubSeq(help(usage, part.rowdesc), part.rowstart,
           Find(usage, part, part.rowstart, {NUL, NL}) - 1)

Cells == Pieces(CurrentRow, TAB)
Lines(c) == Pieces(Cells[c + 1], VT)

(* LinePartIterator, optionparser.h:1878: a row is gone through from the first *)
(* parts of all cells, from left to right, to the second ones and so on,   *)
(* with an empty part for a cell that has fewer lines than another.        *)
PartsInOrder ==
    pc \in {"part", "width part", "own"} =>
        LET n    == next(usage, part)
            more == column(part) + 1 < Len(Cells)
            c    == IF more THEN column(part) + 1 ELSE 0
            l    == IF more THEN line(part) ELSE line(part) + 1
        IN  IF \A d \in 0..Len(Cells) - 1 : l >= Len(Lines(d)) THEN ~ n.ok
            ELSE /\ n.ok /\ column(n.it) = c /\ line(n.it) = l
                 /\ data(usage, n.it) = IF l < Len(Lines(c)) THEN Lines(c)[l + 1] ELSE << >>

(* A part begins exactly at the tab stop of its column, however long the   *)
(* parts before it were; so do the further lines that a part of the last   *)
(* column is broken into.                                                  *)
Aligned ==
    pc = "put" =>
        /\ Cursor(out) = tabstop(column(part))
        /\ column(part) = lastcolumn /\ lastcolumn > 0 /\ ~ print_last_column_on_own_line =>
              wrapper["last"].x = Cursor(out)

(* optionparser.h:1820: indent() "Moves the cursor to column want_x assuming it is *)
(* currently at column x and sets x=want_x": x is the column of the cursor.*)
CursorTracked == pc = "put" => x = Cursor(out)

(* Nothing of the text is lost, printed twice or moved: if no two cells    *)
(* share a letter, the letters of each cell of the columns that are printed*)
(* are in the output once and in order, and those of a row come before     *)
(* those of the next, though they wait in two queues in the meantime.      *)
TextPrinted ==
    pc = "done" =>
        LET helps   == SelectSeq(usage, LAMBDA h : h # NoHelp)
            rows    == FlattenSeq([i \in DOMAIN helps |-> Pieces(helps[i], NL)])
            Letters(s) == ToSet(s) \ (Separators \cup {SPACE})
            Of(s, S) == SelectSeq(s, LAMBDA ch : ch \in S)
        IN  \A k \in DOMAIN rows :
                /\ \A i \in DOMAIN Pieces(rows[k], TAB) :
                      LET c == Pieces(rows[k], TAB)[i]
                      IN  Of(out, Letters(c)) = IF i <= maxcolumns THEN Of(c, Letters(c)) ELSE << >>
                /\ k > 1 => LET earlier == Of(out, Letters(rows[k - 1]) \cup Letters(rows[k]))
                                n == Len(Of(earlier, Letters(rows[k - 1])))
                            IN  ToSet(SubSeq(earlier, 1, n)) \subseteq Letters(rows[k - 1])

(* No line is longer than the width allows, but for parts that were left   *)
(* out of the widths as overlong, and for the two columns that a wide      *)
(* character may need.                                                     *)
Fits ==
    pc \in {"part", "put", "wrap", "own", "flush", "line"} /\ Cursor(out) > Width =>
        \/ \E w \in Wrappers : Cursor(out) <= wrapper[w].x + wrapper[w].width
        \/ \E c \in 0..Min({lastcolumn, Len(Cells)}) - 1 : \E l \in DOMAIN Lines(c) :
               LET n == Columns(Lines(c)[l]) IN n > col_width[c] /\ Cursor(out) = tabstop(c) + n

(* The search for widths comes to an end: each turn that is not the last   *)
(* leaves out more.                                                        *)
Narrows ==
    [][pc = "width row" /\ pc' = "widths"
          => overlong_column_threshold' < overlong_column_threshold]_vars

(* Each LineWrapper is a queue for what is written around it.              *)
Queue(w) ==
    INSTANCE LineQueue WITH
        Capacity <- bufmask,
        Blank    <- {NL, SPACE},
        waiting  <- Waiting(wrapper[w]),
        text     <- out

KeepsQueues ==
    /\ \A w \in Wrappers : Queue(w)!Init
    /\ [][\A w \in Wrappers : [Queue(w)!Next]_(Queue(w)!vars)]_vars
=============================================================================
