------------------------------ MODULE IniParser ------------------------------
(***************************************************************************)
(* ini_parse_stream() of the inih parser (ini/ini.c) in its default        *)
(* configuration (ini/ini.h): multi-line values, byte order mark, inline   *)
(* comments, errors do not stop the parser.                                *)
(*                                                                         *)
(* A character is a one-letter string, the byte order mark one character   *)
(* "BOM".  A file is a sequence of lines, each a sequence of characters    *)
(* that ends with "\n".  One step is one turn of the loop: one chunk that  *)
(* fgets() reads, which is a line or, of a line that is longer than the    *)
(* buffer, a part.  The handler may accept or refuse each call.            *)
(***************************************************************************)
EXTENDS Naturals, Sequences, FiniteSetsExt

CONSTANTS
    Characters,     \* what files are made of
    Files,          \* the files that may be parsed
    INI_MAX_LINE,   \* size of the line buffer, 200
    MAX_SECTION,    \* size of the section buffer, 50
    MAX_NAME        \* size of the buffer for the last name, 50

Lines == Seq(Characters) \ {<< >>}

ASSUME ConstantsAssumption ==
    /\ Files \subseteq Seq(Lines)
    /\ INI_MAX_LINE \in Nat /\ INI_MAX_LINE > 1
    /\ MAX_SECTION \in Nat \ {0}
    /\ MAX_NAME \in Nat \ {0}

VARIABLES
    unread,     \* the lines not yet read, the first perhaps in part
    lineno,     \* the number of chunks read
    section,    \* the section in force
    prev_name,  \* the name that a continuation line continues, or empty
    error,      \* the lineno of the first error, or 0
    calls       \* history: the calls of the handler

bufferVars == <<section, prev_name>>
vars == <<unread, lineno, bufferVars, error, calls>>

-----------------------------------------------------------------------------
(* String functions.                                                       *)

Whitespace == {" ", "\n"}

Text(s) == {i \in DOMAIN s : s[i] \notin Whitespace}

rstrip(s) == SubSeq(s, 1, Max(Text(s) \cup {0}))

lskip(s) == SubSeq(s, Min(Text(s) \cup {Len(s) + 1}), Len(s))

(* The first position with one of chars or an inline comment, which is a   *)
(* semicolon after a space, or the position after the end.                 *)
find_chars_or_comment(s, chars) ==
    Min({Len(s) + 1} \cup
        {i \in DOMAIN s : \/ s[i] \in chars
                          \/ s[i] = ";" /\ i > 1 /\ s[i - 1] \in Whitespace})

(* *end, at the end of the text the terminating null.                      *)
Found(s, end) == IF end \in DOMAIN s THEN s[end] ELSE "NUL"

(* At most size - 1 characters.                                            *)
strncpy0(s, size) == SubSeq(s, 1, Min({Len(s), size - 1}))

-----------------------------------------------------------------------------
(* The chunk that fgets() reads, and what it leaves.                       *)

Chunk == strncpy0(Head(unread), INI_MAX_LINE)

Left ==
    IF Len(Head(unread)) < INI_MAX_LINE THEN Tail(unread)
    ELSE <<SubSeq(Head(unread), INI_MAX_LINE, Len(Head(unread)))>> \o Tail(unread)

StartsWithBom == lineno = 0 /\ Chunk[1] = "BOM"

Start == lskip(rstrip(IF StartsWithBom THEN Tail(Chunk) ELSE Chunk))

(* start > line: something was skipped in front.                           *)
Indented == StartsWithBom \/ Chunk[1] \in Whitespace

Init ==
    /\ unread \in Files
    /\ lineno = 0
    /\ section = << >>
    /\ prev_name = << >>
    /\ error = 0
    /\ calls = << >>

(* One turn of the loop; bad tells whether it is an error.                 *)
Turn(bad) ==
    /\ unread' = Left
    /\ lineno' = lineno + 1
    /\ error' = IF bad /\ error = 0 THEN lineno + 1 ELSE error

-----------------------------------------------------------------------------
(* The branches of the loop, in the order of the code: each excludes those *)
(* before it.                                                              *)

IsComment      == Start # << >> /\ Start[1] \in {";", "#"}
IsContinuation == ~IsComment /\ prev_name # << >> /\ Start # << >> /\ Indented
IsSection      == ~IsContinuation /\ Start # << >> /\ Start[1] = "["
IsPair         == Start # << >> /\ ~IsComment /\ ~IsContinuation /\ ~IsSection

HANDLER(name, value) ==
    calls' = Append(calls, [section |-> section, name |-> name, value |-> value,
                            continued |-> IsContinuation])

skip ==
    /\ IsComment \/ Start = << >>
    /\ Turn(FALSE)
    /\ UNCHANGED <<bufferVars, calls>>

continuation(ok) ==
    /\ IsContinuation
    /\ Turn(~ok)
    /\ HANDLER(prev_name, Start)
    /\ UNCHANGED bufferVars

(* "[section]": up to the bracket, and not if a comment comes first.       *)
MutSectionLine ==
    /\ IsSection
    /\ LET name == Tail(Start)
           end  == find_chars_or_comment(name, {"]"})
           bad  == Found(name, end) # "]"
       IN  /\ Turn(bad)
           /\ section' = IF bad THEN section
                         ELSE strncpy0(SubSeq(name, 1, end - 1), MAX_SECTION)
    /\ UNCHANGED <<prev_name, calls>>
section_line ==
    /\ IsSection
    /\ LET name == Tail(Start)
           end  == find_chars_or_comment(name, {"]"})
           bad  == Found(name, end) # "]"
       IN  /\ Turn(bad)
           /\ section' = IF bad THEN section
                         ELSE strncpy0(SubSeq(name, 1, end - 1), MAX_SECTION)
           /\ prev_name' = IF bad THEN prev_name ELSE << >>
    /\ UNCHANGED calls

(* name=value or name:value.  The value ends at an inline comment; the     *)
(* handler gets the whole name, prev_name what fits.                       *)
MutPair(ok) ==
    /\ IsPair
    /\ LET end == find_chars_or_comment(Start, {"=", ":"})
           bad == Found(Start, end) \notin {"=", ":"}
           name  == rstrip(SubSeq(Start, 1, end - 1))
           right == rstrip(lskip(SubSeq(Start, end + 1, Len(Start))))
           value == SubSeq(right, 1, find_chars_or_comment(right, {}) - 1)
       IN  \/ /\ bad
              /\ Turn(TRUE)
              /\ UNCHANGED <<bufferVars, calls>>
           \/ /\ ~bad
              /\ Turn(~ok)
              /\ prev_name' = strncpy0(name, MAX_NAME)
              /\ HANDLER(name, value)
              /\ UNCHANGED section
pair(ok) ==
    /\ IsPair
    /\ LET end == find_chars_or_comment(Start, {"=", ":"})
           bad == Found(Start, end) \notin {"=", ":"}
           name  == rstrip(SubSeq(Start, 1, end - 1))
           right == SubSeq(Start, end + 1, Len(Start))
           value == rstrip(lskip(SubSeq(right, 1, find_chars_or_comment(right, {}) - 1)))
       IN  \/ /\ bad
              /\ Turn(TRUE)
              /\ UNCHANGED <<bufferVars, calls>>
           \/ /\ ~bad
              /\ Turn(~ok)
              /\ prev_name' = strncpy0(name, MAX_NAME)
              /\ HANDLER(name, value)
              /\ UNCHANGED section

(* reader() returns NULL: the parser has returned error.                   *)
Returned == unread = << >> /\ UNCHANGED vars

(* reader() returns a chunk; ok is what the handler returns if it is called.*)
Parse(ok) ==
    /\ unread # << >>
    /\ skip \/ section_line \/ continuation(ok) \/ pair(ok)

Next == (\E ok \in BOOLEAN : Parse(ok)) \/ Returned

Spec == Init /\ [][Next]_vars

-----------------------------------------------------------------------------
(***************************************************************************)
(* Properties.                                                             *)
(***************************************************************************)

(* The inductive invariant of the proofs.  What the handler is told on a   *)
(* continuation line is what it was told before, the name cut to its       *)
(* buffer; a name that is cut may end with a space.                        *)
Cut(name) == strncpy0(name, MAX_NAME)

Trim(s) == lskip(rstrip(s))

TypeOK ==
    /\ unread \in Seq(Lines)
    /\ {lineno, error} \subseteq Nat
    /\ section \in Seq(Characters) /\ Len(section) < MAX_SECTION
    /\ prev_name \in Seq(Characters) /\ Len(prev_name) < MAX_NAME
    /\ calls \in Seq([section : Seq(Characters), name : Seq(Characters),
                      value : Seq(Characters), continued : BOOLEAN])

ContinuesLastCall ==
    prev_name # << >> => /\ calls # << >>
                         /\ section = calls[Len(calls)].section
                         /\ prev_name = Cut(calls[Len(calls)].name)

ContinuesCall ==
    \A k \in DOMAIN calls : calls[k].continued =>
        /\ k > 1
        /\ calls[k].section = calls[k - 1].section
        /\ calls[k].name = Cut(calls[k - 1].name)

StrippedUnlessCut ==
    \A k \in DOMAIN calls :
        /\ calls[k].value = Trim(calls[k].value)
        /\ calls[k].continued \/ calls[k].name = Trim(calls[k].name)

NoSignInName ==
    \A k \in DOMAIN calls :
        \A i \in DOMAIN calls[k].name : calls[k].name[i] \notin {"=", ":"}

IInv ==
    /\ TypeOK /\ ContinuesLastCall /\ ContinuesCall
    /\ StrippedUnlessCut /\ NoSignInName

(* ini.h: "ini_parse() will call the handler with the same name for each   *)
(* subsequent line parsed".  A continuation line is reported under the     *)
(* section and the name of the call before it, also over comments, blank   *)
(* lines and errors in between.                                            *)
ContinuationKeepsName ==
    \A k \in DOMAIN calls : calls[k].continued =>
        /\ k > 1
        /\ calls[k].section = calls[k - 1].section
        /\ calls[k].name = calls[k - 1].name

(* ini.h: "whitespace stripped".  No name and no value that the handler    *)
(* gets begins or ends with a space, comments cut off or not.              *)
Stripped ==
    \A k \in DOMAIN calls :
        calls[k].name = Trim(calls[k].name) /\ calls[k].value = Trim(calls[k].value)

=============================================================================
