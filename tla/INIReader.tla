------------------------------ MODULE INIReader ------------------------------
(***************************************************************************)
(* INIReader (ini/INIReader.cpp): the constructor parses a file, its       *)
(* ValueHandler() collects the values in one map, and Get() and            *)
(* GetInteger() look them up.  Section and name are joined to one key,     *)
(* without regard to case.                                                 *)
(***************************************************************************)
EXTENDS IniParser, SequencesExt

CONSTANTS
    Lower(_),   \* tolower()
    Digits      \* the characters that are decimal digits

ASSUME LowerAssumption ==
    /\ Lower("=") = "="
    /\ \A c \in Characters : Lower(c) = "=" => c = "="

VARIABLE
    _values     \* the map from keys to values

readerVars == <<vars, _values>>

MutMakeKey(sect, name) == [i \in 1..Len(sect \o name) |-> Lower((sect \o name)[i])]
MakeKey(sect, name) ==
    LET key == sect \o <<"=">> \o name IN [i \in DOMAIN key |-> Lower(key[i])]

(* operator[] of the map makes an empty value for a new key.               *)
Stored(key) == IF key \in DOMAIN _values THEN _values[key] ELSE << >>

Extended(old, value) == (IF old = << >> THEN old ELSE old \o <<"\n">>) \o value

ValueHandler(call) ==
    LET key == MakeKey(call.section, call.name)
    IN  _values' = [k \in DOMAIN _values \cup {key} |->
                      IF k = key THEN Extended(Stored(key), call.value)
                      ELSE _values[k]]

ReaderInit == Init /\ _values = << >>

(* One turn of the parser, with the handler, which accepts every call.     *)
Construct ==
    /\ Parse(TRUE)
    /\ IF Len(calls') > Len(calls) THEN ValueHandler(calls'[Len(calls')])
       ELSE UNCHANGED _values

(* The constructor is done: the map does not change any more.              *)
Constructed == Returned /\ UNCHANGED _values

ReaderSpec == ReaderInit /\ [][Construct \/ Constructed]_readerVars

-----------------------------------------------------------------------------
Get(sect, name, default) ==
    LET key == MakeKey(sect, name)
    IN  IF key \in DOMAIN _values THEN _values[key] ELSE default

(* How many characters strtol() converts: the digits in front, after a     *)
(* sign.  Values begin with no space.                                      *)
Converted(s) ==
    LET sign == IF s # << >> /\ s[1] = "-" THEN 1 ELSE 0
        end  == Min({i \in DOMAIN s : i > sign /\ s[i] \notin Digits} \cup {Len(s) + 1})
    IN  IF end = sign + 1 THEN 0 ELSE end - 1

(* Whether GetInteger() answers with a number from the file.               *)
GetIntegerFinds(sect, name) == Converted(Get(sect, name, << >>)) > 0

-----------------------------------------------------------------------------
(***************************************************************************)
(* Properties.                                                             *)
(***************************************************************************)

SameEntry(a, b) ==
    /\ Len(a.section) = Len(b.section) /\ Len(a.name) = Len(b.name)
    /\ \A i \in DOMAIN a.section : Lower(a.section[i]) = Lower(b.section[i])
    /\ \A i \in DOMAIN a.name : Lower(a.name[i]) = Lower(b.name[i])

(* What a file that is told by cs has for the entry e, and another call.   *)
Join(e, old, call) ==
    IF ~SameEntry(call, e) THEN old
    ELSE IF old = << >> THEN call.value
    ELSE old \o <<"\n">> \o call.value

InFile(e, cs) == FoldLeft(LAMBDA old, call : Join(e, old, call), << >>, cs)

(* Get() answers with all the values that the file has for the entry, one  *)
(* per line in the order of the file, and with none of another entry, how- *)
(* ever much the sections and names look alike: no two entries share a key,*)
(* though section names may hold the "=" that joins them to names.         *)
GetAnswersFile ==
    \A k \in DOMAIN calls :
        Get(calls[k].section, calls[k].name, << >>) = InFile(calls[k], calls)

(* INIReader.h: "returning default_value if not found or not a valid       *)
(* integer".  A number comes only from a value that is a number throughout.*)
OnlyValidIntegers ==
    \A k \in DOMAIN calls :
        LET sect == calls[k].section
            name == calls[k].name
        IN  GetIntegerFinds(sect, name)
              => Converted(Get(sect, name, << >>)) = Len(Get(sect, name, << >>))

=============================================================================
