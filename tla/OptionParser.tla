---------------------------- MODULE OptionParser ----------------------------
(***************************************************************************)
(* Stats and Parser of bin/optionparser.h, used as its documentation shows:*)
(* Stats counts what two argument vectors hold, defaults and the user's;   *)
(* arrays of that size are allocated, and one Parser parses the two        *)
(* vectors into them.                                                      *)
(*                                                                         *)
(* All four calls run Parser::workhorse(), which reads the vector from the *)
(* left and, with gnu, moves options in front of the arguments that are    *)
(* none by rotating the vector in place.  An argument is a sequence of     *)
(* characters; a vector holds the numbers of its arguments in the order    *)
(* in which they were given; a pointer into text is << vector, argument,   *)
(* offset >>.  The workhorse is a state machine with one action for each   *)
(* way round its two loops.                                                *)
(***************************************************************************)
EXTENDS OptionList

CONSTANTS
    Tables,     \* the usage arrays: sequences of descriptors
    Defaults,   \* the argument vectors with default options
    Vectors,    \* the argument vectors of the user
    Settings    \* the parameters of the calls, see Parameters

(* A descriptor.  check_arg is a function of the caller's; it is named.    *)
Descriptor ==
    [index    : Nat,
     type     : Nat,
     shortopt : SUBSET STRING,
     longopt  : Seq(STRING),
     check_arg : {"None", "Optional", "Required", "NonEmpty", "Unknown", "Any"}]

ArgStatus == {"ARG_NONE", "ARG_OK", "ARG_IGNORE", "ARG_ILLEGAL"}

(* stats_gnu and gnu are FALSE in the POSIX overloads.  argc may be -1:    *)
(* the vector then ends at its null pointer.  With a bufmax of -1 the      *)
(* arrays have the sizes that Stats found.                                 *)
Parameters ==
    [stats_gnu            : BOOLEAN,
     gnu                  : BOOLEAN,
     min_abbr_len         : Nat,
     single_minus_longopt : BOOLEAN,
     counted              : BOOLEAN,     \* whether argc is given
     bufmax               : Nat \cup {-1}]

ASSUME ConstantsAssumption ==
    /\ \A u \in Tables : u \in Seq(Descriptor)
    /\ Settings \subseteq Parameters
    /\ \A t \in Defaults \cup Vectors : t \in Seq(Seq(STRING))

(* "The calls to Stats methods must match the later calls to Parser        *)
(* methods", as far as that matters for the sizes of the arrays: a Parser  *)
(* with gnu is not given what a POSIX Stats has counted (the other way     *)
(* round is said to do at lines 1100 to 1103).                             *)
ASSUME CallsMatch == \A s \in Settings : s.bufmax < 0 /\ s.gnu => s.stats_gnu

VARIABLES
    usage,      \* the usage array
    set,        \* the parameters
    text,       \* the two argument vectors as given
    argv,       \* the two vectors as they are: numbers of their arguments
    call,       \* the calls: 1, 2 Stats::add(), 3, 4 parse(); 5 all returned
    pc,         \* where workhorse() is: "call", "args", "group" or "over"
    pos,        \* args: the position that the outer loop has reached
    numargs,    \* arguments left, or -1
    nonops,     \* arguments skipped that are no options
    param,      \* in a group: offset of the character before the next
    short,      \* handle_short_options
    single,     \* try_single_minus_longopt
    buffer_max, \* Stats
    options_max,
    mem,        \* the objects of options[] and buffer[]
    op_count,   \* Parser
    nonop_args, \* the numbers of the nonop_count arguments, with their vector
    err

locals == <<pos, numargs, nonops, param, short, single>>
stats  == <<buffer_max, options_max>>
parser == <<mem, op_count, nonop_args, err>>
vars   == <<usage, set, text, argv, call, pc, locals, stats, parser>>

Count(c) == c \in {1, 2}           \* the calls with CountOptionsAction
vec      == IF call % 2 = 1 THEN 1 ELSE 2
Gnu      == IF Count(call) THEN set.stats_gnu ELSE set.gnu

opt(i) == <<"options", i>>
buf(k) == <<"buffer", k>>

-----------------------------------------------------------------------------
(***************************************************************************)
(* Matching names.  Position Len(usage) + 1 is the entry of zeroes.        *)
(***************************************************************************)

Sentinel == Len(usage) + 1

Least(S) == CHOOSE i \in S : \A j \in S : i <= j

(* The end of the name st2, or the "=" behind it, is at offset n + 1.      *)
EndsAt(st2, n) == n = Len(st2) \/ st2[n + 1] = "="

streq(st1, st2) == IsPrefix(st1, st2) /\ EndsAt(st2, Len(st1))

Common(st1, st2) ==
    CHOOSE n \in 0..Len(st1) :
        /\ IsPrefix(SubSeq(st1, 1, n), st2)
        /\ n < Len(st1) => ~ IsPrefix(SubSeq(st1, 1, n + 1), st2)

streqabbr(st1, st2, min) ==
    LET n == Common(st1, st2)
    IN  (n = Len(st1) \/ (min > 0 /\ n >= min)) /\ EndsAt(st2, n)

LongMatch(name) ==
    LET exact == {i \in DOMAIN usage : streq(usage[i].longopt, name)}
        abbr  == {i \in DOMAIN usage :
                      streqabbr(usage[i].longopt, name, set.min_abbr_len)}
    IN  IF exact = {} /\ set.min_abbr_len > 0 /\ Cardinality(abbr) = 1
        THEN Least(abbr)
        ELSE Least(exact \cup {Sentinel})

instr(ch, st) == ch \in st

ShortMatch(ch) == Least({i \in DOMAIN usage : instr(ch, usage[i].shortopt)} \cup {Sentinel})

(* The first dummy entry takes unknown options.                            *)
Dummy == Least({i \in DOMAIN usage : usage[i].shortopt = {} /\ usage[i].longopt = << >>}
               \cup {Sentinel})

TextAt(p) == LET s == text[p[1]][p[2]] IN SubSeq(s, p[3], Len(s))

namelen(name) ==
    LET s == TextAt(name)
    IN  IF s[1] # "-" THEN 1
        ELSE Least({i \in 1..Len(s) : i > 1 /\ s[i] = "="} \cup {Len(s) + 1}) - 1

(* Arg::None and Arg::Optional, and what the documentation proposes for    *)
(* callers: Required, NonEmpty, Unknown.  Any takes an argument if there is one.  *)
check_arg(desc, name, arg) ==
    CASE usage[desc].check_arg = "None"     -> "ARG_NONE"
      [] usage[desc].check_arg = "Optional" ->
             IF arg # NULL /\ namelen(name) < Len(TextAt(name)) THEN "ARG_OK" ELSE "ARG_IGNORE"
      [] usage[desc].check_arg = "Required" ->
             IF arg # NULL THEN "ARG_OK" ELSE "ARG_ILLEGAL"
      [] usage[desc].check_arg = "NonEmpty" ->
             IF arg # NULL /\ TextAt(arg) # << >> THEN "ARG_OK" ELSE "ARG_ILLEGAL"
      [] usage[desc].check_arg = "Any"      ->
             IF arg # NULL THEN "ARG_OK" ELSE "ARG_IGNORE"
      [] usage[desc].check_arg = "Unknown"  -> "ARG_ILLEGAL"

-----------------------------------------------------------------------------
(***************************************************************************)
(* The two actions of the workhorse.                                       *)
(***************************************************************************)

Indices == {usage[i].index : i \in DOMAIN usage}

(* The array sizes: those of Stats, or a buffer of bufmax.                 *)
MutRoom == IF set.bufmax < 0 THEN buffer_max - 1 ELSE set.bufmax
Room == IF set.bufmax < 0 THEN buffer_max ELSE set.bufmax

Allocated == {opt(i) : i \in 0..options_max - 1} \cup {buf(k) : k \in 0..Room - 1}

(* StoreOptionAction(): the first slot of the buffer that is not in use.   *)
FirstEmpty(m) == Least({k \in 0..Room - 1 : ~ valid(m, buf(k))} \cup {Room})

Stored(m, o) ==
    LET b == buf(op_count)
        h == opt(usage[o.desc].index)
        n == Copied(m, b, o)
    IN  IF valid(n, h) THEN append(n, h, b) ELSE Copied(n, h, o)

(* perform() of CountOptionsAction and of StoreOptionAction, which drops   *)
(* an option that finds the buffer full.                                   *)
perform(o) ==
    IF Count(call)
    THEN /\ buffer_max' = buffer_max + 1
         /\ UNCHANGED <<options_max, parser>>
    ELSE /\ IF set.bufmax < 0 \/ op_count < set.bufmax
            THEN mem' = Stored(mem, o) /\ op_count' = op_count + 1
            ELSE UNCHANGED <<mem, op_count>>
         /\ UNCHANGED <<stats, nonop_args, err>>

(* finished() keeps the arguments of an earlier call if there are none.    *)
finished(args) ==
    nonop_args' = IF args # << >> THEN [vec |-> vec, args |-> args] ELSE nonop_args

-----------------------------------------------------------------------------
(***************************************************************************)
(* The calls.                                                              *)
(***************************************************************************)

Args == argv[vec]

Init ==
    /\ usage \in Tables
    /\ set \in Settings
    /\ \E d \in Defaults, u \in Vectors : text = <<d, u>>
    /\ argv = [n \in 1..2 |-> [i \in DOMAIN text[n] |-> i]]
    /\ call = 1 /\ pc = "call"
    /\ pos = 1 /\ numargs = 0 /\ nonops = 0
    /\ param = 0 /\ short = FALSE /\ single = FALSE
    /\ buffer_max = 1 /\ options_max = 1
    /\ mem = << >>
    /\ op_count = 0 /\ nonop_args = [vec |-> 0, args |-> << >>] /\ err = FALSE

(* Stats::add() begins.                                                    *)
add ==
    /\ pc = "call" /\ Count(call)
    /\ options_max' = Max({options_max} \cup {i + 2 : i \in Indices})
    /\ UNCHANGED <<buffer_max, parser>>

(* Parser::parse() begins; the first one finds fresh arrays.               *)
parse ==
    LET m == IF call = 3 THEN [p \in Allocated |-> Option(p)] ELSE mem
    IN  /\ pc = "call" /\ call \in {3, 4}
        /\ mem' = m
        /\ op_count' = FirstEmpty(m)
        /\ UNCHANGED <<stats, nonop_args, err>>

begin ==
    /\ add \/ parse
    /\ pc' = "args" /\ pos' = 1 /\ nonops' = 0
    /\ numargs' = IF set.counted THEN Len(Args) ELSE -1
    /\ UNCHANGED <<usage, set, text, argv, call, param, short, single>>

Param == text[vec][Args[pos]]

Less(n) == IF numargs > 0 THEN numargs - n ELSE numargs

AtEnd == numargs = 0 \/ pos > Len(Args)

(* Rotates a[p - n .. p]: a[p] comes first.                                *)
MutShift(a, p, n) == [a EXCEPT ![p - n] = a[p], ![p] = a[p - n]]
shift(a, p, n) ==
    [i \in DOMAIN a |-> IF i = p - n THEN a[p]
                        ELSE IF p - n < i /\ i <= p THEN a[i - 1]
                        ELSE a[i]]

(* Takes n arguments, each in front of those that are no options.          *)
MutMoved(a, n) == IF n = 0 THEN a ELSE shift(a, pos, nonops)
Moved(a, n) ==
    CASE n = 0 -> a
      [] n = 1 -> shift(a, pos, nonops)
      [] n = 2 -> shift(shift(a, pos, nonops), pos + 1, nonops)

take(n) ==
    /\ argv' = [argv EXCEPT ![vec] = Moved(Args, n)]
    /\ pos' = pos + n /\ numargs' = Less(n)

(* The way out of workhorse().                                             *)
return(ok) ==
    /\ call' = call + 1 /\ pc' = "call"
    /\ IF Count(call) THEN UNCHANGED parser
       ELSE /\ err' = ~ok
            /\ IF ok THEN finished(SubSeq(Args, pos - nonops, Len(Args)))
               ELSE UNCHANGED nonop_args
            /\ UNCHANGED <<mem, op_count>>
    /\ pos' = 1 /\ numargs' = 0 /\ nonops' = 0
    /\ param' = 0 /\ short' = FALSE /\ single' = FALSE
    /\ UNCHANGED <<usage, set, text, argv, stats>>

end == (pc = "over" \/ (pc = "args" /\ AtEnd)) /\ return(TRUE)

IsNonOption(s) == ~ (Len(s) > 1 /\ s[1] = "-")
IsTerminator(s) == s = <<"-", "-">>

nonoption ==
    /\ pc = "args" /\ ~AtEnd /\ IsNonOption(Param) /\ Gnu
    /\ nonops' = nonops + 1 /\ pos' = pos + 1 /\ numargs' = Less(1)
    /\ UNCHANGED <<usage, set, text, argv, call, pc, param, short, single, stats, parser>>

stop_at_nonoption ==
    pc = "args" /\ ~AtEnd /\ IsNonOption(Param) /\ ~Gnu /\ return(TRUE)

terminator ==
    /\ pc = "args" /\ ~AtEnd /\ IsTerminator(Param)
    /\ take(1) /\ pc' = "over"
    /\ UNCHANGED <<usage, set, text, call, nonops, param, short, single, stats, parser>>

option ==
    /\ pc = "args" /\ ~AtEnd /\ ~IsNonOption(Param) /\ ~IsTerminator(Param)
    /\ pc' = "group" /\ param' = 1
    /\ short' = (Param[2] # "-") /\ single' = set.single_minus_longopt
    /\ UNCHANGED <<usage, set, text, argv, call, pos, numargs, nonops, stats, parser>>

-----------------------------------------------------------------------------
(***************************************************************************)
(* One way round the loop over a group of short options; a long option is  *)
(* a group of one.                                                         *)
(***************************************************************************)

(* args[1], if it may be looked at and is there.                           *)
NextArg ==
    IF (numargs > 1 \/ numargs < 0) /\ pos < Len(Args) THEN <<vec, Args[pos + 1], 1>> ELSE NULL

(* All that a turn of this loop depends on: the argument, how much of it   *)
(* has been read and what comes next.                                      *)
Here ==
    [vec |-> vec, arg |-> Args[pos], param |-> param,
     short |-> short, single |-> single, next |-> NextArg]

Word(p) == text[p.vec][p.arg]
Pointer(p, off) == <<p.vec, p.arg, off>>

LongTurn(p) ==
    LET from == IF Word(p)[2] = "-" THEN 3 ELSE 2
        eq   == {i \in from..Len(Word(p)) : Word(p)[i] = "="}
    IN  [idx   |-> LongMatch(SubSeq(Word(p), from, Len(Word(p)))),
         short |-> FALSE, at |-> p.param, name |-> Pointer(p, p.param),
         arg   |-> IF eq # {} THEN Pointer(p, Least(eq) + 1) ELSE p.next]

ShortTurn(p) ==
    [idx   |-> ShortMatch(Word(p)[p.param + 1]),
     short |-> TRUE, at |-> p.param + 1, name |-> Pointer(p, p.param + 1),
     arg   |-> IF p.param + 1 = Len(Word(p)) THEN p.next ELSE Pointer(p, p.param + 2)]

(* A long name is tried first, if it may be one; if it is none and the     *)
(* argument may be a group, its next character is.                         *)
IsLong(p) == ~p.short \/ (p.single /\ LongTurn(p).idx # Sentinel)

EndOfGroup(p) == ~IsLong(p) /\ p.param = Len(Word(p))

Turn(p) ==
    LET t == IF IsLong(p) THEN LongTurn(p) ELSE ShortTurn(p)
    IN  [t EXCEPT !.idx = IF @ = Sentinel THEN Dummy ELSE @]

Status(p) == LET t == Turn(p) IN check_arg(t.idx, t.name, t.arg)

Detached(p) == Status(p) = "ARG_OK" /\ Turn(p).arg # NULL /\ Turn(p).arg = p.next

(* Takes n arguments; with n = 0 the group goes on behind offset at.       *)
MutAdvance(n) ==
    /\ take(n)
    /\ pc' = IF n = 0 THEN "group" ELSE "args"
    /\ param' = IF n = 0 THEN param ELSE 0
    /\ short' = (n = 0) /\ single' = FALSE
    /\ UNCHANGED <<usage, set, text, call, nonops>>
advance(n) ==
    /\ take(n)
    /\ pc' = IF n = 0 THEN "group" ELSE "args"
    /\ param' = IF n = 0 THEN Turn(Here).at ELSE 0
    /\ short' = (n = 0) /\ single' = FALSE
    /\ UNCHANGED <<usage, set, text, call, nonops>>

end_of_group ==
    pc = "group" /\ EndOfGroup(Here) /\ advance(1) /\ UNCHANGED <<stats, parser>>

drop ==
    /\ pc = "group" /\ ~EndOfGroup(Here) /\ Turn(Here).idx = Sentinel
    /\ advance(IF Turn(Here).short THEN 0 ELSE 1)
    /\ UNCHANGED <<stats, parser>>

illegal ==
    /\ pc = "group" /\ ~EndOfGroup(Here) /\ Turn(Here).idx # Sentinel
    /\ Status(Here) = "ARG_ILLEGAL"
    /\ return(FALSE)

accept ==
    LET p == Here
        t == Turn(p)
        s == Status(p)
    IN  /\ pc = "group" /\ ~EndOfGroup(p) /\ t.idx # Sentinel /\ s # "ARG_ILLEGAL"
        /\ perform([desc |-> t.idx, name |-> t.name, arg |-> IF s = "ARG_OK" THEN t.arg ELSE NULL])
        /\ advance(IF Detached(p) THEN 2 ELSE IF t.short /\ s # "ARG_OK" THEN 0 ELSE 1)

returned == call = 5 /\ UNCHANGED vars

Next ==
    \/ begin \/ nonoption \/ stop_at_nonoption \/ terminator \/ option \/ end
    \/ end_of_group \/ drop \/ illegal \/ accept
    \/ returned

Spec == Init /\ [][Next]_vars

-----------------------------------------------------------------------------
(***************************************************************************)
(* Properties.                                                             *)
(***************************************************************************)

TypeOK ==
    /\ usage \in Tables /\ set \in Settings
    /\ text \in [1..2 -> Seq(Seq(STRING))]
    /\ argv \in [1..2 -> Seq(Nat)]
    /\ \A n \in 1..2 : /\ DOMAIN argv[n] = DOMAIN text[n]
                       /\ {argv[n][i] : i \in DOMAIN argv[n]} = DOMAIN text[n]
    /\ call \in 1..5 /\ pc \in {"call", "args", "group", "over"}
    /\ pos \in 1..Len(Args) + 1 /\ nonops \in 0..pos - 1
    /\ pc # "call" => /\ call \in 1..4
                      /\ numargs = IF set.counted THEN Len(Args) - pos + 1 ELSE -1
    /\ IF pc = "group" THEN pos <= Len(Args) /\ param \in 1..Len(Param) ELSE param = 0
    /\ short \in BOOLEAN /\ single \in BOOLEAN

(* What the arrays are sized for is enough: every write of perform() is to *)
(* a slot of the buffer, the list it goes to has its entry in options[],   *)
(* and with Stats the buffer keeps an unused slot at its end, on which the *)
(* next parse() relies to find where to go on.                             *)
BufferSuffices ==
    call >= 3 /\ mem # << >> =>
        /\ op_count <= Room
        /\ set.bufmax < 0 => op_count < Room
        /\ \A i \in Indices : opt(i) \in DOMAIN mem
        /\ \A k \in 0..Room - 1 : valid(mem, buf(k)) <=> k < op_count

(* The list that starts in options[i] holds copies of just the options of  *)
(* the buffer with index i, in the order of the buffer, whatever calls of  *)
(* parse() they are from; from each of its elements, first(), last(),      *)
(* count() and both directions give that same list.                        *)
SlotsOf(m, n, i) == {k \in 0..n - 1 : usage[m[buf(k)].desc].index = i}

ListsFollowBuffer ==
    call >= 3 /\ mem # << >> => \A i \in Indices :
        LET mine == SlotsOf(mem, op_count, i)
            list == Forward(mem, opt(i))
            Place(k) == Cardinality({j \in mine : j <= k})
            Data(o) == <<o.desc, o.name, o.arg>>
        IN  IF mine = {} THEN ~ valid(mem, opt(i)) /\ count(mem, opt(i)) = 0
            ELSE /\ Len(list) = Cardinality(mine)
                 /\ \A k \in mine : Data(mem[list[Place(k)]]) = Data(mem[buf(k)])
                 /\ Backward(mem, opt(i)) = Reverse(list)
                 /\ \A k \in DOMAIN list :
                       /\ first(mem, list[k]) = opt(i)
                       /\ last(mem, list[k]) = list[Len(list)]
                       /\ count(mem, list[k]) = Len(list)

(* The options in the buffer are in the order in which they were given,    *)
(* however often and by however much the vectors were rotated, and so are  *)
(* the arguments that are none.                                            *)
Before(p, q) ==
    \/ p[1] < q[1]
    \/ p[1] = q[1] /\ p[2] < q[2]
    \/ p[1] = q[1] /\ p[2] = q[2] /\ p[3] < q[3]

InOrder ==
    /\ \A j, k \in 0..op_count - 1 :
          j < k => Before(mem[buf(j)].name, mem[buf(k)].name)
    /\ \A j, k \in DOMAIN nonop_args.args : j < k => nonop_args.args[j] < nonop_args.args[k]

(* An argument serves one purpose: as options, as the argument of one      *)
(* option, or as one that is no option.                                    *)
Purposes(n, a) ==
    {<<"name">> : k \in {k \in 0..op_count - 1 : SubSeq(mem[buf(k)].name, 1, 2) = <<n, a>>}}
      \cup {<<"arg", k>> : k \in {k \in 0..op_count - 1 : mem[buf(k)].arg = <<n, a, 1>>}}
      \cup {<<"rest">> : k \in {k \in DOMAIN nonop_args.args :
                                   nonop_args.vec = n /\ nonop_args.args[k] = a}}

UsedOnce ==
    \A n \in 1..2 : \A a \in DOMAIN text[n] : Cardinality(Purposes(n, a)) <= 1

(* A parse() without an error gives the program every argument that does   *)
(* not look like an option, be it as the argument of an option, and of a   *)
(* "--" that is not itself the argument of an option it leaves everything  *)
(* that stands behind it, whatever it looks like, to the program.          *)
NothingLost ==
    \A n \in 1..2 :
        call = n + 3 /\ ~err /\ set.bufmax < 0 =>
            \A a \in DOMAIN text[n] :
                /\ IsNonOption(text[n][a]) => Purposes(n, a) # {}
                /\ IsTerminator(text[n][a]) =>
                      \/ \E k \in 0..op_count - 1 : <<"arg", k>> \in Purposes(n, a)
                      \/ \A b \in DOMAIN text[n] : b > a => <<"rest">> \in Purposes(n, b)

CommandLine == pc = "call" => InOrder /\ UsedOnce /\ NothingLost

(* Every call comes to its end: each step of workhorse() is a step on, to  *)
(* the next character of a group, the next argument or out of the call,    *)
(* and until the calls have returned there is a step (no deadlock).        *)
Rank == <<call, IF pc = "call" THEN 0 ELSE 1, pos, param>>

Lower(r, s) ==
    \E i \in DOMAIN r : r[i] < s[i] /\ \A j \in 1..i - 1 : r[j] = s[j]

Advances == [][Lower(Rank, Rank')]_vars

(* Each vector is reordered as ArgumentOrder allows.                       *)
Current(n) == pc # "call" /\ vec = n

Order(n) ==
    INSTANCE ArgumentOrder WITH
        Arguments <- Nat,
        taken     <- IF Current(n) THEN SubSeq(argv[n], 1, pos - nonops - 1) ELSE << >>,
        left      <- IF Current(n) THEN SubSeq(argv[n], pos - nonops, pos - 1) ELSE << >>,
        rest      <- IF Current(n) THEN SubSeq(argv[n], pos, Len(argv[n])) ELSE argv[n]

KeepsOrder ==
    /\ \A n \in 1..2 : Order(n)!Init
    /\ [][\A n \in 1..2 : [Order(n)!Next]_(Order(n)!vars)]_vars
=============================================================================
