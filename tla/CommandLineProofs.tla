-------------------------- MODULE CommandLineProofs --------------------------
(***************************************************************************)
(* What Stats counts is enough for Parser, and what Parser stores is the   *)
(* command line: for all usage arrays, argument vectors and parameters.    *)
(*                                                                         *)
(* The two pass over a vector at different times and find it in different  *)
(* orders, since Stats leaves it reordered.  The proof keeps, for each     *)
(* vector, a diary of the places that Stats has been at, which are closed  *)
(* under what a turn at each of them does; Parser then is at a place of    *)
(* the diary, with no more options than Stats had counted there, or has    *)
(* only arguments before it that are no options.                           *)
(*                                                                         *)
(* A vector is in its given order but for arguments that are no options    *)
(* and have been passed over.  From that, and from where each option was   *)
(* found, follow the order of the options and that no argument is used     *)
(* twice; from what each turn takes, that none is lost; and from the       *)
(* diary, that those left over are in order at the end of a call.          *)
(*                                                                         *)
(* The lists of options are rings of objects, of which a proof may say     *)
(* which ring an object is in and at which place.  What the functions that *)
(* follow the links return is then found by descent on that place.  Each   *)
(* option that is stored makes the ring of its index one longer, at the    *)
(* end, and so the rings follow the buffer.                                *)
(***************************************************************************)
EXTENDS OptionParserProofs, FiniteSetTheorems, FunctionTheorems, WellFoundedInduction

(* A set of numbers has a least one.                                       *)
LEMMA LeastIs ==
  ASSUME NEW S \in SUBSET Nat, S # {}
  PROVE  Least(S) \in S /\ \A y \in S : Least(S) <= y
<1> DEFINE R == {p \in Nat \X Nat : p[1] < p[2]}
<1>1. IsWellFoundedOn(R, Nat)
  BY NatLessThanWellFounded DEF OpToRel
<1>2. \A i, j \in Nat : i < j => <<i, j>> \in R
  OBVIOUS
<1> HIDE DEF R
<1>3. PICK x \in S : \A y \in S : ~ (<<y, x>> \in R)
  BY <1>1, WFMin
<1>4. ASSUME NEW y \in S PROVE x <= y
  <2>1. x \in Nat /\ y \in Nat /\ ~ (<<y, x>> \in R)
    BY <1>3
  <2>2. ~ (y < x)
    BY <1>2, <2>1
  <2>3. QED
    BY <2>1, <2>2
<1>5. QED
  BY <1>4 DEF Least

-----------------------------------------------------------------------------
(***************************************************************************)
(* What a turn in a group does, as a function of the place it is made at.  *)
(***************************************************************************)

Taken(p) ==
    IF EndOfGroup(p) THEN 1
    ELSE IF Turn(p).idx = Sentinel THEN IF Turn(p).short THEN 0 ELSE 1
    ELSE IF Detached(p) THEN 2
    ELSE IF Turn(p).short /\ Status(p) # "ARG_OK" THEN 0 ELSE 1

Stores(p)  == ~EndOfGroup(p) /\ Turn(p).idx # Sentinel /\ Status(p) # "ARG_ILLEGAL"
Refused(p) == ~EndOfGroup(p) /\ Turn(p).idx # Sentinel /\ Status(p) = "ARG_ILLEGAL"

(* The argument at the start of which a pointer into vector n points.      *)
Starts(n) == {<<n, a, 1>> : a \in DOMAIN text[n]}

(* Two places that differ in the next argument only.                       *)
Place == [vec : 1..2, arg : Nat, param : Nat \ {0}, short : BOOLEAN, single : BOOLEAN,
          next : Starts(1) \cup Starts(2) \cup {NULL}]

Alike(p, q) ==
    /\ p \in Place /\ q \in Place
    /\ p.vec = q.vec /\ p.arg = q.arg /\ p.param = q.param
    /\ p.short = q.short /\ p.single = q.single

LEMMA UsageType ==
  ASSUME TypeOK
  PROVE  usage \in Seq(Descriptor) /\ Len(usage) \in Nat /\ DOMAIN usage = 1..Len(usage)
BY ConstantsAssumption, LenProperties DEF TypeOK, ConstantsAssumption

(* What a turn finds is an entry of the usage array or the entry behind.   *)
LEMMA MatchIs ==
  ASSUME TypeOK
  PROVE  /\ \A s : LongMatch(s) \in 1..Sentinel
         /\ \A s : ShortMatch(s) \in 1..Sentinel
         /\ Dummy \in 1..Sentinel
<1> DEFINE D == DOMAIN usage
<1>1. Len(usage) \in Nat /\ D = 1..Len(usage) /\ Sentinel = Len(usage) + 1
  BY UsageType DEF Sentinel
<1>2. ASSUME NEW S \in SUBSET D PROVE Least(S \cup {Sentinel}) \in 1..Sentinel
  <2>1. S \cup {Sentinel} \in SUBSET Nat /\ S \cup {Sentinel} # {}
    BY <1>1
  <2>2. Least(S \cup {Sentinel}) \in S \cup {Sentinel}
    BY <2>1, LeastIs
  <2>3. QED
    BY <1>1, <2>2
<1>3. ASSUME NEW s PROVE LongMatch(s) \in 1..Sentinel
  <2> DEFINE exact == {i \in D : streq(usage[i].longopt, s)}
             abbr  == {i \in D : streqabbr(usage[i].longopt, s, set.min_abbr_len)}
  <2>1. exact \in SUBSET D /\ abbr \in SUBSET D
    OBVIOUS
  <2>2. LongMatch(s) = IF exact = {} /\ set.min_abbr_len > 0 /\ Cardinality(abbr) = 1
                       THEN Least(abbr) ELSE Least(exact \cup {Sentinel})
    BY DEF LongMatch
  <2>3. Cardinality(abbr) = 1 => abbr # {}
    BY FS_EmptySet
  <2> HIDE DEF exact, abbr
  <2>4. abbr # {} => Least(abbr) \in 1..Sentinel
    <3>1. abbr \in SUBSET Nat
      BY <1>1, <2>1
    <3>2. abbr # {} => Least(abbr) \in abbr
      BY <3>1, LeastIs
    <3>3. QED
      BY <1>1, <2>1, <3>2
  <2>5. QED
    BY <1>2, <2>1, <2>2, <2>3, <2>4
<1>4. ASSUME NEW s PROVE ShortMatch(s) \in 1..Sentinel
  <2>1. {i \in D : instr(s, usage[i].shortopt)} \in SUBSET D
    OBVIOUS
  <2>2. QED
    BY <1>2, <2>1 DEF ShortMatch
<1>5. Dummy \in 1..Sentinel
  <2>1. {i \in D : usage[i].shortopt = {} /\ usage[i].longopt = << >>} \in SUBSET D
    OBVIOUS
  <2>2. QED
    BY <1>2, <2>1 DEF Dummy
<1>6. QED
  BY <1>3, <1>4, <1>5

(* The fields of what a turn finds.                                        *)
LEMMA TurnIs ==
  ASSUME TypeOK, NEW p \in Place
  PROVE  /\ Turn(p).idx \in 1..Sentinel
         /\ ~ IsLong(p) => Turn(p).short = TRUE /\ Turn(p).at = p.param + 1
         /\ IsLong(p) => Turn(p).short = FALSE
<1> DEFINE t == IF IsLong(p) THEN LongTurn(p) ELSE ShortTurn(p)
<1>1. /\ t.idx \in 1..Sentinel
      /\ ~ IsLong(p) => t.short = TRUE /\ t.at = p.param + 1
      /\ IsLong(p) => t.short = FALSE
  BY MatchIs DEF LongTurn, ShortTurn
<1>2. t = [idx |-> t.idx, short |-> t.short, at |-> t.at, name |-> t.name, arg |-> t.arg]
  BY DEF LongTurn, ShortTurn
<1>3. Turn(p) = [t EXCEPT !.idx = IF @ = Sentinel THEN Dummy ELSE @]
  BY DEF Turn
<1> HIDE DEF t
<1>4. /\ Turn(p).idx = IF t.idx = Sentinel THEN Dummy ELSE t.idx
      /\ Turn(p).short = t.short /\ Turn(p).at = t.at
  BY <1>2, <1>3
<1>5. QED
  BY <1>1, <1>4, MatchIs

(* Two places alike have the same turn, but that its argument may be the   *)
(* next one of either, or is the same part of their own argument.          *)
LEMMA AlikeTurns ==
  ASSUME TypeOK, NEW p, NEW q, Alike(p, q)
  PROVE  /\ IsLong(p) = IsLong(q) /\ EndOfGroup(p) = EndOfGroup(q)
         /\ Turn(p).idx = Turn(q).idx /\ Turn(p).short = Turn(q).short
         /\ Turn(p).at = Turn(q).at /\ Turn(p).name = Turn(q).name
         /\ \/ Turn(p).arg = p.next /\ Turn(q).arg = q.next
            \/ /\ Turn(p).arg = Turn(q).arg
               /\ \E off \in Int : off > 1 /\ Turn(p).arg = <<p.vec, p.arg, off>>
<1>1. Word(p) = Word(q) /\ \A off : Pointer(p, off) = Pointer(q, off)
  BY DEF Alike, Word, Pointer
<1> DEFINE w == Word(p)
           from == IF w[2] = "-" THEN 3 ELSE 2
           eq == {i \in from..Len(w) : w[i] = "="}
<1>2. /\ LongTurn(p).idx = LongTurn(q).idx /\ LongTurn(p).short = LongTurn(q).short
      /\ LongTurn(p).at = LongTurn(q).at /\ LongTurn(p).name = LongTurn(q).name
      /\ LongTurn(p).arg = (IF eq # {} THEN Pointer(p, Least(eq) + 1) ELSE p.next)
      /\ LongTurn(q).arg = (IF eq # {} THEN Pointer(p, Least(eq) + 1) ELSE q.next)
  BY <1>1 DEF LongTurn, Alike
<1>3. eq # {} => Least(eq) + 1 \in Int /\ Least(eq) + 1 > 1
  <2>1. eq \in SUBSET Nat /\ \A i \in eq : i \in Int /\ i >= 2
    OBVIOUS
  <2>2. eq # {} => Least(eq) \in eq
    BY <2>1, LeastIs
  <2> DEFINE m == Least(eq)
  <2>3. eq # {} => m \in Int /\ m >= 2
    BY <2>1, <2>2
  <2> HIDE DEF m, eq
  <2>4. eq # {} => m + 1 \in Int /\ m + 1 > 1
    BY <2>3
  <2>5. QED
    BY <2>4 DEF m
<1>4. /\ ShortTurn(p).idx = ShortTurn(q).idx /\ ShortTurn(p).short = ShortTurn(q).short
      /\ ShortTurn(p).at = ShortTurn(q).at /\ ShortTurn(p).name = ShortTurn(q).name
      /\ ShortTurn(p).arg = (IF p.param + 1 = Len(w) THEN p.next ELSE Pointer(p, p.param + 2))
      /\ ShortTurn(q).arg = (IF p.param + 1 = Len(w) THEN q.next ELSE Pointer(p, p.param + 2))
      /\ p.param + 2 \in Int /\ p.param + 2 > 1
  BY <1>1 DEF ShortTurn, Alike, Place
<1>5. IsLong(p) = IsLong(q)
  BY <1>2 DEF IsLong, Alike
<1>6. EndOfGroup(p) = EndOfGroup(q)
  BY <1>1, <1>5 DEF EndOfGroup, Alike
<1> DEFINE t == IF IsLong(p) THEN LongTurn(p) ELSE ShortTurn(p)
           u == IF IsLong(q) THEN LongTurn(q) ELSE ShortTurn(q)
<1>7. /\ t = [idx |-> t.idx, short |-> t.short, at |-> t.at, name |-> t.name, arg |-> t.arg]
      /\ u = [idx |-> u.idx, short |-> u.short, at |-> u.at, name |-> u.name, arg |-> u.arg]
  BY DEF LongTurn, ShortTurn
<1>8. /\ Turn(p) = [t EXCEPT !.idx = IF @ = Sentinel THEN Dummy ELSE @]
      /\ Turn(q) = [u EXCEPT !.idx = IF @ = Sentinel THEN Dummy ELSE @]
  BY DEF Turn
<1>9. /\ t.idx = u.idx /\ t.short = u.short /\ t.at = u.at /\ t.name = u.name
      /\ \/ t.arg = p.next /\ u.arg = q.next
         \/ t.arg = u.arg /\ \E off \in Int : off > 1 /\ t.arg = <<p.vec, p.arg, off>>
  <2>1. CASE IsLong(p)
    BY <1>2, <1>3, <1>5, <2>1 DEF Pointer
  <2>2. CASE ~IsLong(p)
    BY <1>4, <1>5, <2>2 DEF Pointer
  <2>3. QED
    BY <2>1, <2>2
<1> HIDE DEF t, u
<1>10. /\ Turn(p).idx = (IF t.idx = Sentinel THEN Dummy ELSE t.idx)
       /\ Turn(q).idx = (IF u.idx = Sentinel THEN Dummy ELSE u.idx)
       /\ Turn(p).short = t.short /\ Turn(p).at = t.at /\ Turn(p).name = t.name
       /\ Turn(q).short = u.short /\ Turn(q).at = u.at /\ Turn(q).name = u.name
       /\ Turn(p).arg = t.arg /\ Turn(q).arg = u.arg
  BY <1>7, <1>8
<1>11. QED
  BY <1>5, <1>6, <1>9, <1>10

(* A pointer to the start of an argument is not null.                      *)
LEMMA StartIs ==
  ASSUME NEW x \in Starts(1) \cup Starts(2)
  PROVE  x # NULL /\ x[3] = 1
BY DEF Starts, NULL

(* What a turn finds is checked by a function that looks at its argument   *)
(* only for whether there is one and, if so, whether it is empty, and that *)
(* takes it or refuses the option whenever it looks.                       *)
LEMMA CheckIs ==
  ASSUME TypeOK, NEW d \in DOMAIN usage
  PROVE  usage[d].check_arg \in {"None", "Optional", "Required", "NonEmpty", "Unknown", "Any"}
<1>1. usage[d] \in Descriptor
  BY UsageType, ElementOfSeq
<1>2. QED
  BY <1>1 DEF Descriptor

LEMMA SameStatus ==
  ASSUME TypeOK, NEW d \in DOMAIN usage, NEW name, NEW x, NEW y,
         x # NULL, y # NULL, check_arg(d, name, x) \notin {"ARG_OK", "ARG_ILLEGAL"}
  PROVE  check_arg(d, name, y) = check_arg(d, name, x)
BY CheckIs DEF check_arg

LEMMA StatusWithMore ==
  ASSUME TypeOK, NEW d \in DOMAIN usage, NEW name, NEW y, y # NULL,
         check_arg(d, name, NULL) # "ARG_ILLEGAL"
  PROVE  /\ check_arg(d, name, y) # "ARG_ILLEGAL"
         /\ check_arg(d, name, y) # "ARG_OK" => check_arg(d, name, y) = check_arg(d, name, NULL)
BY CheckIs DEF check_arg

(* What a turn neither takes nor refuses it does not look at.              *)
LEMMA SameOutcome ==
  ASSUME TypeOK, NEW p, NEW q, Alike(p, q), p.next = NULL <=> q.next = NULL,
         p.next = q.next \/ (~ Refused(p) /\ Taken(p) # 2)
  PROVE  Taken(p) = Taken(q) /\ Stores(p) = Stores(q) /\ Refused(p) = Refused(q)
<1> DEFINE t == Turn(p)
           u == Turn(q)
<1>1. /\ EndOfGroup(p) = EndOfGroup(q) /\ t.idx = u.idx /\ t.short = u.short /\ t.name = u.name
      /\ \/ t.arg = p.next /\ u.arg = q.next
         \/ t.arg = u.arg /\ \E off \in Int : off > 1 /\ t.arg = <<p.vec, p.arg, off>>
  BY AlikeTurns
<1>2. /\ p.next # NULL => p.next[3] = 1
      /\ q.next # NULL => q.next[3] = 1
  BY StartIs DEF Alike, Place
<1>3. t.idx # Sentinel => t.idx \in DOMAIN usage
  <2>1. t.idx \in 1..Sentinel
    BY TurnIs DEF Alike
  <2> HIDE DEF t
  <2>2. QED
    BY <2>1, UsageType DEF Sentinel
<1> HIDE DEF t, u
<1>4. ~ EndOfGroup(p) /\ t.idx # Sentinel => Status(p) = Status(q) /\ Detached(p) = Detached(q)
  <2> SUFFICES ASSUME ~ EndOfGroup(p), t.idx # Sentinel
               PROVE  Status(p) = Status(q) /\ Detached(p) = Detached(q)
    OBVIOUS
  <2>1. Status(p) = check_arg(t.idx, t.name, t.arg) /\ Status(q) = check_arg(t.idx, t.name, u.arg)
    BY <1>1 DEF Status, t, u
  <2>2. /\ Detached(p) = (Status(p) = "ARG_OK" /\ t.arg # NULL /\ t.arg = p.next)
        /\ Detached(q) = (Status(q) = "ARG_OK" /\ u.arg # NULL /\ u.arg = q.next)
    BY DEF Detached, t, u
  <2>3. CASE t.arg = p.next /\ u.arg = q.next
    <3>1. CASE p.next = q.next
      BY <2>1, <2>2, <2>3, <3>1
    <3>2. CASE p.next # q.next
      <4>1. ~ Refused(p) /\ Taken(p) # 2 /\ p.next # NULL /\ q.next # NULL
        BY <3>2
      <4>2. Status(p) # "ARG_ILLEGAL" /\ ~ Detached(p)
        BY <4>1 DEF Refused, Taken, t
      <4>3. Status(p) # "ARG_OK"
        BY <2>2, <2>3, <4>1, <4>2
      <4>4. Status(q) = Status(p)
        BY <1>3, <2>1, <2>3, <4>1, <4>2, <4>3, SameStatus
      <4>5. QED
        BY <2>2, <4>2, <4>3, <4>4
    <3>3. QED
      BY <3>1, <3>2
  <2>4. CASE t.arg = u.arg /\ \E off \in Int : off > 1 /\ t.arg = <<p.vec, p.arg, off>>
    <3>1. t.arg # NULL => t.arg[3] # 1
      BY <2>4
    <3>2. Status(p) = Status(q)
      BY <2>1, <2>4
    <3>3. ~ (t.arg # NULL /\ t.arg = p.next) /\ ~ (u.arg # NULL /\ u.arg = q.next)
      BY <1>2, <2>4, <3>1
    <3>4. QED
      BY <2>2, <3>2, <3>3
  <2>5. QED
    BY <1>1, <2>3, <2>4
<1>5. QED
  BY <1>1, <1>4 DEF Taken, Stores, Refused, t, u

(* A turn that finds a next argument where there was none accepts what it  *)
(* accepted without, and does the same or takes that argument.             *)
LEMMA OutcomeWithMore ==
  ASSUME TypeOK, NEW p, NEW q, Alike(p, q), p.next = NULL, q.next # NULL, ~ Refused(p)
  PROVE  /\ ~ Refused(q) /\ Stores(p) = Stores(q)
         /\ Taken(q) = Taken(p) \/ (Taken(q) = 2 /\ Stores(q))
<1> DEFINE t == Turn(p)
           u == Turn(q)
<1>1. /\ EndOfGroup(p) = EndOfGroup(q) /\ t.idx = u.idx /\ t.short = u.short /\ t.name = u.name
      /\ \/ t.arg = p.next /\ u.arg = q.next
         \/ t.arg = u.arg /\ \E off \in Int : off > 1 /\ t.arg = <<p.vec, p.arg, off>>
  BY AlikeTurns
<1>2. q.next[3] = 1
  BY StartIs DEF Alike, Place
<1>3. t.idx # Sentinel => t.idx \in DOMAIN usage
  <2>1. t.idx \in 1..Sentinel
    BY TurnIs DEF Alike
  <2> HIDE DEF t
  <2>2. QED
    BY <2>1, UsageType DEF Sentinel
<1> HIDE DEF t, u
<1>4. CASE EndOfGroup(p) \/ t.idx = Sentinel
  BY <1>1, <1>4 DEF Taken, Stores, Refused, t, u
<1>5. CASE ~EndOfGroup(p) /\ t.idx # Sentinel
  <2>1. Status(p) = check_arg(t.idx, t.name, t.arg) /\ Status(q) = check_arg(t.idx, t.name, u.arg)
    BY <1>1 DEF Status, t, u
  <2>2. /\ Detached(p) = (Status(p) = "ARG_OK" /\ t.arg # NULL /\ t.arg = p.next)
        /\ Detached(q) = (Status(q) = "ARG_OK" /\ u.arg # NULL /\ u.arg = q.next)
    BY DEF Detached, t, u
  <2>3. ~Detached(p)
    BY <2>2
  <2>4. Status(p) # "ARG_ILLEGAL"
    BY <1>5 DEF Refused, t
  <2>5. CASE t.arg = p.next /\ u.arg = q.next
    <3>1. /\ Status(q) # "ARG_ILLEGAL"
          /\ Status(q) # "ARG_OK" => Status(q) = Status(p)
      BY <1>2, <1>3, <1>5, <2>1, <2>4, <2>5, StatusWithMore
    <3>2. Status(q) = "ARG_OK" => Detached(q)
      BY <2>2, <2>5
    <3>3. Status(q) # "ARG_OK" => ~Detached(q)
      BY <2>2
    <3>4. QED
      BY <1>1, <1>5, <2>3, <2>4, <3>1, <3>2, <3>3 DEF Taken, Stores, Refused, t, u
  <2>6. CASE t.arg = u.arg /\ \E off \in Int : off > 1 /\ t.arg = <<p.vec, p.arg, off>>
    <3>1. t.arg # NULL => t.arg[3] # 1
      BY <2>6
    <3>2. Status(p) = Status(q)
      BY <2>1, <2>6
    <3>3. ~Detached(q)
      BY <1>2, <2>2, <2>6, <3>1
    <3>4. QED
      BY <1>1, <1>5, <2>3, <2>4, <3>2, <3>3 DEF Taken, Stores, Refused, t, u
  <2>7. QED
    BY <1>1, <2>5, <2>6
<1>6. QED
  BY <1>4, <1>5

LEMMA TakenIs ==
  ASSUME TypeOK, NEW p \in Place
  PROVE  /\ Taken(p) \in 0..2
         /\ Taken(p) = 2 => p.next # NULL
         /\ Taken(p) = 0 => ~EndOfGroup(p) /\ Turn(p).short /\ Turn(p).at = p.param + 1
         /\ ~ (Stores(p) /\ Refused(p))
<1>1. Taken(p) \in 0..2
  BY DEF Taken
<1>2. Taken(p) = 2 => p.next # NULL
  BY DEF Taken, Detached
<1>3. Taken(p) = 0 => ~EndOfGroup(p) /\ Turn(p).short
  BY DEF Taken
<1>4. QED
  BY <1>1, <1>2, <1>3, TurnIs DEF Stores, Refused

-----------------------------------------------------------------------------
(***************************************************************************)
(* The steps of workhorse() in a group, by outcome.                        *)
(***************************************************************************)

(* Each vector holds the arguments that were given.                        *)
LEMMA VectorIs ==
  ASSUME TypeOK, NEW n \in 1..2
  PROVE  /\ argv[n] \in Seq(Nat) /\ Len(argv[n]) \in Nat /\ DOMAIN argv[n] = 1..Len(argv[n])
         /\ \A i \in 1..Len(argv[n]) : argv[n][i] \in Nat /\ argv[n][i] \in DOMAIN text[n]
<1>1. /\ argv[n] \in Seq(Nat) /\ DOMAIN argv[n] = DOMAIN text[n]
      /\ {argv[n][i] : i \in DOMAIN argv[n]} = DOMAIN text[n]
  BY DEF TypeOK
<1> DEFINE a == argv[n]
<1> HIDE DEF a
<1>2. a \in Seq(Nat) /\ {a[i] : i \in DOMAIN a} = DOMAIN text[n]
  BY <1>1 DEF a
<1>3. Len(a) \in Nat /\ DOMAIN a = 1..Len(a) /\ \A i \in 1..Len(a) : a[i] \in Nat
  BY <1>2, LenProperties, ElementOfSeq
<1>4. \A i \in 1..Len(a) : a[i] \in DOMAIN text[n]
  BY <1>2, <1>3
<1>5. QED
  BY <1>2, <1>3, <1>4 DEF a

LEMMA NextIs ==
  ASSUME TypeOK, pc # "call", pos <= Len(Args)
  PROVE  /\ NextArg \in Starts(1) \cup Starts(2) \cup {NULL}
         /\ NextArg # NULL <=> pos < Len(Args)
         /\ NextArg # NULL => NextArg = <<vec, Args[pos + 1], 1>>
         /\ Args[pos] \in DOMAIN text[vec] /\ Args[pos] \in Nat
<1>1. /\ vec \in 1..2 /\ Args \in Seq(Nat) /\ Len(Args) \in Nat /\ DOMAIN Args = 1..Len(Args)
      /\ pos \in 1..Len(Args)
      /\ \A i \in 1..Len(Args) : Args[i] \in DOMAIN text[vec] /\ Args[i] \in Nat
  <2>1. vec \in 1..2 /\ pos \in 1..Len(Args)
    BY CurrentVector DEF TypeOK
  <2>2. QED
    BY <2>1, VectorIs DEF Args
<1>2. numargs = IF set.counted THEN Len(Args) - pos + 1 ELSE -1
  BY DEF TypeOK
<1>3. (numargs > 1 \/ numargs < 0) <=> (set.counted => pos < Len(Args))
  BY <1>1, <1>2
<1>4. /\ pos < Len(Args) => NextArg = <<vec, Args[pos + 1], 1>> /\ pos + 1 \in 1..Len(Args)
      /\ ~ (pos < Len(Args)) => NextArg = NULL
  BY <1>1, <1>3 DEF NextArg
<1>5. NextArg \in Starts(1) \cup Starts(2) \cup {NULL}
  BY <1>1, <1>4 DEF Starts
<1>6. NextArg # NULL <=> pos < Len(Args)
  BY <1>4 DEF NULL
<1>7. QED
  BY <1>1, <1>4, <1>5, <1>6

LEMMA HereIs ==
  ASSUME TypeOK, pc = "group"
  PROVE  /\ Here \in Place /\ Here.vec = vec /\ Here.arg = Args[pos] /\ Here.param = param
         /\ Here.short = short /\ Here.single = single /\ Here.next = NextArg
         /\ Here.arg \in DOMAIN text[vec] /\ Word(Here) = Param
         /\ pos <= Len(Args)
         /\ NextArg # NULL <=> pos < Len(Args)
         /\ NextArg # NULL => NextArg = <<vec, Args[pos + 1], 1>>
<1>1. vec \in 1..2 /\ pos <= Len(Args)
  BY CurrentVector DEF TypeOK
<1>2. param \in Nat \ {0} /\ short \in BOOLEAN /\ single \in BOOLEAN
  <2>1. Len(Param) \in Nat
    BY <1>1, CurrentVector
  <2>2. param \in 1..Len(Param) /\ short \in BOOLEAN /\ single \in BOOLEAN
    BY DEF TypeOK
  <2>3. QED
    BY <2>1, <2>2
<1>3. QED
  BY <1>1, <1>2, NextIs DEF Here, Place, Word, Param

(* The option that a turn finds.                                           *)
Found(o) ==
    /\ o.desc \in DOMAIN usage /\ o.name = Turn(Here).name
    /\ o.arg = IF Status(Here) = "ARG_OK" THEN Turn(Here).arg ELSE NULL

(* A turn refuses its option, or accepts it, or passes it by.              *)
LEMMA GroupStep ==
  ASSUME TypeOK, pc = "group", Next, call # 5
  PROVE  \/ Refused(Here) /\ return(FALSE)
         \/ /\ ~Refused(Here) /\ advance(Taken(Here))
            /\ \/ Stores(Here) /\ \E o : Found(o) /\ perform(o)
               \/ ~Stores(Here) /\ UNCHANGED <<stats, parser>>
<1>1. CASE end_of_group
  BY <1>1 DEF end_of_group, Taken, Stores, Refused
<1>2. CASE drop
  BY <1>2 DEF drop, Taken, Stores, Refused
<1>3. CASE illegal
  BY <1>3 DEF illegal, Refused
<1>4. CASE accept
  <2> DEFINE t == Turn(Here)
             o == [desc |-> t.idx, name |-> t.name,
                   arg |-> IF Status(Here) = "ARG_OK" THEN t.arg ELSE NULL]
  <2>1. /\ ~EndOfGroup(Here) /\ t.idx # Sentinel /\ Status(Here) # "ARG_ILLEGAL" /\ perform(o)
        /\ advance(IF Detached(Here) THEN 2 ELSE IF t.short /\ Status(Here) # "ARG_OK" THEN 0 ELSE 1)
    BY <1>4 DEF accept
  <2>2. t.idx \in 1..Sentinel
    BY HereIs, TurnIs
  <2>3. /\ o.desc = t.idx /\ o.name = Turn(Here).name
        /\ o.arg = IF Status(Here) = "ARG_OK" THEN Turn(Here).arg ELSE NULL
    OBVIOUS
  <2> HIDE DEF o
  <2>4. Stores(Here) /\ ~Refused(Here) /\ advance(Taken(Here))
    BY <2>1 DEF Stores, Refused, Taken
  <2> HIDE DEF t
  <2>5. t.idx \in DOMAIN usage
    BY <2>1, <2>2, UsageType DEF Sentinel
  <2>6. QED
    BY <2>1, <2>3, <2>4, <2>5 DEF Found
<1>5. QED
  BY <1>1, <1>2, <1>3, <1>4 DEF Next, begin, add, parse, nonoption, stop_at_nonoption, terminator,
                               option, end, returned

(* The arguments from position k on are in the order in which they were    *)
(* given.                                                                  *)
SortedFrom(V, k) == \A i, j \in 1..Len(V) : k <= i /\ i < j => V[i] < V[j]

LEMMA RotatedSorted ==
  ASSUME NEW V, NEW W, NEW p \in Nat \ {0}, NEW k \in 0..p - 1, NEW n \in Nat, Len(V) \in Nat,
         p + n - 1 <= Len(V), Rotated(V, W, p, k, n), SortedFrom(V, p - k)
  PROVE  SortedFrom(W, p - k + n)
<1>1. Len(W) = Len(V)
  BY DEF Rotated
<1> DEFINE f(i) == IF i <= p + n - 1 THEN i - n ELSE i
<1>2. ASSUME NEW i \in 1..Len(V), p - k + n <= i
      PROVE  f(i) \in 1..Len(V) /\ p - k <= f(i) /\ W[i] = V[f(i)]
  <2>1. f(i) \in 1..Len(V) /\ p - k <= f(i)
    BY <1>2
  <2>2. CASE i <= p + n - 1
    <3>1. i \in p - k + n .. p + n - 1
      BY <1>2, <2>2
    <3>2. QED
      BY <2>1, <2>2, <3>1 DEF Rotated
  <2>3. CASE ~ (i <= p + n - 1)
    <3>1. p + n <= i
      BY <2>3
    <3>2. QED
      BY <2>1, <2>3, <3>1 DEF Rotated
  <2>4. QED
    BY <2>2, <2>3
<1>3. ASSUME NEW i \in 1..Len(V), NEW j \in 1..Len(V), i < j, p - k + n <= i
      PROVE  f(i) < f(j) /\ p - k + n <= j
  BY <1>3
<1> HIDE DEF f
<1>4. QED
  BY <1>1, <1>2, <1>3 DEF SortedFrom

-----------------------------------------------------------------------------
(***************************************************************************)
(* Diaries.  An entry is a place that Stats has been at: at counts the     *)
(* arguments that were taken before, count is buffer_max at that time,     *)
(* spot is all that a turn of a group depends on.                          *)
(***************************************************************************)

Entry == [pc : {"args", "group", "over"}, at : Nat \ {0}, spot : Place, count : Nat]

OpensOption(s) == ~IsNonOption(s) /\ ~IsTerminator(s)

(* Entry h is of the place that a step at g leads to.                      *)
Leads(g, h) ==
    /\ h.count >= g.count
    /\ \/ /\ g.pc = "args" /\ h.pc = "group" /\ h.at = g.at
          /\ OpensOption(Word(h.spot)) /\ h.spot.param = 1
          /\ h.spot.short = (Word(h.spot)[2] # "-")
          /\ h.spot.single = set.single_minus_longopt
       \/ g.pc = "args" /\ h.pc = "over" /\ h.at = g.at + 1
       \/ /\ g.pc = "group" /\ ~Refused(g.spot)
          /\ h.at = g.at + Taken(g.spot)
          /\ Stores(g.spot) => h.count >= g.count + 1
          /\ IF Taken(g.spot) = 0
             THEN /\ h.pc = "group"
                  /\ h.spot = [g.spot EXCEPT !.param = Turn(g.spot).at, !.short = TRUE, !.single = FALSE]
             ELSE h.pc = "args"

(* The places P of vector n up to e, when its arguments are V and l of     *)
(* them, which are no options, have been left out.                         *)
Closes(P, e) ==
    \A g \in P : /\ g.at <= e.at /\ g.count <= e.count
                 /\ g = e \/ \E h \in P : Leads(g, h)

GroupsAt(n, V, P, e, l) ==
    \A g \in P : g.pc = "group" =>
        /\ g.spot.vec = n
        /\ g.at = e.at => /\ e.pc = "group" /\ e.at + l <= Len(V) /\ g.spot.arg = V[e.at + l]
                          /\ g.spot.next # NULL <=> e.at + l < Len(V)
        /\ g.at # e.at => /\ g.spot.arg = V[g.at]
                          /\ g.spot.next # NULL => g.at < Len(V)
                          /\ g.spot.next = NULL => e.at = g.at + 1 /\ e.at + l = Len(V) + 1

(* What came next, as long as it matters which argument that is.           *)
NextAt(n, V, P, e, l) ==
    \A g \in P : g.pc = "group" /\ g.spot.next # NULL =>
        /\ g.at = e.at => g.spot.next = <<n, V[e.at + l + 1], 1>>
        /\ g.at # e.at /\ Taken(g.spot) = 2 => g.spot.next = <<n, V[g.at + 1], 1>>

OverAt(n, V, P) ==
    \A g \in P : g.pc = "over" => g.at >= 2 /\ IsTerminator(text[n][V[g.at - 1]])

LeftOut(n, V, e, l) ==
    /\ \A i \in e.at .. e.at + l - 1 : IsNonOption(text[n][V[i]])
    /\ l > 0 => set.stats_gnu
    /\ SortedFrom(V, e.at)

Diary(n, V, P, e, l) ==
    /\ P \in SUBSET Entry /\ e \in P /\ l \in Nat /\ e.at + l <= Len(V) + 1
    /\ Closes(P, e) /\ GroupsAt(n, V, P, e, l) /\ NextAt(n, V, P, e, l)
    /\ OverAt(n, V, P) /\ LeftOut(n, V, e, l)

(* Nothing comes after "--".                                               *)
LEMMA OverIsLast ==
  ASSUME NEW P, NEW e, Closes(P, e), NEW g \in P, g.pc = "over"
  PROVE  g = e
BY DEF Closes, Leads

(* An argument that is no option is left out.                              *)
LEMMA LeaveOut ==
  ASSUME NEW n, NEW V, NEW P, NEW e, NEW l, Len(V) \in Nat, Diary(n, V, P, e, l),
         e.pc = "args", e.at + l <= Len(V), IsNonOption(text[n][V[e.at + l]]), set.stats_gnu
  PROVE  Diary(n, V, P, e, l + 1)
<1>1. /\ e \in Entry /\ e.at \in Nat /\ l \in Nat /\ l + 1 \in Nat /\ e.at + (l + 1) <= Len(V) + 1
      /\ P \in SUBSET Entry /\ e \in P
  BY DEF Diary, Entry
<1>2. GroupsAt(n, V, P, e, l + 1) /\ NextAt(n, V, P, e, l + 1)
  BY <1>1 DEF Diary, GroupsAt, NextAt
<1>3. LeftOut(n, V, e, l + 1)
  <2> SUFFICES ASSUME NEW i \in e.at .. e.at + (l + 1) - 1
               PROVE  IsNonOption(text[n][V[i]])
    BY DEF LeftOut, Diary
  <2>1. CASE i = e.at + l
    BY <2>1
  <2>2. CASE i # e.at + l
    <3>1. i \in e.at .. e.at + l - 1
      BY <1>1, <2>2
    <3>2. QED
      BY <3>1 DEF Diary, LeftOut
  <2>3. QED
    BY <2>1, <2>2
<1>4. QED
  BY <1>1, <1>2, <1>3 DEF Diary

(* The next entry of a diary.                                              *)
LEMMA ClosesOn ==
  ASSUME NEW P, NEW e \in P, NEW h, P \in SUBSET Entry, h \in Entry,
         Closes(P, e), Leads(e, h), h.at >= e.at
  PROVE  Closes(P \cup {h}, h)
<1> SUFFICES ASSUME NEW g \in P \cup {h}
             PROVE  /\ g.at <= h.at /\ g.count <= h.count
                    /\ g = h \/ \E f \in P \cup {h} : Leads(g, f)
  BY DEF Closes
<1>1. h.count >= e.count /\ h.count \in Nat /\ e.count \in Nat /\ h.at \in Nat /\ e.at \in Nat
  BY DEF Leads, Entry
<1>2. CASE g = h
  BY <1>1, <1>2
<1>3. CASE g \in P
  <2>1. g.at <= e.at /\ g.count <= e.count /\ g.at \in Nat /\ g.count \in Nat
    BY <1>3 DEF Closes, Entry
  <2>2. g.at <= h.at /\ g.count <= h.count
    BY <1>1, <2>1
  <2>3. CASE g = e
    BY <2>2, <2>3
  <2>4. CASE g # e
    BY <1>3, <2>2, <2>4 DEF Closes
  <2>5. QED
    BY <2>3, <2>4
<1>4. QED
  BY <1>2, <1>3

(* A step that takes nothing: into a group, or on within it.               *)
LEMMA StayOn ==
  ASSUME NEW n, NEW V, NEW P, NEW e, NEW l, NEW h, Len(V) \in Nat, Diary(n, V, P, e, l),
         h \in Entry, Leads(e, h), h.pc = "group", h.at = e.at, e.at + l <= Len(V),
         h.spot.vec = n, h.spot.arg = V[e.at + l], h.spot.next # NULL <=> e.at + l < Len(V),
         h.spot.next # NULL => h.spot.next = <<n, V[e.at + l + 1], 1>>
  PROVE  Diary(n, V, P \cup {h}, h, l)
<1>1. /\ P \in SUBSET Entry /\ e \in P /\ l \in Nat /\ e.at + l <= Len(V) + 1
      /\ Closes(P, e) /\ GroupsAt(n, V, P, e, l) /\ NextAt(n, V, P, e, l)
      /\ OverAt(n, V, P) /\ LeftOut(n, V, e, l)
      /\ e.at \in Nat
  BY DEF Diary, Entry
<1>2. Closes(P \cup {h}, h)
  BY <1>1, ClosesOn
<1>3. GroupsAt(n, V, P \cup {h}, h, l)
  BY <1>1 DEF GroupsAt
<1>7. NextAt(n, V, P \cup {h}, h, l)
  BY <1>1 DEF NextAt
<1>4. OverAt(n, V, P \cup {h})
  BY <1>1 DEF OverAt
<1>5. LeftOut(n, V, h, l)
  BY <1>1 DEF LeftOut
<1>6. QED
  BY <1>1, <1>2, <1>3, <1>4, <1>5, <1>7 DEF Diary

(* A step that takes k arguments, each to before those left out.           *)
LEMMA TakeOn ==
  ASSUME NEW n, NEW V, NEW W, NEW P, NEW e, NEW l, NEW h, NEW k \in 1..2, Len(V) \in Nat,
         Diary(n, V, P, e, l), h \in Entry, Leads(e, h), h.at = e.at + k, h.pc # "group",
         e.at + l + k - 1 <= Len(V), Rotated(V, W, e.at + l, l, k),
         e.pc = "group" => (k = 2 => e.spot.next # NULL),
         h.pc = "over" => k = 1 /\ IsTerminator(text[n][V[e.at + l]])
  PROVE  Diary(n, W, P \cup {h}, h, l)
<1>1. /\ P \in SUBSET Entry /\ e \in P /\ l \in Nat /\ e.at + l <= Len(V) + 1
      /\ Closes(P, e) /\ GroupsAt(n, V, P, e, l) /\ NextAt(n, V, P, e, l)
      /\ OverAt(n, V, P) /\ LeftOut(n, V, e, l)
      /\ e.at \in Nat \ {0} /\ \A g \in P : g.at \in Nat \ {0} /\ g.at <= e.at
  BY DEF Diary, Entry, Closes
<1>2. Closes(P \cup {h}, h)
  BY <1>1, ClosesOn
<1>3. /\ Len(W) = Len(V)
      /\ \A i \in e.at .. e.at + k - 1 : W[i] = V[i + l]
      /\ \A i \in e.at + k .. e.at + l + k - 1 : W[i] = V[i - k]
      /\ \A i \in 1..e.at - 1 : W[i] = V[i]
  <2> DEFINE p == e.at + l
  <2>0. e.at \in Nat /\ l \in Nat
    BY <1>1
  <2>1. p \in Nat /\ p = e.at + l
    BY <2>0
  <2>2. Rotated(V, W, p, l, k)
    OBVIOUS
  <2> HIDE DEF p
  <2>3. /\ Len(W) = Len(V)
        /\ \A i \in p - l .. p - l + k - 1 : W[i] = V[i + l]
        /\ \A i \in p - l + k .. p + k - 1 : W[i] = V[i - k]
        /\ \A i \in 1..Len(V) : i < p - l \/ p + k <= i => W[i] = V[i]
    BY <2>2 DEF Rotated
  <2>4. p - l = e.at /\ p + k - 1 = e.at + l + k - 1 /\ p + k - 1 <= Len(V)
    BY <2>0, <2>1
  <2>5. \A i \in 1..e.at - 1 : W[i] = V[i]
    <3>1. \A i \in 1..p - l - 1 : i \in 1..Len(V) /\ i < p - l
      <4>1. p \in Nat /\ l \in Nat /\ Len(V) \in Nat
        BY <2>0, <2>1
      <4>2. k \in Nat /\ k >= 1
        OBVIOUS
      <4>3. p + k - 1 <= Len(V)
        BY <2>4
      <4>4. p - l - 1 <= Len(V)
        BY ONLY <4>1, <4>2, <4>3
      <4>5. QED
        BY <4>1, <4>4
    <3>2. \A i \in 1..p - l - 1 : W[i] = V[i]
      BY <2>3, <3>1
    <3>3. QED
      BY <2>4, <3>2
  <2>6. QED
    BY <2>3, <2>4, <2>5
<1>4. W[e.at] = V[e.at + l] /\ \A i \in 1..e.at - 1 : W[i] = V[i]
  <2>1. e.at \in Nat
    BY <1>1
  <2>2. e.at \in e.at .. e.at + k - 1
    BY <2>1
  <2>3. QED
    BY <1>3, <2>2, Zenon
<1>5. GroupsAt(n, W, P \cup {h}, h, l)
  <2> SUFFICES ASSUME NEW g \in P, g.pc = "group"
               PROVE  /\ g.spot.vec = n
                      /\ g.at # h.at /\ g.spot.arg = W[g.at]
                      /\ g.spot.next # NULL => g.at < Len(W)
                      /\ g.spot.next = NULL => h.at = g.at + 1 /\ h.at + l = Len(W) + 1
    BY DEF GroupsAt
  <2>1. g.spot.vec = n /\ g.at # h.at
    BY <1>1 DEF GroupsAt
  <2>2. CASE g.at = e.at
    <3>1. /\ e.pc = "group" /\ g.spot.arg = V[e.at + l]
          /\ g.spot.next # NULL <=> e.at + l < Len(V)
          /\ e.spot.next # NULL <=> e.at + l < Len(V)
      BY <1>1, <2>2 DEF GroupsAt
    <3>2. g.spot.next = NULL => k = 1 /\ e.at + l = Len(V)
      BY <1>1, <3>1
    <3>3. QED
      BY <1>1, <1>3, <1>4, <2>1, <2>2, <3>1, <3>2
  <2>3. CASE g.at # e.at
    <3>1. g.spot.arg = V[g.at] /\ (g.spot.next # NULL => g.at < Len(V))
      BY <1>1, <2>3 DEF GroupsAt
    <3>2. g.spot.next # NULL
      <4>1. g.spot.next = NULL => e.at + l = Len(V) + 1
        BY <1>1, <2>3 DEF GroupsAt
      <4>2. e.at + l # Len(V) + 1
        BY <1>1
      <4>3. QED
        BY <4>1, <4>2
    <3>3. g.at \in 1..e.at - 1
      BY <1>1, <2>3
    <3>4. g.spot.arg = W[g.at] /\ g.at < Len(W)
      <4>1. g.spot.arg = V[g.at]
        BY <1>1, <2>3 DEF GroupsAt
      <4>2. g.at < Len(V)
        BY <1>1, <2>3, <3>2 DEF GroupsAt
      <4>3. QED
        BY <1>3, <3>3, <4>1, <4>2
    <3>5. QED
      BY <2>1, <3>2, <3>4
  <2>4. QED
    BY <2>2, <2>3
<1>6. OverAt(n, W, P \cup {h})
  <2> SUFFICES ASSUME NEW g \in P \cup {h}, g.pc = "over"
               PROVE  g.at >= 2 /\ IsTerminator(text[n][W[g.at - 1]])
    BY DEF OverAt
  <2>1. g = h
    <3>1. e.pc # "over"
      BY DEF Leads
    <3>2. g \in P => g = e
      BY <1>1, OverIsLast
    <3>3. QED
      BY <3>1, <3>2
  <2>2. k = 1 /\ g.at - 1 = e.at /\ g.at >= 2
    <3>1. e.at \in Nat \ {0}
      BY <1>1
    <3>2. k = 1 /\ g.at = e.at + 1
      BY <2>1
    <3>3. QED
      BY <3>1, <3>2
  <2>3. W[g.at - 1] = V[e.at + l]
    BY <1>4, <2>2
  <2>4. QED
    BY <2>1, <2>2, <2>3
<1>7. LeftOut(n, W, h, l)
  <2>1. ASSUME NEW i \in h.at .. h.at + l - 1 PROVE IsNonOption(text[n][W[i]])
    <3>1. i \in e.at + k .. e.at + l + k - 1 /\ i - k \in e.at .. e.at + l - 1
      <4> DEFINE a == e.at
      <4>1. a \in Nat /\ l \in Nat /\ k \in Nat /\ i \in a + k .. a + k + l - 1
        BY <1>1, <2>1
      <4> HIDE DEF a
      <4>2. i \in Int /\ i - k \in Int /\ a + k <= i /\ i <= a + k + l - 1
        BY <4>1
      <4>3. i \in a + k .. a + l + k - 1
        BY ONLY <4>1, <4>2
      <4>4. i - k \in a .. a + l - 1
        BY ONLY <4>1, <4>2
      <4>5. QED
        BY <4>3, <4>4 DEF a
    <3>2. W[i] = V[i - k]
      BY <1>3, <3>1
    <3>3. QED
      BY <1>1, <3>1, <3>2 DEF LeftOut
  <2>2. SortedFrom(W, h.at)
    <3>1. PICK p : p = e.at + l
      OBVIOUS
    <3> DEFINE a == e.at
    <3>6. a \in Nat \ {0} /\ l \in Nat /\ p = a + l /\ h.at = a + k /\ a + l + k - 1 <= Len(V)
      BY <1>1, <3>1
    <3> HIDE DEF a
    <3>2. /\ p \in Nat \ {0} /\ l \in 0..p - 1 /\ k \in Nat /\ p + k - 1 <= Len(V)
          /\ p - l = a /\ p - l + k = h.at
      BY <3>6
    <3>3. Rotated(V, W, p, l, k) /\ SortedFrom(V, p - l)
      BY <1>1, <3>1, <3>2 DEF LeftOut, a
    <3>4. SortedFrom(W, p - l + k)
      BY <3>2, <3>3, RotatedSorted
    <3>5. QED
      BY <3>2, <3>4
  <2>3. QED
    BY <1>1, <2>1, <2>2 DEF LeftOut
<1>8. h.at + l <= Len(W) + 1
  BY <1>1, <1>3
<1>10. NextAt(n, W, P \cup {h}, h, l)
  <2>1. ASSUME NEW g \in P PROVE g.at # h.at
    BY <1>1
  <2> SUFFICES ASSUME NEW g \in P, g.pc = "group", g.spot.next # NULL, Taken(g.spot) = 2
               PROVE  g.spot.next = <<n, W[g.at + 1], 1>>
    BY <2>1 DEF NextAt
  <2>2. CASE g.at = e.at
    <3>1. g = e
      <4>1. g # e => \E f \in P : Leads(g, f) /\ f.at <= e.at /\ f.at \in Nat
        BY <1>1 DEF Closes
      <4>2. \A f \in P : Leads(g, f) => f.at = g.at + 2
        BY DEF Leads
      <4>3. QED
        BY <1>1, <2>2, <4>1, <4>2
    <3>2. k = 2
      <4>1. h.at = e.at + 2
        BY <3>1 DEF Leads
      <4>2. QED
        BY <1>1, <4>1
    <3>3. g.spot.next = <<n, V[e.at + l + 1], 1>>
      BY <1>1, <2>2 DEF NextAt
    <3>4. W[e.at + 1] = V[e.at + l + 1]
      <4>1. e.at + 1 \in e.at .. e.at + k - 1 /\ (e.at + 1) + l = e.at + l + 1
        BY <1>1, <3>2
      <4>2. W[e.at + 1] = V[(e.at + 1) + l]
        BY <1>3, <4>1
      <4>3. QED
        BY <4>1, <4>2
    <3>5. QED
      BY <2>1, <2>2, <3>3, <3>4
  <2>3. CASE g.at # e.at
    <3>1. g.spot.next = <<n, V[g.at + 1], 1>>
      BY <1>1, <2>3 DEF NextAt
    <3>2. g.at + 2 <= e.at
      <4>1. PICK f \in P : Leads(g, f) /\ f.at <= e.at
        BY <1>1, <2>3 DEF Closes
      <4>2. f.at = g.at + 2
        BY <4>1 DEF Leads
      <4>3. QED
        BY <4>1, <4>2
    <3>3. g.at + 1 \in 1..e.at - 1
      <4>1. g.at \in Nat /\ e.at \in Nat
        BY <1>1
      <4>2. QED
        BY <3>2, <4>1
    <3>4. W[g.at + 1] = V[g.at + 1]
      BY <1>4, <3>3
    <3>5. QED
      BY <2>1, <3>1, <3>4
  <2>4. QED
    BY <2>2, <2>3
<1>9. QED
  BY <1>1, <1>2, <1>5, <1>6, <1>7, <1>8, <1>10 DEF Diary

-----------------------------------------------------------------------------
(***************************************************************************)
(* While the calls last, the usage array, the parameters and the texts     *)
(* stay, and with them all that is said of a place or of a diary.          *)
(***************************************************************************)

LEMMA SameMatches ==
  ASSUME UNCHANGED <<usage, set, text>>
  PROVE  /\ Sentinel' = Sentinel /\ Dummy' = Dummy
         /\ \A s : LongMatch(s)' = LongMatch(s)
         /\ \A s : ShortMatch(s)' = ShortMatch(s)
<1>1. Sentinel' = Sentinel
  BY DEF Sentinel
<1>2. Dummy' = Dummy
  BY DEF Dummy, Sentinel
<1>3. \A s : LongMatch(s)' = LongMatch(s)
  BY DEF LongMatch, Sentinel
<1>4. \A s : ShortMatch(s)' = ShortMatch(s)
  BY DEF ShortMatch, Sentinel
<1>5. QED
  BY <1>1, <1>2, <1>3, <1>4

LEMMA SameTurns ==
  ASSUME UNCHANGED <<usage, set, text>>, NEW CONSTANT p
  PROVE  /\ Word(p)' = Word(p) /\ LongTurn(p)' = LongTurn(p) /\ ShortTurn(p)' = ShortTurn(p)
         /\ IsLong(p)' = IsLong(p) /\ EndOfGroup(p)' = EndOfGroup(p) /\ Turn(p)' = Turn(p)
<1>1. Word(p)' = Word(p)
  BY DEF Word
<1>2. LongTurn(p)' = LongTurn(p)
  BY DEF LongTurn, LongMatch, Sentinel, Word, Pointer
<1>3. ShortTurn(p)' = ShortTurn(p)
  BY DEF ShortTurn, ShortMatch, Sentinel, Word, Pointer
<1>4. IsLong(p)' = IsLong(p)
  BY <1>2 DEF IsLong, Sentinel
<1>5. EndOfGroup(p)' = EndOfGroup(p)
  BY <1>1, <1>4 DEF EndOfGroup
<1>6. Turn(p)' = Turn(p)
  BY <1>2, <1>3, <1>4, SameMatches DEF Turn
<1>7. QED
  BY <1>1, <1>2, <1>3, <1>4, <1>5, <1>6

LEMMA SameOutcomes ==
  ASSUME UNCHANGED <<usage, set, text>>, NEW CONSTANT p
  PROVE  /\ Status(p)' = Status(p) /\ Detached(p)' = Detached(p)
         /\ Taken(p)' = Taken(p) /\ Stores(p)' = Stores(p) /\ Refused(p)' = Refused(p)
<1>0. Turn(p)' = Turn(p) /\ EndOfGroup(p)' = EndOfGroup(p) /\ Sentinel' = Sentinel
  BY SameTurns, SameMatches
<1>1. Status(p)' = Status(p)
  BY <1>0 DEF Status, check_arg, TextAt, namelen
<1>2. Detached(p)' = Detached(p)
  BY <1>0, <1>1 DEF Detached
<1>3. Taken(p)' = Taken(p)
  BY <1>0, <1>1, <1>2 DEF Taken
<1>4. Stores(p)' = Stores(p)
  BY <1>0, <1>1 DEF Stores
<1>5. Refused(p)' = Refused(p)
  BY <1>0, <1>1 DEF Refused
<1>6. QED
  BY <1>1, <1>2, <1>3, <1>4, <1>5

LEMMA SameLeads ==
  ASSUME UNCHANGED <<usage, set, text>>, NEW CONSTANT g, NEW CONSTANT h
  PROVE  Leads(g, h)' = Leads(g, h)
<1>1. /\ Word(h.spot)' = Word(h.spot)
      /\ Turn(g.spot)' = Turn(g.spot) /\ Refused(g.spot)' = Refused(g.spot)
      /\ Taken(g.spot)' = Taken(g.spot) /\ Stores(g.spot)' = Stores(g.spot)
  BY SameTurns, SameOutcomes
<1>2. QED
  BY <1>1 DEF Leads

LEMMA SameDiary ==
  ASSUME UNCHANGED <<usage, set, text>>, NEW CONSTANT n, NEW CONSTANT V, NEW CONSTANT P,
         NEW CONSTANT e, NEW CONSTANT l
  PROVE  Diary(n, V, P, e, l)' = Diary(n, V, P, e, l)
<1>1. Closes(P, e)' = Closes(P, e)
  BY SameLeads DEF Closes
<1>2. GroupsAt(n, V, P, e, l)' = GroupsAt(n, V, P, e, l)
  BY DEF GroupsAt
<1>3. OverAt(n, V, P)' = OverAt(n, V, P)
  BY DEF OverAt
<1>4. LeftOut(n, V, e, l)' = LeftOut(n, V, e, l)
  BY DEF LeftOut
<1>5. Entry' = Entry
  BY DEF Entry, Place, Starts
<1>7. NextAt(n, V, P, e, l)' = NextAt(n, V, P, e, l)
  <2>1. \A g \in P : Taken(g.spot)' = Taken(g.spot)
    BY SameOutcomes
  <2>2. QED
    BY <2>1 DEF NextAt
<1>6. QED
  BY <1>1, <1>2, <1>3, <1>4, <1>5, <1>7 DEF Diary

-----------------------------------------------------------------------------
(***************************************************************************)
(* Stats writes the diary of a vector.                                     *)
(***************************************************************************)

(* The diary begins with c counted.                                        *)
Begins(P, c) == \E s \in P : s.pc = "args" /\ s.at = 1 /\ s.count = c

(* Why the call that wrote the diary ended.                                *)
Closed(n, V, P, e, l) ==
    /\ Diary(n, V, P, e, l)
    /\ \/ e.pc = "over"
       \/ e.pc = "args" /\ e.at + l = Len(V) + 1
       \/ /\ e.pc = "args" /\ e.at + l <= Len(V) /\ IsNonOption(text[n][V[e.at + l]])
          /\ ~ set.stats_gnu
       \/ e.pc = "group" /\ Refused(e.spot)

(* Stats is in vector n, which it began with c counted.                    *)
Writing(n, c) ==
    \E V, P, e, l :
        /\ V = argv[n] /\ l = nonops /\ Diary(n, V, P, e, l) /\ Begins(P, c)
        /\ e.pc = pc /\ e.at = pos - nonops /\ e.count = buffer_max
        /\ pc = "group" => e.spot = Here

(* Stats has been through vector n, and has then counted d.                *)
Written(n, c, d) ==
    \E V, P, e, l :
        V = argv[n] /\ Closed(n, V, P, e, l) /\ Begins(P, c) /\ e.count = d

(* Where the diary and the workhorse are.                                  *)
LEMMA WhereIs ==
  ASSUME TypeOK, pc # "call", NEW n \in 1..2, vec = n
  PROVE  /\ Args = argv[n] /\ Args \in Seq(Nat) /\ Len(Args) \in Nat
         /\ pos \in 1..Len(Args) + 1 /\ nonops \in 0..pos - 1
         /\ pos \in Nat /\ nonops \in Nat /\ pos - nonops \in Nat \ {0}
         /\ (pos - nonops) + nonops = pos
         /\ AtEnd <=> pos = Len(Args) + 1
         /\ ~AtEnd <=> pos <= Len(Args)
         /\ Param = text[n][Args[pos]]
<1>1. /\ Args = argv[n] /\ Args \in Seq(Nat) /\ Len(Args) \in Nat
      /\ pos \in 1..Len(Args) + 1 /\ nonops \in 0..pos - 1
  BY CurrentVector DEF Args
<1>2. numargs = IF set.counted THEN Len(Args) - pos + 1 ELSE -1
  BY DEF TypeOK
<1>3. AtEnd <=> pos = Len(Args) + 1
  BY <1>1, <1>2 DEF AtEnd
<1>4. ~AtEnd <=> pos <= Len(Args)
  BY <1>1, <1>3
<1>5. /\ pos \in Nat /\ nonops \in Nat /\ pos - nonops \in Nat \ {0}
      /\ (pos - nonops) + nonops = pos
  BY <1>1
<1>6. QED
  BY <1>1, <1>3, <1>4, <1>5 DEF Param

LEMMA WriteNonoption ==
  ASSUME TypeOK, NEW n \in 1..2, NEW c, vec = n, Count(call), Writing(n, c), nonoption
  PROVE  Writing(n, c)'
<1>1. PICK V, P, e, l :
        /\ V = argv[n] /\ l = nonops /\ Diary(n, V, P, e, l) /\ Begins(P, c)
        /\ e.pc = pc /\ e.at = pos - nonops /\ e.count = buffer_max
  BY DEF Writing
<1>2. /\ Args = argv[n] /\ Len(Args) \in Nat /\ pos \in Nat /\ nonops \in Nat
      /\ (pos - nonops) + nonops = pos /\ pos <= Len(Args)
      /\ Param = text[n][Args[pos]]
  <2>1. pc # "call" /\ ~AtEnd
    BY DEF nonoption
  <2>2. QED
    BY <2>1, WhereIs
<1>3. IsNonOption(Param) /\ set.stats_gnu
  BY DEF nonoption, Gnu
<1>4. e.at + l = pos /\ e.pc = "args" /\ Len(V) \in Nat
  BY <1>1, <1>2 DEF nonoption
<1>5. Diary(n, V, P, e, l + 1)
  BY <1>1, <1>2, <1>3, <1>4, LeaveOut
<1>6. Diary(n, V, P, e, l + 1)' = Diary(n, V, P, e, l + 1)
  BY SameDiary DEF nonoption
<1>7. /\ argv' = argv /\ nonops' = l + 1 /\ pos' = pos + 1 /\ pc' = "args" /\ buffer_max' = buffer_max
      /\ pos' - nonops' = e.at
  BY <1>1, <1>2 DEF nonoption, stats
<1>8. QED
  BY <1>1, <1>4, <1>5, <1>6, <1>7 DEF Writing

LEMMA WriteOption ==
  ASSUME TypeOK, NEW n \in 1..2, NEW c, vec = n, Count(call), Writing(n, c), option
  PROVE  Writing(n, c)'
<1>1. PICK V, P, e, l :
        /\ V = argv[n] /\ l = nonops /\ Diary(n, V, P, e, l) /\ Begins(P, c)
        /\ e.pc = pc /\ e.at = pos - nonops /\ e.count = buffer_max
  BY DEF Writing
<1>2. /\ Args = argv[n] /\ Len(Args) \in Nat /\ pos \in Nat /\ nonops \in Nat
      /\ (pos - nonops) + nonops = pos /\ pos <= Len(Args)
      /\ Param = text[n][Args[pos]]
  <2>1. pc # "call" /\ ~AtEnd
    BY DEF option
  <2>2. QED
    BY <2>1, WhereIs
<1>3. e.at + l = pos /\ e.pc = "args" /\ Len(V) \in Nat /\ e \in Entry
  BY <1>1, <1>2 DEF option, Diary
<1> DEFINE S == [vec |-> vec, arg |-> Args[pos], param |-> 1, short |-> (Param[2] # "-"),
                 single |-> set.single_minus_longopt, next |-> NextArg]
           h == [pc |-> "group", at |-> e.at, spot |-> S, count |-> e.count]
<1>4. /\ S \in Place /\ S.vec = n /\ S.arg = V[e.at + l] /\ Word(S) = Param
      /\ S.next # NULL <=> e.at + l < Len(V)
      /\ S.next # NULL => S.next = <<n, V[e.at + l + 1], 1>>
  <2>1. /\ NextArg \in Starts(1) \cup Starts(2) \cup {NULL}
        /\ NextArg # NULL <=> pos < Len(Args)
        /\ NextArg # NULL => NextArg = <<vec, Args[pos + 1], 1>>
        /\ Args[pos] \in Nat
    BY <1>2, NextIs DEF option
  <2>2. set.single_minus_longopt \in BOOLEAN
    BY ConstantsAssumption DEF TypeOK, ConstantsAssumption, Parameters
  <2>3. S \in Place
    BY <2>1, <2>2 DEF Place
  <2>4. QED
    BY <1>1, <1>2, <1>3, <2>1, <2>3 DEF Word
<1>5. Here' = S
  <2>1. vec' = vec /\ Args' = Args /\ pos' = pos /\ numargs' = numargs
    BY DEF option, vec, Args
  <2>2. NextArg' = NextArg
    BY <2>1 DEF NextArg
  <2>3. QED
    BY <2>1, <2>2 DEF Here, option
<1> HIDE DEF S
<1>6. /\ h \in Entry /\ h.at = e.at /\ h.pc = "group" /\ h.spot = S /\ h.count = e.count
      /\ h.at >= e.at
  BY <1>3, <1>4 DEF Entry
<1>7. Leads(e, h)
  <2>1. OpensOption(Word(S))
    BY <1>4 DEF option, OpensOption
  <2>2. S.param = 1 /\ S.short = (Param[2] # "-") /\ S.single = set.single_minus_longopt
    BY DEF S
  <2>3. h.count >= e.count
    BY <1>3 DEF Entry
  <2>4. QED
    BY <1>3, <1>4, <2>1, <2>2, <2>3 DEF Leads
<1> HIDE DEF h
<1>8. Diary(n, V, P \cup {h}, h, l)
  BY <1>1, <1>2, <1>3, <1>4, <1>6, <1>7, StayOn
<1>9. Begins(P \cup {h}, c)
  BY <1>1 DEF Begins
<1>10. PICK Q, f :
         /\ Diary(n, V, Q, f, l) /\ Begins(Q, c)
         /\ f.pc = "group" /\ f.at = e.at /\ f.spot = S /\ f.count = e.count
  BY <1>6, <1>8, <1>9
<1>11. Diary(n, V, Q, f, l)' = Diary(n, V, Q, f, l)
  BY SameDiary DEF option
<1>12. /\ argv' = argv /\ nonops' = nonops /\ pos' = pos /\ pc' = "group" /\ buffer_max' = buffer_max
  BY DEF option, stats
<1>13. QED
  BY <1>1, <1>5, <1>10, <1>11, <1>12 DEF Writing

LEMMA WriteTerminator ==
  ASSUME TypeOK, NEW n \in 1..2, NEW c, vec = n, Count(call), Writing(n, c), terminator
  PROVE  Writing(n, c)'
<1>1. PICK V, P, e, l :
        /\ V = argv[n] /\ l = nonops /\ Diary(n, V, P, e, l) /\ Begins(P, c)
        /\ e.pc = pc /\ e.at = pos - nonops /\ e.count = buffer_max
  BY DEF Writing
<1>2. /\ Args = argv[n] /\ Len(Args) \in Nat /\ pos \in Nat /\ nonops \in Nat
      /\ (pos - nonops) + nonops = pos /\ pos <= Len(Args)
      /\ Param = text[n][Args[pos]]
  <2>1. pc # "call" /\ ~AtEnd
    BY DEF terminator
  <2>2. QED
    BY <2>1, WhereIs
<1>3. e.at + l = pos /\ e.pc = "args" /\ Len(V) \in Nat /\ e \in Entry
  BY <1>1, <1>2 DEF terminator, Diary
<1> DEFINE h == [pc |-> "over", at |-> e.at + 1, spot |-> e.spot, count |-> e.count]
           W == Moved(Args, 1)
<1>4. /\ h \in Entry /\ h.at = e.at + 1 /\ h.pc = "over" /\ h.count = e.count
      /\ h.count >= e.count
  BY <1>3 DEF Entry
<1>5. Leads(e, h)
  BY <1>3, <1>4 DEF Leads
<1> HIDE DEF h, W
<1>6. Rotated(V, W, e.at + l, l, 1)
  <2>1. pos + 1 - 1 <= Len(Args)
    BY <1>2
  <2>2. Rotated(Args, W, pos, nonops, 1)
    BY <2>1, MovedRotates DEF W
  <2>3. QED
    BY <1>1, <1>2, <1>3, <2>2
<1>7. IsTerminator(text[n][V[e.at + l]])
  BY <1>1, <1>2, <1>3 DEF terminator
<1>8. e.at + l + 1 - 1 <= Len(V)
  BY <1>1, <1>2, <1>3
<1>9. Diary(n, W, P \cup {h}, h, l)
  BY <1>1, <1>3, <1>4, <1>5, <1>6, <1>7, <1>8, TakeOn
<1>10. Begins(P \cup {h}, c)
  BY <1>1 DEF Begins
<1>11. PICK U, Q, f :
         /\ U = W /\ Diary(n, U, Q, f, l) /\ Begins(Q, c)
         /\ f.pc = "over" /\ f.at = e.at + 1 /\ f.count = e.count
  BY <1>4, <1>9, <1>10
<1>12. Diary(n, U, Q, f, l)' = Diary(n, U, Q, f, l)
  BY SameDiary DEF terminator
<1>13. /\ argv'[n] = U /\ nonops' = nonops /\ pos' = pos + 1 /\ pc' = "over" /\ buffer_max' = buffer_max
       /\ pos' - nonops' = f.at
  <2>1. argv' = [argv EXCEPT ![n] = W] /\ DOMAIN argv = 1..2
    BY DEF terminator, take, W, TypeOK
  <2>2. argv'[n] = W
    BY <2>1
  <2>3. nonops' = nonops /\ pos' = pos + 1 /\ pc' = "over" /\ buffer_max' = buffer_max
    BY DEF terminator, stats, take
  <2>4. (pos + 1) - nonops = (pos - nonops) + 1
    BY <1>2
  <2>5. QED
    BY <1>1, <1>11, <2>2, <2>3, <2>4
<1>14. QED
  BY <1>1, <1>11, <1>12, <1>13 DEF Writing

LEMMA WriteTurn ==
  ASSUME TypeOK, NEW n \in 1..2, NEW c, vec = n, Writing(n, c), pc = "group",
         ~Refused(Here), advance(Taken(Here)),
         buffer_max' = IF Stores(Here) THEN buffer_max + 1 ELSE buffer_max
  PROVE  Writing(n, c)'
<1>1. PICK V, P, e, l :
        /\ V = argv[n] /\ l = nonops /\ Diary(n, V, P, e, l) /\ Begins(P, c)
        /\ e.pc = "group" /\ e.at = pos - nonops /\ e.count = buffer_max /\ e.spot = Here
  BY DEF Writing
<1> DEFINE p == e.spot
<1>2. /\ Args = argv[n] /\ Len(Args) \in Nat /\ pos \in Nat /\ nonops \in Nat
      /\ (pos - nonops) + nonops = pos
  BY WhereIs
<1>3. /\ e.at + l = pos /\ Len(V) \in Nat /\ e \in Entry /\ e \in P /\ p \in Place
      /\ e.at \in Nat /\ e.count \in Nat
  BY <1>1, <1>2 DEF Diary, Entry
<1>4. /\ pos <= Len(Args)
      /\ p.next # NULL <=> pos < Len(Args)
      /\ p.next # NULL => p.next = <<n, Args[pos + 1], 1>>
      /\ p.vec = n /\ p.arg = Args[pos]
  BY <1>1, HereIs
<1>5. /\ ~Refused(p) /\ Taken(p) \in 0..2
      /\ Taken(p) = 2 => p.next # NULL
      /\ Taken(p) = 0 => Turn(p).at = p.param + 1
  BY <1>1, <1>3, TakenIs
<1>6. /\ take(Taken(p)) /\ UNCHANGED <<usage, set, text, call, nonops>>
      /\ pc' = IF Taken(p) = 0 THEN "group" ELSE "args"
      /\ param' = IF Taken(p) = 0 THEN Turn(p).at ELSE 0
      /\ short' = (Taken(p) = 0) /\ single' = FALSE
  BY <1>1 DEF advance
<1>7. /\ buffer_max' \in Nat /\ buffer_max' >= e.count
      /\ Stores(p) => buffer_max' >= e.count + 1
  <2>1. buffer_max' = IF Stores(p) THEN e.count + 1 ELSE e.count
    BY <1>1
  <2>2. QED
    BY <1>3, <2>1
<1> HIDE DEF p
<1>8. CASE Taken(p) = 0
  <2> DEFINE S == [p EXCEPT !.param = Turn(p).at, !.short = TRUE, !.single = FALSE]
             h == [pc |-> "group", at |-> e.at, spot |-> S, count |-> buffer_max']
  <2>1. /\ S \in Place /\ S.vec = n /\ S.arg = V[e.at + l]
        /\ S.next # NULL <=> e.at + l < Len(V)
        /\ S.next # NULL => S.next = <<n, V[e.at + l + 1], 1>>
    <3>1. Turn(p).at \in Nat \ {0}
      <4>1. p.param \in Nat \ {0}
        BY <1>3 DEF Place
      <4>2. QED
        BY <1>5, <1>8, <4>1
    <3>2. S \in Place /\ S.vec = p.vec /\ S.arg = p.arg /\ S.next = p.next
      BY <1>3, <3>1 DEF Place
    <3>3. QED
      BY <1>1, <1>2, <1>3, <1>4, <3>2
  <2>2. pos' = pos /\ argv' = argv
    <3>1. /\ argv' = [argv EXCEPT ![vec] = Moved(Args, 0)]
          /\ pos' = pos + 0
      BY <1>6, <1>8 DEF take
    <3>2. Moved(Args, 0) = argv[vec]
      BY DEF Moved, Args
    <3>3. argv \in [1..2 -> Seq(Nat)]
      BY DEF TypeOK
    <3>4. QED
      BY <1>2, <3>1, <3>2, <3>3
  <2>3. numargs' = numargs
    <3>1. numargs \in Int
      BY <1>2 DEF TypeOK
    <3>2. numargs' = IF numargs > 0 THEN numargs - 0 ELSE numargs
      BY <1>6, <1>8 DEF take, Less
    <3>3. QED
      BY <3>1, <3>2
  <2>4. Here' = S
    <3>1. vec' = vec /\ Args' = Args
      BY <1>6, <2>2 DEF vec, Args
    <3>2. NextArg' = NextArg
      BY <2>2, <2>3, <3>1 DEF NextArg
    <3> DEFINE a == Turn(p).at
    <3>3. Here' = [vec |-> vec, arg |-> Args[pos], param |-> a, short |-> TRUE,
                   single |-> FALSE, next |-> NextArg]
      BY <1>6, <1>8, <2>2, <3>1, <3>2 DEF Here
    <3>4. p = [vec |-> vec, arg |-> Args[pos], param |-> param, short |-> short,
               single |-> single, next |-> NextArg]
      BY <1>1 DEF Here, p
    <3>5. S = [p EXCEPT !.param = a, !.short = TRUE, !.single = FALSE]
      OBVIOUS
    <3> HIDE DEF S, a
    <3>6. QED
      BY <3>3, <3>4, <3>5
  <2>5. S = [e.spot EXCEPT !.param = Turn(e.spot).at, !.short = TRUE, !.single = FALSE]
    BY DEF p
  <2> HIDE DEF S
  <2>6. /\ h \in Entry /\ h.at = e.at /\ h.pc = "group" /\ h.spot = S /\ h.count = buffer_max'
    BY <1>3, <1>7, <2>1 DEF Entry
  <2> HIDE DEF h
  <2>7. Leads(e, h)
    <3>1. h.at = e.at + Taken(e.spot)
      BY <1>3, <1>8, <2>6 DEF p
    <3>2. QED
      BY <1>1, <1>5, <1>7, <1>8, <2>5, <2>6, <3>1 DEF Leads, p
  <2>8. e.at + l <= Len(V)
    BY <1>1, <1>2, <1>3, <1>4
  <2>9. Diary(n, V, P \cup {h}, h, l)
    BY <1>1, <1>3, <2>1, <2>6, <2>7, <2>8, StayOn
  <2>10. Begins(P \cup {h}, c)
    BY <1>1 DEF Begins
  <2>11. PICK Q, f :
           /\ Diary(n, V, Q, f, l) /\ Begins(Q, c)
           /\ f.pc = "group" /\ f.at = e.at /\ f.spot = S /\ f.count = buffer_max'
    BY <2>6, <2>9, <2>10
  <2>12. Diary(n, V, Q, f, l)' = Diary(n, V, Q, f, l)
    BY <1>6, SameDiary
  <2>13. QED
    BY <1>1, <1>6, <1>8, <2>2, <2>4, <2>11, <2>12 DEF Writing
<1>9. CASE Taken(p) \in 1..2
  <2> DEFINE k == Taken(p)
             h == [pc |-> "args", at |-> e.at + k, spot |-> p, count |-> buffer_max']
             W == Moved(Args, k)
  <2> HIDE DEF k
  <2>1. k \in 1..2 /\ k # 0 /\ k = Taken(e.spot) /\ pos + k - 1 <= Len(Args)
    <3>1. k \in 1..2 /\ (k = 2 => pos < Len(Args))
      BY <1>4, <1>5, <1>9 DEF k
    <3>2. QED
      BY <1>2, <1>4, <3>1 DEF k, p
  <2>2. /\ h \in Entry /\ h.at = e.at + k /\ h.pc = "args" /\ h.count = buffer_max'
    <3>1. e.at + k \in Nat \ {0}
      BY <1>3, <2>1
    <3>2. QED
      BY <1>3, <1>7, <3>1 DEF Entry
  <2> HIDE DEF h, W
  <2>3. Leads(e, h)
    BY <1>1, <1>5, <1>7, <2>1, <2>2 DEF Leads, p
  <2>4. Rotated(V, W, e.at + l, l, k)
    <3>1. Rotated(Args, W, pos, nonops, k)
      BY <2>1, MovedRotates DEF W
    <3>2. QED
      BY <1>1, <1>2, <1>3, <3>1
  <2>5. e.at + l + k - 1 <= Len(V)
    <3>1. pos + k - 1 <= Len(V) /\ e.at + l = pos
      BY <1>1, <1>2, <1>3, <2>1
    <3>2. QED
      BY <3>1
  <2>6. k = 2 => e.spot.next # NULL
    BY <1>5 DEF k, p
  <2>7. Diary(n, W, P \cup {h}, h, l)
    BY <1>1, <1>3, <2>1, <2>2, <2>3, <2>4, <2>5, <2>6, TakeOn
  <2>8. Begins(P \cup {h}, c)
    BY <1>1 DEF Begins
  <2>9. PICK U, Q, f :
           /\ U = W /\ Diary(n, U, Q, f, l) /\ Begins(Q, c)
           /\ f.pc = "args" /\ f.at = e.at + k /\ f.count = buffer_max'
    BY <2>2, <2>7, <2>8
  <2>10. Diary(n, U, Q, f, l)' = Diary(n, U, Q, f, l)
    BY <1>6, SameDiary
  <2>11. argv'[n] = U /\ pos' = pos + k
    <3>1. argv' = [argv EXCEPT ![n] = W] /\ pos' = pos + k
      BY <1>6 DEF take, k, W
    <3>2. DOMAIN argv = 1..2
      BY DEF TypeOK
    <3>3. QED
      BY <2>9, <3>1, <3>2
  <2>12. pos' - nonops' = f.at /\ nonops' = l
    <3>1. (pos + k) - nonops = (pos - nonops) + k
      BY <1>2, <2>1
    <3>2. QED
      BY <1>1, <1>6, <2>9, <2>11, <3>1
  <2>13. pc' = "args"
    BY <1>6, <2>1 DEF k
  <2>14. QED
    BY <2>9, <2>10, <2>11, <2>12, <2>13 DEF Writing
<1>10. QED
  BY <1>5, <1>8, <1>9

LEMMA WriteBegins ==
  ASSUME TypeOK, NEW n \in 1..2, NEW c \in Nat, call = n, buffer_max = c, begin,
         SortedFrom(argv[n], 1)
  PROVE  Writing(n, c)'
<1> DEFINE p == [vec |-> 1, arg |-> 0, param |-> 1, short |-> FALSE, single |-> FALSE, next |-> NULL]
           g == [pc |-> "args", at |-> 1, spot |-> p, count |-> c]
<1>1. p \in Place
  BY DEF Place
<1> HIDE DEF p
<1>2. g \in Entry /\ g.pc = "args" /\ g.at = 1 /\ g.count = c
  BY <1>1 DEF Entry
<1> HIDE DEF g
<1>3. PICK V : V = argv[n] /\ Len(V) \in Nat
  BY VectorIs
<1>4. Diary(n, V, {g}, g, 0)
  <2>1. Closes({g}, g)
    BY <1>2 DEF Closes
  <2>2. GroupsAt(n, V, {g}, g, 0) /\ NextAt(n, V, {g}, g, 0) /\ OverAt(n, V, {g})
    BY <1>2 DEF GroupsAt, NextAt, OverAt
  <2>3. LeftOut(n, V, g, 0)
    BY <1>2, <1>3 DEF LeftOut
  <2>4. g.at + 0 <= Len(V) + 1
    BY <1>2, <1>3
  <2>5. QED
    BY <1>2, <2>1, <2>2, <2>3, <2>4 DEF Diary
<1>5. Begins({g}, c)
  BY <1>2 DEF Begins
<1>6. PICK P, e : /\ Diary(n, V, P, e, 0) /\ Begins(P, c)
                  /\ e.pc = "args" /\ e.at = 1 /\ e.count = c
  BY <1>2, <1>4, <1>5
<1>7. Diary(n, V, P, e, 0)' = Diary(n, V, P, e, 0)
  BY SameDiary DEF begin
<1>8. argv' = argv /\ pos' = 1 /\ nonops' = 0 /\ pc' = "args" /\ buffer_max' = buffer_max
  BY DEF begin, add, parse
<1>9. pos' - nonops' = 1
  BY <1>8
<1>10. QED
  BY <1>3, <1>6, <1>7, <1>8, <1>9 DEF Writing

LEMMA WriteEnds ==
  ASSUME TypeOK, NEW n \in 1..2, NEW c, vec = n, Writing(n, c),
         \/ pc = "over"
         \/ pc = "args" /\ AtEnd
         \/ pc = "args" /\ ~AtEnd /\ IsNonOption(Param) /\ ~set.stats_gnu
         \/ pc = "group" /\ Refused(Here)
  PROVE  Written(n, c, buffer_max)
<1>1. PICK V, P, e, l :
        /\ V = argv[n] /\ l = nonops /\ Diary(n, V, P, e, l) /\ Begins(P, c)
        /\ e.pc = pc /\ e.at = pos - nonops /\ e.count = buffer_max
        /\ pc = "group" => e.spot = Here
  BY DEF Writing
<1>2. /\ Args = argv[n] /\ Len(Args) \in Nat
      /\ (pos - nonops) + nonops = pos
      /\ AtEnd <=> pos = Len(Args) + 1
      /\ ~AtEnd <=> pos <= Len(Args)
      /\ Param = text[n][Args[pos]]
  BY WhereIs
<1>3. e.at + l = pos
  BY <1>1, <1>2
<1>4. Closed(n, V, P, e, l)
  <2>1. CASE pc = "over"
    BY <1>1, <2>1 DEF Closed
  <2>2. CASE pc = "args" /\ AtEnd
    BY <1>1, <1>2, <1>3, <2>2 DEF Closed
  <2>3. CASE pc = "args" /\ ~AtEnd /\ IsNonOption(Param) /\ ~set.stats_gnu
    BY <1>1, <1>2, <1>3, <2>3 DEF Closed
  <2>4. CASE pc = "group" /\ Refused(Here)
    BY <1>1, <2>4 DEF Closed
  <2>5. QED
    BY <2>1, <2>2, <2>3, <2>4
<1>5. QED
  BY <1>1, <1>4 DEF Written

(* A step of Stats within a call goes on with the diary or closes it.      *)
LEMMA StatsStep ==
  ASSUME TypeOK, NEW n \in 1..2, NEW c, call = n, pc # "call", Writing(n, c), Next
  PROVE  \/ Writing(n, c)' /\ pc' # "call" /\ call' = call
         \/ /\ Written(n, c, buffer_max) /\ pc' = "call" /\ call' = call + 1
            /\ argv' = argv /\ buffer_max' = buffer_max
<1>1. vec = n /\ Count(call) /\ call # 5
  BY DEF vec, Count
<1>2. CASE nonoption
  BY <1>1, <1>2, WriteNonoption DEF nonoption
<1>3. CASE option
  BY <1>1, <1>3, WriteOption DEF option
<1>4. CASE terminator
  BY <1>1, <1>4, WriteTerminator DEF terminator
<1>5. CASE stop_at_nonoption
  <2>1. Written(n, c, buffer_max)
    BY <1>1, <1>5, WriteEnds DEF stop_at_nonoption, Gnu
  <2>2. QED
    BY <1>5, <2>1 DEF stop_at_nonoption, return, stats
<1>6. CASE end
  <2>1. Written(n, c, buffer_max)
    BY <1>1, <1>6, WriteEnds DEF end
  <2>2. QED
    BY <1>6, <2>1 DEF end, return, stats
<1>7. CASE pc = "group"
  <2>1. CASE Refused(Here) /\ return(FALSE)
    <3>1. Written(n, c, buffer_max)
      BY <1>1, <1>7, <2>1, WriteEnds
    <3>2. QED
      BY <2>1, <3>1 DEF return, stats
  <2>2. CASE /\ ~Refused(Here) /\ advance(Taken(Here))
             /\ \/ Stores(Here) /\ \E o : Found(o) /\ perform(o)
                \/ ~Stores(Here) /\ UNCHANGED <<stats, parser>>
    <3>1. buffer_max' = IF Stores(Here) THEN buffer_max + 1 ELSE buffer_max
      BY <1>1, <2>2 DEF perform, stats
    <3>2. Writing(n, c)'
      BY <1>1, <1>7, <2>2, <3>1, WriteTurn
    <3>3. pc' # "call" /\ call' = call
      BY <2>2 DEF advance
    <3>4. QED
      BY <3>2, <3>3
  <2>3. QED
    BY <1>1, <1>7, <2>1, <2>2, GroupStep
<1>8. QED
  BY <1>1, <1>2, <1>3, <1>4, <1>5, <1>6, <1>7
  DEF Next, begin, add, parse, end_of_group, drop, illegal, accept, returned

-----------------------------------------------------------------------------
(***************************************************************************)
(* Parser follows the diary of its vector.                                 *)
(***************************************************************************)

(* The entry of the place that Parser is at, with all stored so far        *)
(* counted there.  It may have left out some of the arguments that Stats   *)
(* left out.                                                               *)
At(g, e, l) ==
    /\ g.pc = pc /\ g.at = pos - nonops /\ op_count + 1 <= g.count
    /\ nonops > 0 => g.at = e.at /\ nonops <= l
    /\ pc = "group" => /\ Alike(g.spot, Here)
                       /\ g.at = e.at => nonops = l

(* Nothing is left that could be stored.                                   *)
Spent(e) ==
    /\ op_count + 1 <= e.count /\ pc \in {"args", "over"} /\ e.at <= pos - nonops
    /\ pc = "args" => \A i \in pos..Len(Args) : IsNonOption(text[vec][Args[i]])

Following(n, c, d) ==
    \E V, P, e, l :
        /\ V = argv[n] /\ Closed(n, V, P, e, l) /\ Begins(P, c) /\ e.count = d
        /\ (\E g \in P : At(g, e, l)) \/ Spent(e)

LEMMA SameClosed ==
  ASSUME UNCHANGED <<usage, set, text>>, NEW CONSTANT n, NEW CONSTANT V, NEW CONSTANT P,
         NEW CONSTANT e, NEW CONSTANT l
  PROVE  Closed(n, V, P, e, l)' = Closed(n, V, P, e, l)
<1>1. Diary(n, V, P, e, l)' = Diary(n, V, P, e, l) /\ Refused(e.spot)' = Refused(e.spot)
  BY SameDiary, SameOutcomes
<1>2. QED
  BY <1>1 DEF Closed

(* The parts of a diary.                                                   *)
LEMMA DiaryIs ==
  ASSUME NEW n, NEW V, NEW P, NEW e, NEW l, Diary(n, V, P, e, l)
  PROVE  /\ e \in P /\ l \in Nat /\ e.at + l <= Len(V) + 1
         /\ \A g \in P : /\ g \in Entry /\ g.at \in Nat \ {0} /\ g.count \in Nat /\ g.spot \in Place
                         /\ g.at <= e.at /\ g.count <= e.count
                         /\ g # e => \E h \in P : Leads(g, h)
BY DEF Diary, Entry, Closes

(* An entry that the outer loop is at says what the next argument is.      *)
LEMMA NextArgumentIs ==
  ASSUME TypeOK, NEW n \in 1..2, vec = n, pc = "args", ~AtEnd,
         NEW V, NEW P, NEW e, NEW l, V = argv[n], Closed(n, V, P, e, l),
         NEW g \in P, At(g, e, l)
  PROVE  \/ IsNonOption(Param) /\ ~set.stats_gnu
         \/ IsNonOption(Param) /\ g.at = e.at /\ nonops < l
         \/ /\ IsTerminator(Param) /\ nonops = 0
            /\ \E h \in P : Leads(g, h) /\ h.pc = "over" /\ h.at = g.at + 1
         \/ /\ OpensOption(Param)
            /\ \E h \in P : /\ Leads(g, h) /\ h.pc = "group" /\ h.at = g.at
                            /\ h.spot.vec = n /\ h.spot.arg = Args[pos] /\ Word(h.spot) = Param
                            /\ g.at = e.at => nonops = l
<1>1. /\ Diary(n, V, P, e, l) /\ e \in P /\ l \in Nat /\ e.at + l <= Len(V) + 1
      /\ g.at \in Nat /\ e.at \in Nat /\ g.at <= e.at
      /\ g # e => \E h \in P : Leads(g, h)
  BY DiaryIs DEF Closed
<1>2. /\ Args = V /\ Len(V) \in Nat /\ pos \in Nat /\ nonops \in Nat
      /\ (pos - nonops) + nonops = pos /\ pos <= Len(V)
      /\ Param = text[n][V[pos]]
  BY WhereIs
<1>3. /\ g.pc = "args" /\ g.at = pos - nonops /\ g.at + nonops = pos
      /\ nonops > 0 => g.at = e.at /\ nonops <= l
  BY <1>2 DEF At
<1>4. g.at = e.at => nonops <= l
  BY <1>1, <1>2, <1>3
<1>5. ASSUME g.at = e.at, nonops # l
      PROVE  IsNonOption(Param) /\ nonops < l
  <2>1. nonops < l
    BY <1>1, <1>2, <1>4, <1>5
  <2>2. pos \in e.at .. e.at + l - 1
    BY <1>1, <1>2, <1>3, <1>5, <2>1
  <2>3. QED
    BY <1>1, <1>2, <2>1, <2>2 DEF Diary, LeftOut
<1>6. CASE g = e
  <2>1. CASE e.at + l = Len(V) + 1
    <3>1. nonops # l
      BY <1>1, <1>2, <1>3, <1>6, <2>1
    <3>2. QED
      BY <1>5, <1>6, <3>1
  <2>2. CASE e.at + l <= Len(V) /\ IsNonOption(text[n][V[e.at + l]]) /\ ~set.stats_gnu
    <3>1. CASE nonops = l
      BY <1>2, <1>3, <1>6, <2>2, <3>1
    <3>2. CASE nonops # l
      BY <1>5, <1>6, <3>2
    <3>3. QED
      BY <3>1, <3>2
  <2>3. QED
    BY <1>3, <1>6, <2>1, <2>2 DEF Closed
<1>7. CASE g # e
  <2>1. PICK h \in P : Leads(g, h)
    BY <1>1, <1>7
  <2>2. h \in Entry /\ h.at \in Nat /\ h.at <= e.at
    BY <1>1, DiaryIs
  <2>3. CASE h.pc = "over"
    <3>1. h.at = g.at + 1
      BY <1>3, <2>1, <2>3 DEF Leads
    <3>2. g.at # e.at
      BY <1>1, <2>2, <3>1
    <3>3. nonops = 0 /\ g.at = pos
      BY <1>2, <1>3, <3>2
    <3>4. IsTerminator(text[n][V[h.at - 1]])
      BY <1>1, <2>3 DEF Diary, OverAt
    <3>5. h.at - 1 = pos
      BY <1>2, <3>1, <3>3
    <3>6. QED
      BY <1>2, <2>1, <2>3, <3>1, <3>3, <3>4, <3>5
  <2>4. CASE h.pc = "group"
    <3>1. h.at = g.at /\ OpensOption(Word(h.spot))
      BY <1>3, <2>1, <2>4 DEF Leads
    <3>2. h.spot.vec = n
      BY <1>1, <2>4 DEF Diary, GroupsAt
    <3>3. CASE g.at = e.at /\ nonops # l
      BY <1>5, <3>3
    <3>4. CASE g.at = e.at /\ nonops = l
      <4>1. h.spot.arg = V[e.at + l]
        BY <1>1, <2>4, <3>1, <3>4 DEF Diary, GroupsAt
      <4>2. h.spot.arg = V[pos]
        BY <1>3, <3>4, <4>1
      <4>3. Word(h.spot) = Param
        BY <1>2, <3>2, <4>2 DEF Word
      <4>4. QED
        BY <1>2, <2>1, <2>4, <3>1, <3>2, <3>4, <4>2, <4>3
    <3>5. CASE g.at # e.at
      <4>1. nonops = 0 /\ g.at = pos
        BY <1>2, <1>3, <3>5
      <4>2. h.spot.arg = V[pos]
        BY <1>1, <2>4, <3>1, <3>5, <4>1 DEF Diary, GroupsAt
      <4>3. Word(h.spot) = Param
        BY <1>2, <3>2, <4>2 DEF Word
      <4>4. QED
        BY <1>2, <2>1, <2>4, <3>1, <3>2, <3>5, <4>2, <4>3
    <3>6. QED
      BY <3>3, <3>4, <3>5
  <2>5. QED
    BY <1>3, <2>1, <2>3, <2>4 DEF Leads
<1>8. QED
  BY <1>6, <1>7

LEMMA TerminatorIsNone ==
  ASSUME NEW s
  PROVE  /\ IsTerminator(s) => ~IsNonOption(s)
         /\ OpensOption(s) => ~IsNonOption(s) /\ ~IsTerminator(s)
BY DEF IsTerminator, IsNonOption, OpensOption

(* Taking nothing, or with nothing left out, does not change the vector.   *)
LEMMA TakeInPlace ==
  ASSUME TypeOK, NEW k \in 0..2, pos <= Len(Args), pos + k - 1 <= Len(Args),
         k = 0 \/ nonops = 0, take(k)
  PROVE  argv' = argv /\ pos' = pos + k
<1> DEFINE W == Moved(Args, k)
<1>1. argv' = [argv EXCEPT ![vec] = W] /\ pos' = pos + k
  BY DEF take
<1>2. W = Args
  <2>1. CASE k = 0
    BY <2>1 DEF Moved
  <2>2. CASE k # 0
    <3>1. Args \in Seq(Nat) /\ Len(Args) \in Nat /\ pos \in Nat
      BY CurrentVector
    <3> DEFINE a == Args
    <3> HIDE DEF a, W
    <3>2. k \in 1..2 /\ k \in Nat /\ nonops = 0
      BY <2>2
    <3>3. Rotated(a, W, pos, 0, k)
      BY <3>2, MovedRotates DEF W, a
    <3>4. /\ W \in Seq(Nat) /\ Len(W) = Len(a)
          /\ \A i \in pos - 0 .. pos - 0 + k - 1 : W[i] = a[i + 0]
          /\ \A i \in 1..Len(a) : i < pos - 0 \/ pos + k <= i => W[i] = a[i]
      BY <3>3 DEF Rotated
    <3>5. Len(a) \in Nat /\ a \in Seq(Nat)
      BY <3>1 DEF a
    <3>6. ASSUME NEW i \in 1..Len(a) PROVE W[i] = a[i]
      <4>1. CASE i < pos - 0 \/ pos + k <= i
        BY <3>4, <4>1
      <4>2. CASE ~ (i < pos - 0 \/ pos + k <= i)
        <5>1. i \in pos - 0 .. pos - 0 + k - 1 /\ i + 0 = i
          BY <3>1, <3>2, <3>5, <4>2
        <5>2. QED
          BY <3>4, <5>1
      <4>3. QED
        BY <4>1, <4>2
    <3>7. W = a
      BY <3>4, <3>5, <3>6, SeqEqual
    <3>8. QED
      BY <3>7 DEF a
  <2>3. QED
    BY <2>1, <2>2
<1> HIDE DEF W
<1>3. argv \in [1..2 -> Seq(Nat)] /\ Args = argv[vec]
  BY DEF TypeOK, Args
<1>4. QED
  BY <1>1, <1>2, <1>3

(* Parser takes no argument for an option that Stats took for none.        *)
Followed == set.gnu => set.stats_gnu

LEMMA FollowNonoption ==
  ASSUME TypeOK, NEW n \in 1..2, NEW c, NEW d, vec = n, op_count \in Nat, ~Count(call),
         Followed, Following(n, c, d), nonoption
  PROVE  Following(n, c, d)'
<1>1. PICK V, P, e, l :
        /\ V = argv[n] /\ Closed(n, V, P, e, l) /\ Begins(P, c) /\ e.count = d
        /\ (\E g \in P : At(g, e, l)) \/ Spent(e)
  BY DEF Following
<1>2. /\ pc = "args" /\ pc' = "args" /\ ~AtEnd /\ IsNonOption(Param) /\ set.gnu
      /\ nonops' = nonops + 1 /\ pos' = pos + 1
      /\ argv' = argv /\ op_count' = op_count /\ Args' = Args /\ text' = text /\ vec' = vec
      /\ UNCHANGED <<usage, set, text>>
  BY DEF nonoption, parser, Args, vec, Gnu
<1>3. /\ Args = V /\ Len(V) \in Nat /\ pos \in Nat /\ nonops \in Nat
      /\ (pos - nonops) + nonops = pos /\ pos <= Len(V)
  BY <1>1, <1>2, WhereIs
<1>4. Closed(n, V, P, e, l)'
  BY <1>1, <1>2, SameClosed
<1>5. pos' - nonops' = pos - nonops
  BY <1>2, <1>3
<1>6. ASSUME NEW g \in P, At(g, e, l) PROVE At(g, e, l)'
  <2>1. set.stats_gnu
    BY <1>2 DEF Followed
  <2>2. IsNonOption(Param) /\ g.at = e.at /\ nonops < l
    BY <1>1, <1>2, <1>6, <2>1, NextArgumentIs, TerminatorIsNone
  <2>3. l \in Nat
    BY <1>1, DiaryIs DEF Closed
  <2>4. nonops + 1 <= l
    BY <1>3, <2>2, <2>3
  <2>5. QED
    BY <1>2, <1>5, <1>6, <2>2, <2>4 DEF At
<1>7. ASSUME Spent(e) PROVE Spent(e)'
  <2>1. \A i \in pos + 1 .. Len(Args) : i \in pos .. Len(Args)
    BY <1>3
  <2>2. QED
    BY <1>2, <1>5, <1>7, <2>1 DEF Spent
<1>8. (\E g \in P : At(g, e, l)') \/ Spent(e)'
  BY <1>1, <1>6, <1>7
<1>9. QED
  BY <1>1, <1>2, <1>4, <1>8 DEF Following

LEMMA FollowTerminator ==
  ASSUME TypeOK, NEW n \in 1..2, NEW c, NEW d, vec = n, op_count \in Nat, ~Count(call),
         Following(n, c, d), terminator
  PROVE  Following(n, c, d)'
<1>1. PICK V, P, e, l :
        /\ V = argv[n] /\ Closed(n, V, P, e, l) /\ Begins(P, c) /\ e.count = d
        /\ (\E g \in P : At(g, e, l)) \/ Spent(e)
  BY DEF Following
<1>2. /\ pc = "args" /\ pc' = "over" /\ ~AtEnd /\ IsTerminator(Param) /\ take(1)
      /\ nonops' = nonops /\ op_count' = op_count /\ vec' = vec
      /\ UNCHANGED <<usage, set, text>>
  BY DEF terminator, parser, vec
<1>3. /\ Args = V /\ Len(V) \in Nat /\ pos \in Nat /\ nonops \in Nat
      /\ (pos - nonops) + nonops = pos /\ pos <= Len(V) /\ Param = text[n][V[pos]]
  BY <1>1, <1>2, WhereIs
<1>4. ~Spent(e)
  <2>1. pos \in pos..Len(Args)
    BY <1>3
  <2>2. QED
    BY <1>2, <1>3, <2>1, TerminatorIsNone DEF Spent
<1>5. PICK g \in P : At(g, e, l)
  BY <1>1, <1>4
<1>6. /\ nonops = 0
      /\ \E h \in P : Leads(g, h) /\ h.pc = "over" /\ h.at = g.at + 1
  BY <1>1, <1>2, <1>5, NextArgumentIs, TerminatorIsNone
<1>7. PICK h \in P : Leads(g, h) /\ h.pc = "over" /\ h.at = g.at + 1
  BY <1>6
<1>8. argv' = argv /\ pos' = pos + 1
  <2>1. pos + 1 - 1 <= Len(Args) /\ pos <= Len(Args)
    BY <1>3
  <2>2. QED
    BY <1>2, <1>6, <2>1, TakeInPlace
<1>9. At(h, e, l)'
  <2>1. h.count >= g.count /\ h.count \in Nat /\ g.count \in Nat /\ g.at \in Nat
    <3>1. Diary(n, V, P, e, l)
      BY <1>1 DEF Closed
    <3>2. h.count >= g.count
      BY <1>7 DEF Leads
    <3>3. QED
      BY <3>1, <3>2, DiaryIs
  <2>2. op_count + 1 <= g.count /\ g.at = pos - nonops
    BY <1>5 DEF At
  <2>3. op_count + 1 <= h.count
    BY <2>1, <2>2
  <2>4. h.at = (pos + 1) - nonops
    BY <1>3, <1>7, <2>2
  <2>5. ~ (nonops > 0)
    BY <1>6
  <2>6. QED
    BY <1>2, <1>7, <1>8, <2>3, <2>4, <2>5 DEF At
<1>10. Closed(n, V, P, e, l)'
  BY <1>1, <1>2, SameClosed
<1>11. QED
  BY <1>1, <1>8, <1>9, <1>10 DEF Following

LEMMA FollowOption ==
  ASSUME TypeOK, NEW n \in 1..2, NEW c, NEW d, vec = n, op_count \in Nat, ~Count(call),
         Following(n, c, d), option
  PROVE  Following(n, c, d)'
<1>1. PICK V, P, e, l :
        /\ V = argv[n] /\ Closed(n, V, P, e, l) /\ Begins(P, c) /\ e.count = d
        /\ (\E g \in P : At(g, e, l)) \/ Spent(e)
  BY DEF Following
<1>2. /\ pc = "args" /\ pc' = "group" /\ ~AtEnd /\ ~IsNonOption(Param) /\ ~IsTerminator(Param)
      /\ param' = 1 /\ short' = (Param[2] # "-") /\ single' = set.single_minus_longopt
      /\ nonops' = nonops /\ op_count' = op_count /\ vec' = vec /\ pos' = pos /\ argv' = argv
      /\ UNCHANGED <<usage, set, text, numargs>>
  BY DEF option, parser, vec
<1>3. /\ Args = V /\ Len(V) \in Nat /\ pos \in Nat /\ nonops \in Nat
      /\ (pos - nonops) + nonops = pos /\ pos <= Len(V) /\ Param = text[n][V[pos]]
  BY <1>1, <1>2, WhereIs
<1>4. ~Spent(e)
  <2>1. pos \in pos..Len(Args)
    BY <1>3
  <2>2. QED
    BY <1>2, <1>3, <2>1 DEF Spent
<1>5. PICK g \in P : At(g, e, l)
  BY <1>1, <1>4
<1>6. \E h \in P : /\ Leads(g, h) /\ h.pc = "group" /\ h.at = g.at
                   /\ h.spot.vec = n /\ h.spot.arg = Args[pos] /\ Word(h.spot) = Param
                   /\ g.at = e.at => nonops = l
  BY <1>1, <1>2, <1>5, NextArgumentIs
<1>7. PICK h \in P : /\ Leads(g, h) /\ h.pc = "group" /\ h.at = g.at
                     /\ h.spot.vec = n /\ h.spot.arg = Args[pos] /\ Word(h.spot) = Param
                     /\ g.at = e.at => nonops = l
  BY <1>6
<1>8. /\ h \in Entry /\ h.spot \in Place /\ h.count \in Nat /\ g.count \in Nat /\ g.at \in Nat
  <2>1. Diary(n, V, P, e, l)
    BY <1>1 DEF Closed
  <2>2. QED
    BY <2>1, DiaryIs
<1> DEFINE S == [vec |-> vec, arg |-> Args[pos], param |-> 1, short |-> (Param[2] # "-"),
                 single |-> set.single_minus_longopt, next |-> NextArg]
<1>9. Here' = S
  <2>1. vec' = vec /\ Args' = Args /\ pos' = pos /\ numargs' = numargs
    BY <1>2 DEF Args
  <2>2. NextArg' = NextArg
    BY <2>1 DEF NextArg
  <2>3. QED
    BY <1>2, <2>1, <2>2 DEF Here
<1>10. Alike(h.spot, S)
  <2>1. S \in Place
    <3>1. /\ NextArg \in Starts(1) \cup Starts(2) \cup {NULL}
          /\ Args[pos] \in Nat
      BY <1>2, <1>3, NextIs
    <3>2. set.single_minus_longopt \in BOOLEAN
      BY ConstantsAssumption DEF TypeOK, ConstantsAssumption, Parameters
    <3>3. QED
      BY <3>1, <3>2 DEF Place
  <2>2. /\ h.spot.param = 1 /\ h.spot.short = (Param[2] # "-")
        /\ h.spot.single = set.single_minus_longopt
    BY <1>5, <1>2, <1>7 DEF Leads, At
  <2>3. QED
    BY <1>7, <1>8, <2>1, <2>2 DEF Alike
<1>11. Alike(h.spot, Here)'
  <2>1. PICK s : s = S
    OBVIOUS
  <2>2. Alike(h.spot, s)' = Alike(h.spot, s)
    BY <1>2 DEF Alike, Place, Starts
  <2>3. Alike(h.spot, s)' /\ Here' = s
    BY <1>9, <1>10, <2>1, <2>2
  <2>4. QED
    BY <2>3 DEF Alike
<1>12. At(h, e, l)'
  <2>1. op_count + 1 <= h.count
    <3>1. op_count + 1 <= g.count /\ h.count >= g.count
      BY <1>5, <1>7 DEF At, Leads
    <3>2. QED
      BY <1>8, <3>1
  <2>2. /\ g.at = pos - nonops
        /\ nonops > 0 => g.at = e.at /\ nonops <= l
    BY <1>5 DEF At
  <2>3. QED
    BY <1>2, <1>7, <1>11, <2>1, <2>2 DEF At
<1>13. Closed(n, V, P, e, l)'
  BY <1>1, <1>2, SameClosed
<1>14. QED
  BY <1>1, <1>2, <1>12, <1>13 DEF Following

(* What Here is behind a turn that takes nothing.                          *)
LEMMA HereOn ==
  ASSUME TypeOK, pc = "group", Taken(Here) = 0, advance(0)
  PROVE  /\ Turn(Here).at = param + 1
         /\ Here' = [vec |-> vec, arg |-> Args[pos], param |-> param + 1, short |-> TRUE,
                     single |-> FALSE, next |-> NextArg]
<1>1. Here \in Place /\ Here.param = param /\ pos <= Len(Args) /\ pos \in Nat
  BY HereIs, CurrentVector
<1>2. Turn(Here).at = param + 1
  BY <1>1, TakenIs
<1>3. argv' = argv /\ pos' = pos
  <2>1. pos + 0 - 1 <= Len(Args) /\ Len(Args) \in Nat
    BY <1>1, CurrentVector
  <2>2. take(0)
    BY DEF advance
  <2>3. argv' = argv /\ pos' = pos + 0
    BY <1>1, <2>1, <2>2, TakeInPlace
  <2>4. QED
    BY <1>1, <2>3
<1>4. numargs' = numargs
  <2>1. numargs \in Int
    <3>1. Len(Args) \in Nat
      BY CurrentVector
    <3>2. numargs = IF set.counted THEN Len(Args) - pos + 1 ELSE -1
      BY DEF TypeOK
    <3>3. QED
      BY <1>1, <3>1, <3>2
  <2>2. numargs' = IF numargs > 0 THEN numargs - 0 ELSE numargs
    BY DEF advance, take, Less
  <2>3. QED
    BY <2>1, <2>2
<1>5. vec' = vec /\ Args' = Args
  BY <1>3 DEF advance, vec, Args
<1>6. NextArg' = NextArg
  BY <1>3, <1>4, <1>5 DEF NextArg
<1>7. param' = param + 1 /\ short' = TRUE /\ single' = FALSE
  BY <1>2 DEF advance
<1>8. QED
  BY <1>2, <1>3, <1>5, <1>6, <1>7 DEF Here

(* Parser does the same as Stats did.                                      *)
LEMMA FollowAlong ==
  ASSUME TypeOK, NEW n \in 1..2, vec = n, op_count \in Nat, pc = "group",
         NEW V, NEW P, NEW e, NEW l, V = argv[n], Diary(n, V, P, e, l),
         NEW g \in P, NEW h \in P, At(g, e, l), Leads(g, h), advance(Taken(Here)),
         op_count' \in Nat, op_count' <= IF Stores(Here) THEN op_count + 1 ELSE op_count,
         Taken(g.spot) = Taken(Here), Stores(g.spot) = Stores(Here)
  PROVE  At(h, e, l)' /\ argv' = argv
<1> DEFINE k == Taken(Here)
<1>1. /\ g \in Entry /\ h \in Entry /\ g.at \in Nat /\ h.at \in Nat /\ e.at \in Nat /\ l \in Nat
      /\ g.count \in Nat /\ h.count \in Nat /\ h.at <= e.at /\ g.spot \in Place /\ h.spot \in Place
  BY DiaryIs
<1>2. /\ g.pc = "group" /\ g.at = pos - nonops /\ op_count + 1 <= g.count
      /\ nonops > 0 => g.at = e.at /\ nonops <= l
      /\ Alike(g.spot, Here)
      /\ g.at = e.at => nonops = l
  BY DEF At
<1>3. /\ h.at = g.at + k /\ h.count >= g.count
      /\ Stores(Here) => h.count >= g.count + 1
      /\ IF k = 0
         THEN /\ h.pc = "group"
              /\ h.spot = [g.spot EXCEPT !.param = Turn(g.spot).at, !.short = TRUE, !.single = FALSE]
         ELSE h.pc = "args"
  BY <1>2 DEF Leads
<1>4. /\ Here \in Place /\ pos <= Len(Args)
      /\ Here.next # NULL <=> pos < Len(Args)
      /\ pos \in Nat /\ nonops \in Nat /\ Len(Args) \in Nat
  BY HereIs, WhereIs
<1>5. /\ k \in 0..2
      /\ k = 2 => Here.next # NULL
  BY <1>4, TakenIs
<1>6. advance(k)
  OBVIOUS
<1> HIDE DEF k
<1>7. k = 0 \/ nonops = 0
  <2>1. nonops > 0 => k = 0
    BY <1>1, <1>2, <1>3, <1>5
  <2>2. QED
    BY <1>4, <2>1
<1>8. argv' = argv /\ pos' = pos + k
  <2>1. pos + k - 1 <= Len(Args)
    BY <1>4, <1>5
  <2>2. take(k)
    BY <1>6 DEF advance
  <2>3. QED
    BY <1>4, <1>5, <1>7, <2>1, <2>2, TakeInPlace
<1>9. op_count' + 1 <= h.count
  BY <1>1, <1>2, <1>3
<1>10. /\ nonops' = nonops /\ pos' - nonops' = h.at
       /\ nonops > 0 => h.at = e.at /\ nonops <= l
  <2>1. nonops' = nonops
    BY <1>6 DEF advance
  <2>2. (pos + k) - nonops = (pos - nonops) + k
    BY <1>4, <1>5
  <2>3. nonops > 0 => h.at = g.at
    BY <1>1, <1>3, <1>4, <1>7
  <2>4. QED
    BY <1>2, <1>3, <1>8, <2>1, <2>2, <2>3
<1>11. CASE k # 0
  <2>1. pc' = "args" /\ h.pc = "args"
    BY <1>3, <1>6, <1>11 DEF advance
  <2>2. QED
    BY <1>8, <1>9, <1>10, <2>1 DEF At
<1>12. CASE k = 0
  <2>1. pc' = "group" /\ h.pc = "group" /\ h.at = g.at
    BY <1>1, <1>3, <1>6, <1>12 DEF advance
  <2> DEFINE S == [vec |-> vec, arg |-> Args[pos], param |-> param + 1, short |-> TRUE,
                   single |-> FALSE, next |-> NextArg]
  <2>2. Turn(Here).at = param + 1 /\ Here' = S
    <3>1. Taken(Here) = 0 /\ advance(0)
      BY <1>6, <1>12 DEF k
    <3>2. QED
      BY <3>1, HereOn
  <2>3. Turn(g.spot).at = param + 1
    BY <1>2, <2>2, AlikeTurns
  <2>4. /\ g.spot.vec = vec /\ g.spot.arg = Args[pos] /\ Here.next = NextArg /\ Here.param = param
        /\ Here.next \in Starts(1) \cup Starts(2) \cup {NULL} /\ vec \in 1..2 /\ Args[pos] \in Nat
        /\ param \in Nat \ {0}
    BY <1>2, <1>4, HereIs DEF Alike, Place
  <2>5. S \in Place
    <3>1. param + 1 \in Nat \ {0}
      BY <2>4
    <3>2. QED
      BY <2>4, <3>1 DEF Place
  <2>6. /\ h.spot.vec = vec /\ h.spot.arg = Args[pos] /\ h.spot.param = param + 1
        /\ h.spot.short = TRUE /\ h.spot.single = FALSE
    BY <1>1, <1>3, <1>12, <2>3, <2>4 DEF Place
  <2>7. Alike(h.spot, S)
    BY <1>1, <2>5, <2>6 DEF Alike
  <2>8. PICK s : s = S
    OBVIOUS
  <2> HIDE DEF S
  <2>9. Alike(h.spot, s)' = Alike(h.spot, s)
    BY <1>6 DEF Alike, Place, Starts, advance
  <2>10. Alike(h.spot, s)' /\ Here' = s
    BY <2>2, <2>7, <2>8, <2>9
  <2>11. Alike(h.spot, Here)'
    BY <2>10 DEF Alike
  <2>12. g.at = e.at => nonops = l
    BY <1>2
  <2>13. QED
    BY <1>8, <1>9, <1>10, <2>1, <2>11, <2>12 DEF At
<1>13. QED
  BY <1>11, <1>12

LEMMA FollowTurn ==
  ASSUME TypeOK, NEW n \in 1..2, NEW c, NEW d, vec = n, op_count \in Nat,
         Following(n, c, d), pc = "group", ~Refused(Here), advance(Taken(Here)),
         op_count' \in Nat, op_count' <= IF Stores(Here) THEN op_count + 1 ELSE op_count
  PROVE  Following(n, c, d)'
<1>1. PICK V, P, e, l :
        /\ V = argv[n] /\ Closed(n, V, P, e, l) /\ Begins(P, c) /\ e.count = d
        /\ (\E g \in P : At(g, e, l)) \/ Spent(e)
  BY DEF Following
<1>2. PICK g \in P : At(g, e, l)
  BY <1>1 DEF Spent
<1>3. /\ Diary(n, V, P, e, l) /\ e \in P /\ l \in Nat /\ e.at + l <= Len(V) + 1
      /\ \A f \in P : /\ f.at \in Nat /\ f.count \in Nat /\ f.at <= e.at /\ f.count <= e.count
      /\ g # e => \E h \in P : Leads(g, h)
  BY <1>1, DiaryIs DEF Closed
<1>4. /\ g.pc = "group" /\ g.at = pos - nonops /\ op_count + 1 <= g.count
      /\ nonops > 0 => g.at = e.at /\ nonops <= l
      /\ Alike(g.spot, Here)
      /\ g.at = e.at => nonops = l
  BY <1>2 DEF At
<1>5. /\ Args = V /\ Len(V) \in Nat /\ pos \in Nat /\ nonops \in Nat
      /\ (pos - nonops) + nonops = pos
  BY <1>1, WhereIs
<1>6. /\ Here \in Place /\ pos <= Len(V)
      /\ Here.next # NULL <=> pos < Len(V)
      /\ Here.next # NULL => Here.next = <<n, V[pos + 1], 1>>
  BY <1>5, HereIs
<1>7. UNCHANGED <<usage, set, text>> /\ vec' = vec
  BY DEF advance, vec
<1>8. Closed(n, V, P, e, l)'
  BY <1>1, <1>7, SameClosed
<1>9. ASSUME NEW h \in P, Leads(g, h), Taken(g.spot) = Taken(Here), Stores(g.spot) = Stores(Here)
      PROVE  Following(n, c, d)'
  <2>1. At(h, e, l)' /\ argv' = argv
    BY <1>1, <1>2, <1>3, <1>9, FollowAlong
  <2>2. QED
    BY <1>1, <1>8, <2>1 DEF Following
<1>10. g.at = e.at => e.pc = "group" /\ (g.spot.next = NULL <=> Here.next = NULL)
  <2>1. ASSUME g.at = e.at
        PROVE  /\ e.pc = "group"
               /\ g.spot.next # NULL <=> e.at + l < Len(V)
    BY <1>3, <1>4, <2>1 DEF Diary, GroupsAt
  <2>2. g.at = e.at => e.at + l = pos
    BY <1>4, <1>5
  <2>3. QED
    BY <1>6, <2>1, <2>2
<1>11. ASSUME g.at # e.at
       PROVE  /\ nonops = 0 /\ pos = g.at
              /\ g.spot.next # NULL => Here.next # NULL
              /\ g.spot.next = NULL => e.at = g.at + 1 /\ e.at + l = Len(V) + 1
  <2>1. nonops = 0 /\ pos = g.at
    BY <1>4, <1>5, <1>11
  <2>2. /\ g.spot.next # NULL => g.at < Len(V)
        /\ g.spot.next = NULL => e.at = g.at + 1 /\ e.at + l = Len(V) + 1
    BY <1>3, <1>4, <1>11 DEF Diary, GroupsAt
  <2>3. QED
    BY <1>6, <2>1, <2>2
<1>12. CASE g.spot.next = NULL <=> Here.next = NULL
  <2>4. g.spot.next = Here.next \/ (~ Refused(g.spot) /\ Taken(g.spot) # 2)
    <3>1. NextAt(n, V, P, e, l)
      BY <1>3 DEF Diary
    <3>2. CASE g.at = e.at
      <4>1. e.at + l + 1 = pos + 1
        BY <1>3, <1>4, <1>5, <3>2
      <4>2. g.spot.next # NULL => g.spot.next = <<n, V[pos + 1], 1>>
        BY <1>4, <3>1, <3>2, <4>1 DEF NextAt
      <4>3. QED
        BY <1>6, <1>12, <4>2
    <3>3. CASE g.at # e.at
      <4>1. pos = g.at /\ ~ Refused(g.spot)
        BY <1>3, <1>4, <1>11, <3>3 DEF Leads
      <4>2. g.spot.next # NULL /\ Taken(g.spot) = 2 => g.spot.next = <<n, V[pos + 1], 1>>
        BY <1>4, <3>1, <3>3, <4>1 DEF NextAt
      <4>3. QED
        BY <1>6, <1>12, <4>1, <4>2
    <3>4. QED
      BY <3>2, <3>3
  <2>1. Taken(g.spot) = Taken(Here) /\ Stores(g.spot) = Stores(Here) /\ Refused(g.spot) = Refused(Here)
    BY <1>4, <1>12, <2>4, SameOutcome
  <2>2. g # e
    <3>1. e.pc = "group" /\ g = e => Refused(e.spot)
      BY <1>1, <1>4 DEF Closed
    <3>2. QED
      BY <1>4, <2>1, <3>1
  <2>3. QED
    BY <1>3, <1>9, <2>1, <2>2
<1>13. CASE ~ (g.spot.next = NULL <=> Here.next = NULL)
  <2>1. g.at # e.at /\ g.spot.next = NULL /\ Here.next # NULL
    BY <1>10, <1>11, <1>13
  <2>2. nonops = 0 /\ pos = g.at /\ e.at = g.at + 1 /\ e.at + l = Len(V) + 1
    BY <1>11, <2>1
  <2>3. PICK h \in P : Leads(g, h)
    BY <1>3, <2>1
  <2>4. ~Refused(g.spot)
    BY <1>4, <2>3 DEF Leads
  <2>5. /\ Stores(g.spot) = Stores(Here)
        /\ Taken(Here) = Taken(g.spot) \/ (Taken(Here) = 2 /\ Stores(Here))
    BY <1>4, <2>1, <2>4, OutcomeWithMore
  <2>6. CASE Taken(Here) = Taken(g.spot)
    BY <1>9, <2>3, <2>5, <2>6
  <2>7. CASE Taken(Here) = 2 /\ Stores(Here)
    <3>1. pos + 2 - 1 <= Len(Args) /\ pos <= Len(Args)
      BY <1>5, <1>6, <2>1
    <3>2. argv' = argv /\ pos' = pos + 2 /\ pc' = "args"
      BY <2>2, <2>7, <3>1, TakeInPlace DEF advance
    <3>3. Args' = V
      BY <1>1, <1>5, <1>7, <3>2 DEF Args
    <3>4. \A i \in pos + 2 .. Len(V) : IsNonOption(text[n][V[i]])
      <4>1. \A i \in pos + 2 .. Len(V) : i \in e.at .. e.at + l - 1
        <5>1. e.at = pos + 1 /\ e.at + l - 1 = Len(V) /\ pos \in Nat /\ Len(V) \in Nat
          <6>1. e.at = pos + 1 /\ pos \in Nat /\ l \in Nat /\ Len(V) \in Nat
            BY <1>3, <1>5, <2>2
          <6>2. e.at + l = Len(V) + 1
            BY <2>2
          <6>3. QED
            BY <6>1, <6>2
        <5> DEFINE b == e.at + l - 1
        <5> HIDE DEF b
        <5>2. \A i \in pos + 2 .. b : i \in pos + 1 .. b
          BY <5>1 DEF b
        <5>3. QED
          BY <5>1, <5>2 DEF b
      <4>2. QED
        BY <1>3, <4>1 DEF Diary, LeftOut
    <3>5. op_count' + 1 <= e.count
      <4>1. h.count >= g.count + 1
        BY <1>4, <2>3, <2>5, <2>7 DEF Leads
      <4>2. op_count' <= op_count + 1 /\ op_count' \in Nat
        BY <2>7
      <4>3. g.count \in Nat /\ h.count \in Nat /\ e.count \in Nat /\ h.count <= e.count
        BY <1>3
      <4>4. QED
        BY <1>4, <4>1, <4>2, <4>3
    <3>6. e.at <= pos' - nonops'
      <4>1. nonops' = 0
        BY <2>2 DEF advance
      <4>2. QED
        BY <1>5, <2>2, <3>2, <4>1
    <3>8. Spent(e)'
      BY <1>7, <3>2, <3>3, <3>4, <3>5, <3>6 DEF Spent
    <3>7. QED
      BY <1>1, <1>8, <3>2, <3>8 DEF Following
  <2>8. QED
    BY <2>5, <2>6, <2>7
<1>14. QED
  BY <1>12, <1>13

LEMMA FollowBegins ==
  ASSUME TypeOK, NEW n \in 1..2, NEW c, NEW d, Written(n, c, d), begin, op_count' + 1 <= c
  PROVE  Following(n, c, d)'
<1>1. PICK V, P, e, l :
        V = argv[n] /\ Closed(n, V, P, e, l) /\ Begins(P, c) /\ e.count = d
  BY DEF Written
<1>2. PICK g \in P : g.pc = "args" /\ g.at = 1 /\ g.count = c
  BY <1>1 DEF Begins
<1>3. /\ argv' = argv /\ pos' = 1 /\ nonops' = 0 /\ pc' = "args"
      /\ UNCHANGED <<usage, set, text>>
  BY DEF begin
<1>4. At(g, e, l)'
  <2>1. pos' - nonops' = 1 /\ ~ (nonops' > 0)
    BY <1>3
  <2>2. QED
    BY <1>2, <1>3, <2>1 DEF At
<1>5. Closed(n, V, P, e, l)'
  BY <1>1, <1>3, SameClosed
<1>6. QED
  BY <1>1, <1>3, <1>4, <1>5 DEF Following

(* There is room for one more than has been stored.                        *)
LEMMA FollowRoom ==
  ASSUME NEW n \in 1..2, NEW c, NEW d, op_count \in Nat, Following(n, c, d)
  PROVE  op_count + 1 <= d
<1>1. PICK V, P, e, l :
        /\ V = argv[n] /\ Closed(n, V, P, e, l) /\ Begins(P, c) /\ e.count = d
        /\ (\E g \in P : At(g, e, l)) \/ Spent(e)
  BY DEF Following
<1>2. \A g \in P : g.count \in Nat /\ e.count \in Nat /\ g.count <= e.count
  BY <1>1, DiaryIs DEF Closed
<1>3. CASE Spent(e)
  BY <1>1, <1>3 DEF Spent
<1>4. CASE \E g \in P : At(g, e, l)
  <2>1. PICK g \in P : At(g, e, l)
    BY <1>4
  <2>2. op_count + 1 <= g.count
    BY <2>1 DEF At
  <2>3. QED
    BY <1>1, <1>2, <2>2
<1>5. QED
  BY <1>1, <1>3, <1>4

LEMMA WrittenIs ==
  ASSUME NEW n \in 1..2, NEW c, NEW d, Written(n, c, d)
  PROVE  c \in Nat /\ d \in Nat /\ c <= d
<1>1. PICK V, P, e, l :
        V = argv[n] /\ Closed(n, V, P, e, l) /\ Begins(P, c) /\ e.count = d
  BY DEF Written
<1>2. \A g \in P : g.count \in Nat /\ e.count \in Nat /\ g.count <= e.count
  BY <1>1, DiaryIs DEF Closed
<1>3. QED
  BY <1>1, <1>2 DEF Begins

LEMMA SameWritten ==
  ASSUME NEW n \in 1..2, NEW c, NEW d, Written(n, c, d),
         UNCHANGED <<usage, set, text>>, argv'[n] = argv[n]
  PROVE  Written(n, c, d)'
<1>1. PICK V, P, e, l :
        V = argv[n] /\ Closed(n, V, P, e, l) /\ Begins(P, c) /\ e.count = d
  BY DEF Written
<1>2. Closed(n, V, P, e, l)'
  BY <1>1, SameClosed
<1>3. QED
  BY <1>1, <1>2 DEF Written

(* A step of Parser within a call goes on with the diary or ends the call. *)
LEMMA ParserStep ==
  ASSUME TypeOK, NEW n \in 1..2, NEW c, NEW d, call = n + 2, pc # "call", op_count \in Nat,
         Followed, Following(n, c, d), Next
  PROVE  \/ Following(n, c, d)' /\ pc' # "call" /\ call' = call
         \/ /\ op_count + 1 <= d /\ pc' = "call" /\ call' = call + 1
            /\ argv' = argv /\ op_count' = op_count
<1>1. vec = n /\ ~Count(call) /\ call # 5
  BY DEF vec, Count
<1>2. op_count + 1 <= d
  BY FollowRoom
<1>3. CASE nonoption
  BY <1>1, <1>3, FollowNonoption DEF nonoption
<1>4. CASE option
  BY <1>1, <1>4, FollowOption DEF option
<1>5. CASE terminator
  BY <1>1, <1>5, FollowTerminator DEF terminator
<1>6. CASE stop_at_nonoption \/ end
  BY <1>1, <1>2, <1>6 DEF stop_at_nonoption, end, return
<1>7. CASE pc = "group"
  <2>1. CASE Refused(Here) /\ return(FALSE)
    BY <1>1, <1>2, <2>1 DEF return
  <2>2. CASE /\ ~Refused(Here) /\ advance(Taken(Here))
             /\ \/ Stores(Here) /\ \E o : Found(o) /\ perform(o)
                \/ ~Stores(Here) /\ UNCHANGED <<stats, parser>>
    <3>1. op_count' \in Nat /\ op_count' <= IF Stores(Here) THEN op_count + 1 ELSE op_count
      <4>1. op_count' \in {op_count, IF Stores(Here) THEN op_count + 1 ELSE op_count}
        BY <1>1, <2>2 DEF perform, parser
      <4>2. QED
        BY <4>1
    <3>2. Following(n, c, d)'
      BY <1>1, <1>7, <2>2, <3>1, FollowTurn
    <3>3. pc' # "call" /\ call' = call
      BY <2>2 DEF advance
    <3>4. QED
      BY <3>2, <3>3
  <2>3. QED
    BY <1>1, <1>7, <2>1, <2>2, GroupStep
<1>8. QED
  BY <1>1, <1>3, <1>4, <1>5, <1>6, <1>7
  DEF Next, begin, add, parse, end_of_group, drop, illegal, accept, returned

-----------------------------------------------------------------------------
(***************************************************************************)
(* The arrays.                                                             *)
(***************************************************************************)

(* Numbers of which there are finitely many have a bound, and a greatest.  *)
LEMMA BoundIs ==
  ASSUME NEW n \in Nat, NEW f \in [1..n -> Nat]
  PROVE  \E b \in Nat : \A i \in 1..n : f[i] <= b
<1> DEFINE Bounded(k) == \E b \in Nat : \A i \in 1..k : f[i] <= b
           T == {k \in 0..n : ~Bounded(k)}
           m == Least(T)
<1> SUFFICES ASSUME T # {} PROVE FALSE
  <2>1. n \notin T => Bounded(n)
    OBVIOUS
  <2>2. QED
    BY <2>1
<1>1. m \in T /\ \A k \in T : m <= k
  <2>1. T \in SUBSET Nat
    OBVIOUS
  <2> HIDE DEF T
  <2>2. QED
    BY <2>1, LeastIs
<1> HIDE DEF m
<1>2. m \in 0..n /\ ~Bounded(m)
  BY <1>1
<1>3. m # 0
  BY <1>2
<1>4. m - 1 \in 0..n /\ m - 1 \notin T
  <2>1. m - 1 \in 0..n /\ ~ (m <= m - 1)
    BY <1>2, <1>3
  <2> HIDE DEF T
  <2>2. QED
    BY <1>1, <2>1
<1>5. PICK b \in Nat : \A i \in 1..m - 1 : f[i] <= b
  BY <1>4
<1> DEFINE c == IF f[m] <= b THEN b ELSE f[m]
<1>6. m \in 1..n /\ f[m] \in Nat
  <2>1. m \in 1..n
    BY <1>2, <1>3
  <2>2. QED
    BY <2>1
<1>7. c \in Nat /\ \A i \in 1..m : f[i] <= c
  <2>1. c \in Nat /\ b <= c /\ f[m] <= c
    <3> DEFINE x == f[m]
    <3>1. x \in Nat /\ c = IF x <= b THEN b ELSE x
      BY <1>6
    <3> HIDE DEF x, c
    <3>2. c \in Nat /\ b <= c /\ x <= c
      BY <3>1
    <3>3. QED
      BY <3>2 DEF x
  <2> HIDE DEF c
  <2>2. ASSUME NEW i \in 1..m PROVE f[i] <= c
    <3>1. CASE i = m
      BY <2>1, <3>1
    <3>2. CASE i # m
      <4>1. i \in 1..m - 1 /\ i \in 1..n
        BY <1>6, <3>2
      <4>2. f[i] <= b /\ f[i] \in Nat
        BY <1>5, <4>1
      <4> DEFINE x == f[i]
      <4>3. x <= b /\ x \in Nat
        BY <4>2
      <4> HIDE DEF x
      <4>4. x <= c
        BY <2>1, <4>3
      <4>5. QED
        BY <4>4 DEF x
    <3>3. QED
      BY <3>1, <3>2
  <2>3. QED
    BY <2>1, <2>2
<1> HIDE DEF c
<1>8. QED
  BY <1>2, <1>7

LEMMA MaxIs ==
  ASSUME NEW S \in SUBSET Nat, S # {}, NEW b \in Nat, \A y \in S : y <= b
  PROVE  Max(S) \in S /\ \A y \in S : y <= Max(S)
<1> DEFINE B == {x \in Nat : \A y \in S : y <= x}
           m == Least(B)
<1>1. m \in Nat /\ (\A y \in S : y <= m) /\ \A x \in Nat : (\A y \in S : y <= x) => m <= x
  <2>1. B \in SUBSET Nat /\ b \in B
    OBVIOUS
  <2>2. Least(B) \in B /\ \A x \in B : Least(B) <= x
    BY <2>1, LeastIs
  <2>3. QED
    BY <2>2
<1> HIDE DEF B, m
<1>2. m \in S
  <2> SUFFICES ASSUME m \notin S PROVE FALSE
    OBVIOUS
  <2>1. \A y \in S : y \in Nat /\ y < m
    BY <1>1
  <2>2. m - 1 \in Nat
    <3>1. PICK y \in S : TRUE
      OBVIOUS
    <3>2. QED
      BY <1>1, <2>1, <3>1
  <2>3. \A y \in S : y <= m - 1
    BY <1>1, <2>1
  <2>4. m <= m - 1
    BY <1>1, <2>2, <2>3
  <2>5. QED
    BY <1>1, <2>4
<1>3. \A y \in S : m >= y
  BY <1>1
<1>4. QED
  BY <1>1, <1>2, <1>3 DEF Max

(* options[] has an entry for every index, from the first Stats::add() on. *)
Sized ==
    /\ buffer_max \in Nat /\ options_max \in Nat
    /\ call > 1 \/ pc # "call" => \A i \in Indices : i \in Nat /\ i < options_max

LEMMA SizedByAdd ==
  ASSUME TypeOK, Sized, add
  PROVE  options_max' \in Nat /\ \A i \in Indices : i \in Nat /\ i < options_max'
<1> DEFINE n == Len(usage)
           f == [i \in 1..n |-> usage[i].index]
           S == {options_max} \cup {i + 2 : i \in Indices}
<1>1. n \in Nat /\ DOMAIN usage = 1..n /\ \A i \in 1..n : usage[i].index \in Nat
  <2>1. usage \in Seq(Descriptor) /\ n \in Nat /\ DOMAIN usage = 1..n
    BY UsageType
  <2>2. \A i \in 1..n : usage[i] \in Descriptor
    BY <2>1, ElementOfSeq
  <2>3. QED
    BY <2>1, <2>2 DEF Descriptor
<1> HIDE DEF n
<1>2. f \in [1..n -> Nat]
  BY <1>1
<1>3. Indices = {f[i] : i \in 1..n} /\ \A i \in Indices : i \in Nat
  BY <1>1 DEF Indices
<1>4. PICK b \in Nat : \A i \in 1..n : f[i] <= b
  BY <1>1, <1>2, BoundIs
<1> HIDE DEF f
<1>5. options_max \in Nat /\ \A i \in Indices : i \in Nat /\ i <= b
  BY <1>3, <1>4 DEF Sized
<1>6. S \in SUBSET Nat /\ S # {}
  BY <1>5
<1>7. \A y \in S : y <= b + 2 + options_max
  BY <1>5
<1>8. Max(S) \in S /\ \A y \in S : y <= Max(S)
  <2>1. b + 2 + options_max \in Nat
    BY <1>5
  <2> HIDE DEF S
  <2>2. QED
    BY <1>6, <1>7, <2>1, MaxIs
<1>9. options_max' = Max(S)
  BY DEF add
<1>10. \A i \in Indices : i + 2 <= Max(S)
  BY <1>8
<1> DEFINE m == Max(S)
<1>11. m \in Nat
  BY <1>6, <1>8
<1> HIDE DEF m
<1>12. \A i \in Indices : i < m
  BY <1>5, <1>10, <1>11 DEF m
<1>13. QED
  BY <1>5, <1>9, <1>11, <1>12 DEF m

LEMMA SizedInit == Init => Sized
BY DEF Init, Sized

LEMMA SizedNext == TypeOK /\ Sized /\ [Next]_vars => Sized'
<1> SUFFICES ASSUME TypeOK, Sized, [Next]_vars
             PROVE  Sized'
  OBVIOUS
<1>1. usage' = usage => Indices' = Indices
  BY DEF Indices
<1>2. CASE begin
  <2>1. usage' = usage /\ call' = call
    BY <1>2 DEF begin
  <2>2. CASE add
    <3>1. buffer_max' = buffer_max
      BY <2>2 DEF add
    <3>2. options_max' \in Nat /\ \A i \in Indices : i \in Nat /\ i < options_max'
      BY <2>2, SizedByAdd
    <3>3. QED
      BY <1>1, <2>1, <3>1, <3>2 DEF Sized
  <2>3. CASE parse
    <3>1. options_max' = options_max /\ buffer_max' = buffer_max /\ call > 1
      BY <2>3 DEF parse, stats
    <3>2. QED
      BY <1>1, <2>1, <3>1 DEF Sized
  <2>4. QED
    BY <1>2, <2>2, <2>3 DEF begin
<1>3. ASSUME pc # "call", UNCHANGED <<usage, options_max>>,
             buffer_max' \in {buffer_max, buffer_max + 1}
      PROVE  Sized'
  BY <1>1, <1>3 DEF Sized
<1>4. CASE nonoption \/ option \/ terminator \/ stop_at_nonoption \/ end
  BY <1>3, <1>4 DEF nonoption, option, terminator, stop_at_nonoption, end, return, stats
<1>5. CASE pc = "group" /\ Next /\ call # 5
  <2>1. UNCHANGED <<usage, options_max>> /\ buffer_max' \in {buffer_max, buffer_max + 1}
    BY <1>5, GroupStep DEF return, advance, perform, stats
  <2>2. QED
    BY <1>3, <1>5, <2>1
<1>6. CASE UNCHANGED vars
  BY <1>1, <1>6 DEF vars, stats, Sized
<1>7. QED
  <2>1. pc = "group" => call # 5
    BY DEF TypeOK
  <2>2. QED
    BY <1>2, <1>4, <1>5, <1>6, <2>1 DEF Next, end_of_group, drop, illegal, accept, returned

(* A memory of the objects A.                                              *)
Fields == {"desc", "name", "arg", "prev_", "next_"}

IsMemory(m, A) ==
    /\ m = [p \in A |-> m[p]]
    /\ \A p \in A : m[p] = [f \in Fields |-> m[p][f]]

(* All of an option but its links.                                         *)
SameOption(x, y) == x.desc = y.desc /\ x.name = y.name /\ x.arg = y.arg

LEMMA InitIs ==
  ASSUME NEW p, NEW desc, NEW name, NEW arg
  PROVE  /\ init(p, desc, name, arg).desc = desc /\ init(p, desc, name, arg).name = name
         /\ init(p, desc, name, arg).arg = arg
         /\ init(p, desc, name, arg) = [f \in Fields |-> init(p, desc, name, arg)[f]]
BY DEF init, Fields

(* Assignment changes one object.                                          *)
LEMMA CopiedIs ==
  ASSUME NEW A, NEW m, IsMemory(m, A), NEW p \in A, NEW o
  PROVE  /\ IsMemory(Copied(m, p, o), A) /\ SameOption(Copied(m, p, o)[p], o)
         /\ \A q \in A : q # p => SameOption(Copied(m, p, o)[q], m[q])
<1> DEFINE x == init(p, o.desc, o.name, o.arg)
           c == Copied(m, p, o)
<1>1. SameOption(x, o) /\ x = [f \in Fields |-> x[f]]
  BY InitIs DEF SameOption
<1>2. c = [m EXCEPT ![p] = x]
  BY DEF Copied
<1> HIDE DEF x, c
<1>3. m = [q \in A |-> m[q]] /\ \A q \in A : m[q] = [f \in Fields |-> m[q][f]]
  BY DEF IsMemory
<1>4. c = [q \in A |-> c[q]] /\ c[p] = x /\ \A q \in A : q # p => c[q] = m[q]
  BY <1>2, <1>3
<1>5. IsMemory(c, A)
  BY <1>1, <1>3, <1>4 DEF IsMemory
<1>6. QED
  BY <1>1, <1>4, <1>5 DEF c, SameOption

(* Setting a link changes nothing else.                                    *)
LEMMA LinkIs ==
  ASSUME NEW A, NEW m, IsMemory(m, A), NEW q, NEW x, NEW c,
         c \in {[m EXCEPT ![q].next_ = x], [m EXCEPT ![q].prev_ = x]}
  PROVE  IsMemory(c, A) /\ \A p \in A : SameOption(c[p], m[p])
<1>1. m = [p \in A |-> m[p]] /\ \A p \in A : m[p] = [f \in Fields |-> m[p][f]]
  BY DEF IsMemory
<1>2. PICK r : /\ r \in {[m[q] EXCEPT !.next_ = x], [m[q] EXCEPT !.prev_ = x]}
               /\ c = [m EXCEPT ![q] = r]
  OBVIOUS
<1>3. c = [p \in A |-> c[p]] /\ \A p \in A : c[p] = IF p = q THEN r ELSE m[p]
  BY <1>1, <1>2
<1>4. q \in A => r = [f \in Fields |-> r[f]] /\ SameOption(r, m[q])
  <2> SUFFICES ASSUME q \in A PROVE r = [f \in Fields |-> r[f]] /\ SameOption(r, m[q])
    OBVIOUS
  <2> DEFINE s == m[q]
  <2>1. s = [f \in Fields |-> s[f]] /\ r \in {[s EXCEPT !.next_ = x], [s EXCEPT !.prev_ = x]}
    BY <1>1, <1>2
  <2> HIDE DEF s
  <2>2. r = [f \in Fields |-> r[f]] /\ SameOption(r, s)
    BY <2>1 DEF Fields, SameOption
  <2>3. QED
    BY <2>2 DEF s
<1>5. QED
  BY <1>1, <1>3, <1>4 DEF IsMemory, SameOption

LEMMA AppendIs ==
  ASSUME NEW A, NEW m, IsMemory(m, A), NEW p, NEW new
  PROVE  IsMemory(append(m, p, new), A) /\ \A q \in A : SameOption(append(m, p, new)[q], m[q])
<1> DEFINE l == last(m, p)
           g == first(m, p)
           m1 == [m EXCEPT ![l].next_ = plain(new)]
           m2 == [m1 EXCEPT ![new].prev_ = plain(l)]
           m3 == [m2 EXCEPT ![new].next_ = tag(g)]
           m4 == [m3 EXCEPT ![g].prev_ = tag(new)]
<1>1. append(m, p, new) = m4
  BY DEF append
<1> HIDE DEF l, g
<1>2. IsMemory(m1, A) /\ \A q \in A : SameOption(m1[q], m[q])
  BY LinkIs
<1> HIDE DEF m1
<1>3. IsMemory(m2, A) /\ \A q \in A : SameOption(m2[q], m1[q])
  <2> DEFINE x == plain(l)
  <2>1. m2 \in {[m1 EXCEPT ![new].next_ = x], [m1 EXCEPT ![new].prev_ = x]}
    OBVIOUS
  <2> HIDE DEF x, m2
  <2>2. QED
    BY <1>2, <2>1, LinkIs
<1> HIDE DEF m2
<1>4. IsMemory(m3, A) /\ \A q \in A : SameOption(m3[q], m2[q])
  <2> DEFINE x == tag(g)
  <2>1. m3 \in {[m2 EXCEPT ![new].next_ = x], [m2 EXCEPT ![new].prev_ = x]}
    OBVIOUS
  <2> HIDE DEF x, m3
  <2>2. QED
    BY <1>3, <2>1, LinkIs
<1> HIDE DEF m3
<1>5. IsMemory(m4, A) /\ \A q \in A : SameOption(m4[q], m3[q])
  <2> DEFINE x == tag(new)
  <2>1. m4 \in {[m3 EXCEPT ![g].next_ = x], [m3 EXCEPT ![g].prev_ = x]}
    OBVIOUS
  <2> HIDE DEF x, m4
  <2>2. QED
    BY <1>4, <2>1, LinkIs
<1> HIDE DEF m4
<1>6. QED
  BY <1>1, <1>2, <1>3, <1>4, <1>5 DEF SameOption

(* The first op_count slots of the buffer are in use.                      *)
InUse(m, k) == \A j \in 0..Room - 1 : valid(m, buf(j)) <=> j < k

Filled ==
    /\ op_count \in Nat
    /\ IF call <= 2 \/ (call = 3 /\ pc = "call")
       THEN mem = << >> /\ op_count = 0
       ELSE IsMemory(mem, Allocated) /\ op_count <= Room /\ InUse(mem, op_count)

LEMMA RoomIs ==
  ASSUME TypeOK, Sized
  PROVE  Room \in Nat /\ (set.bufmax < 0 => Room = buffer_max)
<1>1. set.bufmax \in Nat \cup {-1}
  BY ConstantsAssumption DEF TypeOK, ConstantsAssumption, Parameters
<1>2. QED
  BY <1>1 DEF Sized, Room

LEMMA FirstEmptyIs ==
  ASSUME Room \in Nat, NEW m, NEW k \in Nat, k <= Room, InUse(m, k)
  PROVE  FirstEmpty(m) = k
<1> DEFINE S == {j \in 0..Room - 1 : ~ valid(m, buf(j))} \cup {Room}
           x == Least(S)
<1>1. \A j \in 0..Room - 1 : valid(m, buf(j)) <=> j < k
  BY DEF InUse
<1>2. S \in SUBSET Nat /\ \A j \in S : k <= j
  <2>1. S \in SUBSET Nat
    OBVIOUS
  <2>2. ASSUME NEW j \in S PROVE k <= j
    <3>1. CASE j = Room
      BY <3>1
    <3>2. CASE j \in 0..Room - 1 /\ ~ valid(m, buf(j))
      BY <1>1, <3>2
    <3>3. QED
      BY <3>1, <3>2
  <2>3. QED
    BY <2>1, <2>2
<1>3. k \in S
  <2>1. CASE k = Room
    BY <2>1
  <2>2. CASE k # Room
    <3>1. k \in 0..Room - 1
      BY <2>2
    <3>2. QED
      BY <1>1, <3>1
  <2>3. QED
    BY <2>1, <2>2
<1>4. FirstEmpty(m) = x
  BY DEF FirstEmpty
<1> HIDE DEF S
<1>5. x \in S /\ \A j \in S : x <= j
  BY <1>2, <1>3, LeastIs
<1> HIDE DEF x
<1>6. x \in Nat /\ k <= x /\ x <= k
  BY <1>2, <1>3, <1>5
<1>7. QED
  BY <1>4, <1>6

(* perform() uses one more slot, whatever list it goes to.                 *)
LEMMA StoredIs ==
  ASSUME TypeOK, Sized, Room \in Nat, call > 1, op_count \in Nat, op_count < Room,
         IsMemory(mem, Allocated), InUse(mem, op_count), NEW o, o.desc \in DOMAIN usage
  PROVE  /\ IsMemory(Stored(mem, o), Allocated) /\ InUse(Stored(mem, o), op_count + 1)
         /\ SameOption(Stored(mem, o)[buf(op_count)], o)
         /\ \A k \in 0..op_count - 1 : SameOption(Stored(mem, o)[buf(k)], mem[buf(k)])
<1> DEFINE i == usage[o.desc].index
           b == buf(op_count)
           h == opt(i)
           n == Copied(mem, b, o)
<1>1. o.desc # 0
  BY UsageType
<1>2. i \in Nat /\ i < options_max
  BY DEF Indices, Sized
<1>3. b \in Allocated /\ h \in Allocated
  <2>1. i \in 0..options_max - 1 /\ op_count \in 0..Room - 1
    BY <1>2 DEF Sized
  <2>2. QED
    BY <2>1 DEF Allocated
<1>4. \A k : h # buf(k) /\ (buf(k) = b <=> k = op_count)
  BY DEF opt, buf
<1>5. \A k \in 0..Room - 1 : buf(k) \in Allocated
  BY DEF Allocated
<1> HIDE DEF i, b, h
<1>6. /\ IsMemory(n, Allocated) /\ SameOption(n[b], o)
      /\ \A q \in Allocated : q # b => SameOption(n[q], mem[q])
  BY <1>3, CopiedIs
<1>7. Stored(mem, o) = IF valid(n, h) THEN append(n, h, b) ELSE Copied(n, h, o)
  BY DEF Stored, i, b, h
<1> HIDE DEF n
<1> DEFINE s == Stored(mem, o)
<1>8. /\ IsMemory(s, Allocated)
      /\ \A q \in Allocated : q # h => SameOption(s[q], n[q])
  <2>1. CASE valid(n, h)
    <3>1. s = append(n, h, b)
      BY <1>7, <2>1
    <3> HIDE DEF s
    <3>2. QED
      BY <1>6, <3>1, AppendIs
  <2>2. CASE ~valid(n, h)
    <3>1. s = Copied(n, h, o)
      BY <1>7, <2>2
    <3> HIDE DEF s
    <3>2. QED
      BY <1>3, <1>6, <3>1, CopiedIs
  <2>3. QED
    BY <2>1, <2>2
<1> HIDE DEF s
<1>9. ASSUME NEW k \in 0..Room - 1
      PROVE  /\ valid(s, buf(k)) <=> k < op_count + 1
             /\ k = op_count => SameOption(s[buf(k)], o)
             /\ k # op_count => SameOption(s[buf(k)], mem[buf(k)])
  <2>1. buf(k) \in Allocated /\ buf(k) # h /\ SameOption(s[buf(k)], n[buf(k)])
    BY <1>4, <1>5, <1>8
  <2>2. CASE k = op_count
    <3>1. buf(k) = b
      BY <1>4, <2>2
    <3>2. valid(s, buf(k)) /\ SameOption(s[buf(k)], o)
      BY <1>1, <1>6, <2>1, <3>1 DEF valid, SameOption
    <3>3. QED
      BY <2>2, <3>2
  <2>3. CASE k # op_count
    <3>1. SameOption(s[buf(k)], mem[buf(k)])
      BY <1>4, <1>6, <2>1, <2>3 DEF SameOption
    <3>2. valid(s, buf(k)) <=> valid(mem, buf(k))
      BY <3>1 DEF valid, SameOption
    <3>3. valid(mem, buf(k)) <=> k < op_count
      BY DEF InUse
    <3>4. k < op_count <=> k < op_count + 1
      BY <2>3
    <3>5. QED
      BY <2>3, <3>1, <3>2, <3>3, <3>4
  <2>4. QED
    BY <2>2, <2>3
<1>10. \A k \in 0..op_count - 1 : k \in 0..Room - 1 /\ k # op_count
  OBVIOUS
<1>11. op_count \in 0..Room - 1
  OBVIOUS
<1>12. QED
  BY <1>8, <1>9, <1>10, <1>11 DEF InUse, s

-----------------------------------------------------------------------------
(***************************************************************************)
(* The invariant.                                                          *)
(***************************************************************************)

(* What has been counted, and what the diaries say of it: Stats ends the   *)
(* first vector with some c and the second with d; Parser has fewer in the *)
(* buffer than c when it is through the first, than d in the end.          *)
Counted ==
    /\ call = 1 => IF pc = "call" THEN buffer_max = 1 ELSE Writing(1, 1)
    /\ call = 2 => \E c \in Nat :
          /\ Written(1, 1, c)
          /\ IF pc = "call" THEN buffer_max = c ELSE Writing(2, c)
    /\ call = 3 /\ Followed => \E c, d \in Nat :
          /\ buffer_max = d /\ Written(2, c, d)
          /\ IF pc = "call" THEN Written(1, 1, c) ELSE Following(1, 1, c)
    /\ call = 4 /\ Followed => \E c, d \in Nat :
          /\ buffer_max = d
          /\ IF pc = "call" THEN op_count + 1 <= c /\ Written(2, c, d) ELSE Following(2, c, d)
    /\ call = 5 /\ Followed => op_count + 1 <= buffer_max

LEMMA RoomLeft ==
  ASSUME TypeOK, Sized, op_count \in Nat, Counted, set.bufmax < 0,
         call > 3 \/ (call = 3 /\ pc # "call")
  PROVE  op_count + 1 <= buffer_max /\ op_count < Room
<1>0. Followed
  BY CallsMatch DEF TypeOK, Followed
<1>1. op_count + 1 <= buffer_max
  <2>1. CASE call = 3 /\ pc # "call"
    <3>1. PICK c \in Nat, d \in Nat : buffer_max = d /\ Written(2, c, d) /\ Following(1, 1, c)
      BY <1>0, <2>1 DEF Counted
    <3>2. op_count + 1 <= c /\ c <= d
      BY <3>1, FollowRoom, WrittenIs
    <3>3. QED
      BY <3>1, <3>2
  <2>2. CASE call = 4
    <3>1. PICK c \in Nat, d \in Nat :
            /\ buffer_max = d
            /\ IF pc = "call" THEN op_count + 1 <= c /\ Written(2, c, d) ELSE Following(2, c, d)
      BY <1>0, <2>2 DEF Counted
    <3>2. op_count + 1 <= d
      <4>1. CASE pc = "call"
        <5>1. op_count + 1 <= c /\ c <= d
          BY <3>1, <4>1, WrittenIs
        <5>2. QED
          BY <5>1
      <4>2. CASE pc # "call"
        BY <3>1, <4>2, FollowRoom
      <4>3. QED
        BY <4>1, <4>2
    <3>3. QED
      BY <3>1, <3>2
  <2>3. CASE call = 5
    BY <1>0, <2>3 DEF Counted
  <2>4. QED
    BY <2>1, <2>2, <2>3 DEF TypeOK
<1>2. Room = buffer_max /\ buffer_max \in Nat
  BY RoomIs DEF Sized
<1>3. QED
  BY <1>1, <1>2

(* What perform() does to the buffer in a parse().                         *)
LEMMA PerformIs ==
  ASSUME TypeOK, Sized, Filled, Counted, call \in 3..4, pc # "call", NEW o, o.desc \in DOMAIN usage,
         perform(o)
  PROVE  /\ UNCHANGED <<buffer_max, options_max, nonop_args, err>>
         /\ \/ /\ op_count' = op_count + 1 /\ op_count' <= Room
               /\ IsMemory(mem', Allocated) /\ InUse(mem', op_count')
               /\ SameOption(mem'[buf(op_count)], o)
               /\ \A k \in 0..op_count - 1 : SameOption(mem'[buf(k)], mem[buf(k)])
            \/ ~ (set.bufmax < 0) /\ UNCHANGED <<mem, op_count>>
<1>1. Room \in Nat /\ op_count \in Nat /\ ~ Count(call) /\ call > 1 /\ call \in 1..5
  BY RoomIs DEF Filled, Count
<1>2. UNCHANGED <<buffer_max, options_max, nonop_args, err>>
  BY <1>1 DEF perform, stats
<1>3. CASE set.bufmax < 0 \/ op_count < set.bufmax
  <2>1. mem' = Stored(mem, o) /\ op_count' = op_count + 1
    BY <1>1, <1>3 DEF perform
  <2>2. op_count < Room
    <3>1. CASE set.bufmax < 0
      BY <1>1, <3>1, RoomLeft
    <3>2. CASE ~ (set.bufmax < 0)
      BY <1>3, <3>2 DEF Room
    <3>3. QED
      BY <3>1, <3>2
  <2>3. IsMemory(mem, Allocated) /\ InUse(mem, op_count)
    BY <1>1 DEF Filled, Count
  <2>4. /\ IsMemory(mem', Allocated) /\ InUse(mem', op_count')
        /\ SameOption(mem'[buf(op_count)], o)
        /\ \A k \in 0..op_count - 1 : SameOption(mem'[buf(k)], mem[buf(k)])
    BY <1>1, <2>1, <2>2, <2>3, StoredIs
  <2>5. op_count + 1 <= Room
    BY <1>1, <2>2
  <2>6. QED
    BY <1>2, <2>1, <2>4, <2>5
<1>4. CASE ~ (set.bufmax < 0 \/ op_count < set.bufmax)
  BY <1>1, <1>2, <1>4 DEF perform
<1>5. QED
  BY <1>3, <1>4

LEMMA FilledInit == Init => Filled
BY DEF Init, Filled

LEMMA FilledNext == TypeOK /\ Sized /\ Filled /\ Counted /\ [Next]_vars => Filled'
<1> SUFFICES ASSUME TypeOK, Sized, Filled, Counted, [Next]_vars
             PROVE  Filled'
  OBVIOUS
<1>1. Room \in Nat /\ op_count \in Nat /\ call \in 1..5
  BY RoomIs DEF Filled, TypeOK
<1> DEFINE Fresh == call <= 2 \/ (call = 3 /\ pc = "call")
<1>2. ASSUME UNCHANGED <<set, buffer_max, options_max>>
      PROVE  Room' = Room /\ Allocated' = Allocated
  BY <1>2 DEF Room, Allocated, opt, buf
<1>3. ASSUME ~Fresh, UNCHANGED <<set, buffer_max, options_max>>, Fresh' = FALSE,
             op_count' \in Nat, op_count' <= Room, IsMemory(mem', Allocated), InUse(mem', op_count')
      PROVE  Filled'
  BY <1>2, <1>3 DEF Filled, InUse
<1>4. ASSUME Fresh, Fresh', UNCHANGED <<mem, op_count>>
      PROVE  Filled'
  BY <1>4 DEF Filled
<1>5. ASSUME ~Fresh, Fresh' = FALSE, UNCHANGED <<set, buffer_max, options_max, mem, op_count>>
      PROVE  Filled'
  BY <1>2, <1>5 DEF Filled, InUse
<1>6. CASE begin
  <2>1. pc = "call" /\ pc' = "args" /\ call' = call /\ set' = set
    BY <1>6 DEF begin, add, parse
  <2>2. CASE add
    <3>1. Fresh /\ Fresh' /\ UNCHANGED <<mem, op_count>>
      BY <2>1, <2>2 DEF add, Count, parser
    <3>2. QED
      BY <1>4, <3>1
  <2>3. CASE parse /\ call = 3
    <3> DEFINE m == [p \in Allocated |-> Option(p)]
    <3>1. /\ mem' = m /\ op_count' = FirstEmpty(m)
          /\ UNCHANGED <<set, buffer_max, options_max>>
      BY <2>1, <2>3 DEF parse, stats
    <3>2. IsMemory(m, Allocated) /\ \A p \in Allocated : m[p].desc = 0
      BY InitIs DEF IsMemory, Option
    <3> HIDE DEF m
    <3>3. \A k \in 0..Room - 1 : buf(k) \in Allocated
      BY DEF Allocated
    <3>4. InUse(m, 0)
      BY <3>2, <3>3 DEF InUse, valid
    <3>5. FirstEmpty(m) = 0
      BY <1>1, <3>4, FirstEmptyIs
    <3>6. Room' = Room /\ Allocated' = Allocated
      BY <1>2, <3>1
    <3>7. op_count' = 0 /\ call' = 3 /\ pc' = "args" /\ 0 <= Room
      BY <1>1, <2>1, <2>3, <3>1, <3>5
    <3>8. QED
      BY <3>1, <3>2, <3>4, <3>6, <3>7 DEF Filled, InUse
  <2>4. CASE parse /\ call = 4
    <3>1. /\ mem' = mem /\ op_count' = FirstEmpty(mem)
          /\ UNCHANGED <<set, buffer_max, options_max>>
      BY <2>1, <2>4 DEF parse, stats
    <3>2. op_count <= Room /\ InUse(mem, op_count)
      BY <2>4 DEF Filled
    <3>3. op_count' = op_count
      BY <1>1, <3>1, <3>2, FirstEmptyIs
    <3>4. ~Fresh /\ Fresh' = FALSE
      BY <2>1, <2>4
    <3>5. QED
      BY <1>5, <3>1, <3>3, <3>4
  <2>5. QED
    BY <1>6, <2>2, <2>3, <2>4 DEF begin, parse
<1>7. ASSUME NEW ok, return(ok), pc # "call"
      PROVE  Filled'
  <2>1. /\ call' = call + 1 /\ pc' = "call"
        /\ UNCHANGED <<set, buffer_max, options_max, mem, op_count>>
    BY <1>7 DEF return, stats, parser
  <2>2. CASE call <= 2
    <3>1. Fresh /\ Fresh'
      BY <1>1, <2>1, <2>2
    <3>2. QED
      BY <1>4, <2>1, <3>1
  <2>3. CASE call > 2
    <3>1. ~Fresh /\ Fresh' = FALSE
      BY <1>1, <1>7, <2>1, <2>3
    <3>2. QED
      BY <1>5, <2>1, <3>1
  <2>4. QED
    BY <1>1, <2>2, <2>3
<1>8. ASSUME pc # "call", pc' # "call", UNCHANGED <<set, call, buffer_max, options_max, mem, op_count>>
      PROVE  Filled'
  <2>1. CASE Fresh
    <3>1. Fresh'
      BY <1>8, <2>1
    <3>2. QED
      BY <1>4, <1>8, <2>1, <3>1
  <2>2. CASE ~Fresh
    <3>1. Fresh' = FALSE
      BY <1>8, <2>2
    <3>2. QED
      BY <1>5, <1>8, <2>2, <3>1
  <2>3. QED
    BY <2>1, <2>2
<1>9. CASE nonoption \/ option \/ terminator
  BY <1>8, <1>9 DEF nonoption, option, terminator, stats, parser
<1>10. CASE stop_at_nonoption \/ end
  BY <1>7, <1>10 DEF stop_at_nonoption, end
<1>11. CASE pc = "group" /\ Next /\ call # 5
  <2>1. CASE Refused(Here) /\ return(FALSE)
    BY <1>7, <1>11, <2>1
  <2>2. CASE ~Stores(Here) /\ advance(Taken(Here)) /\ UNCHANGED <<stats, parser>>
    <3>1. pc' # "call" /\ UNCHANGED <<set, call, buffer_max, options_max, mem, op_count>>
      BY <2>2 DEF advance, stats, parser
    <3>2. QED
      BY <1>8, <1>11, <3>1
  <2>3. ASSUME NEW o, o.desc \in DOMAIN usage, perform(o), advance(Taken(Here))
        PROVE  Filled'
    <3>1. pc' # "call" /\ UNCHANGED <<set, call>>
      BY <2>3 DEF advance
    <3>2. CASE Count(call)
      <4>1. UNCHANGED <<mem, op_count>> /\ Fresh /\ Fresh'
        BY <2>3, <3>1, <3>2 DEF perform, parser, Count
      <4>2. QED
        BY <1>4, <4>1
    <3>3. CASE ~Count(call)
      <4>1. ~Fresh /\ Fresh' = FALSE /\ call > 2
        BY <1>1, <1>11, <3>1, <3>3 DEF Count
      <4>2. UNCHANGED <<buffer_max, options_max>>
        BY <2>3, <3>3 DEF perform, stats
      <4>3. call \in 3..4
        BY <1>1, <1>11, <4>1
      <4>4. CASE /\ op_count' = op_count + 1 /\ op_count' <= Room
                 /\ IsMemory(mem', Allocated) /\ InUse(mem', op_count')
        <5>1. op_count' \in Nat
          BY <1>1, <4>4
        <5>2. QED
          BY <1>3, <3>1, <4>1, <4>2, <4>4, <5>1
      <4>5. CASE UNCHANGED <<mem, op_count>>
        BY <1>5, <3>1, <4>1, <4>2, <4>5
      <4>6. QED
        BY <1>11, <2>3, <4>3, <4>4, <4>5, PerformIs
    <3>4. QED
      BY <3>2, <3>3
  <2>4. QED
    BY <1>11, <2>1, <2>2, <2>3, GroupStep DEF Found
<1>12. CASE UNCHANGED vars
  <2>1. UNCHANGED <<set, call, pc, buffer_max, options_max, mem, op_count>>
    BY <1>12 DEF vars, stats, parser
  <2>2. Room' = Room /\ Allocated' = Allocated
    BY <1>2, <2>1
  <2>3. QED
    BY <2>1, <2>2 DEF Filled, InUse
<1>13. QED
  <2>1. pc = "group" => call # 5
    BY DEF TypeOK
  <2>2. QED
    BY <1>6, <1>9, <1>10, <1>11, <1>12, <2>1
    DEF Next, end_of_group, drop, illegal, accept, returned

(* Only the vector that a call is in may change.                           *)
LEMMA OtherVector ==
  ASSUME TypeOK, NEW n \in 1..2, vec # n, Next, call # 5
  PROVE  argv'[n] = argv[n]
<1>1. ASSUME NEW k, take(k)
      PROVE  argv'[n] = argv[n]
  <2>1. argv \in [1..2 -> Seq(Nat)] /\ argv' = [argv EXCEPT ![vec] = Moved(Args, k)]
    BY <1>1 DEF TypeOK, take
  <2>2. QED
    BY <2>1
<1>2. CASE pc = "group"
  BY <1>1, <1>2, GroupStep DEF return, advance
<1>3. CASE terminator
  BY <1>1, <1>3 DEF terminator
<1>4. CASE begin \/ nonoption \/ option \/ stop_at_nonoption \/ end
  BY <1>4 DEF begin, nonoption, option, stop_at_nonoption, end, return
<1>5. QED
  BY <1>2, <1>3, <1>4 DEF Next, end_of_group, drop, illegal, accept, returned

(* The steps of Parser do not touch what Stats has counted.                *)
LEMMA KeptByParser ==
  ASSUME TypeOK, ~Count(call), Next
  PROVE  buffer_max' = buffer_max
<1>1. CASE pc = "group" /\ call # 5
  BY <1>1, GroupStep DEF return, perform, stats
<1>2. CASE begin
  BY <1>2 DEF begin, add, parse, stats
<1>3. CASE nonoption \/ option \/ terminator \/ stop_at_nonoption \/ end \/ returned
  BY <1>3 DEF nonoption, option, terminator, stop_at_nonoption, end, return, stats, returned, vars
<1>4. pc = "group" => call # 5
  BY DEF TypeOK
<1>5. QED
  BY <1>1, <1>2, <1>3, <1>4 DEF Next, end_of_group, drop, illegal, accept

LEMMA Given ==
  ASSUME Next
  PROVE  UNCHANGED <<usage, set, text>>
BY DEF Next, begin, nonoption, stop_at_nonoption, terminator, option, end, return, end_of_group,
       drop, illegal, accept, advance, returned, vars

(* A vector that Stats has not begun with is in the order given, and with  *)
(* a POSIX Stats one that Parser has not begun with.                       *)
AsGiven ==
    /\ \A n \in 1..2 : call < n \/ (call = n /\ pc = "call") => SortedFrom(argv[n], 1)
    /\ ~ set.stats_gnu => \A n \in 1..2 :
          call < n + 2 \/ (call = n + 2 /\ pc = "call") => SortedFrom(argv[n], 1)
    /\ ~ set.stats_gnu /\ ~ Count(call) /\ pc # "call" => SortedFrom(Args, pos - nonops)
    /\ pc # "call" /\ nonops > 0 => Gnu

LEMMA AsGivenInit == Init => AsGiven
<1> SUFFICES ASSUME Init PROVE AsGiven
  OBVIOUS
<1>1. ASSUME NEW n \in 1..2 PROVE SortedFrom(argv[n], 1)
  <2>1. argv[n] \in Seq(Nat) /\ DOMAIN argv[n] = 1..Len(argv[n])
    BY InitType, VectorIs
  <2>2. \A i \in DOMAIN argv[n] : argv[n][i] = i
    BY <2>1 DEF Init
  <2>3. QED
    BY <2>1, <2>2 DEF SortedFrom
<1>2. QED
  BY <1>1 DEF Init, AsGiven

(* A step within a call takes up to two arguments, leaves one, or ends it. *)
Moves(k) ==
    /\ argv' = [argv EXCEPT ![vec] = Moved(Args, k)] /\ pos' = pos + k
    /\ pos <= Len(Args) /\ pos + k - 1 <= Len(Args)
    /\ pc' # "call" /\ UNCHANGED <<call, nonops>>

LEMMA GroupMoves ==
  ASSUME TypeOK, pc = "group", advance(Taken(Here))
  PROVE  \E k \in 0..2 : k = Taken(Here) /\ Moves(k)
<1>1. PICK k \in 0..2 : k = Taken(Here) /\ (k = 2 => Here.next # NULL)
  BY HereIs, TakenIs
<1>2. /\ pos <= Len(Args) /\ pos \in Nat /\ Len(Args) \in Nat
      /\ Here.next # NULL => pos < Len(Args)
  BY HereIs, CurrentVector
<1>3. pos + k - 1 <= Len(Args)
  BY <1>1, <1>2
<1>4. advance(k)
  BY <1>1
<1>5. QED
  BY <1>1, <1>2, <1>3, <1>4 DEF Moves, advance, take

LEMMA OptionMoves ==
  ASSUME TypeOK, option
  PROVE  Moves(0)
<1>1. pos <= Len(Args) /\ pos \in Nat /\ Len(Args) \in Nat
  BY CurrentVector, InVector DEF option
<1>2. argv' = [argv EXCEPT ![vec] = Moved(Args, 0)]
  <2>1. argv' = argv /\ argv \in [1..2 -> Seq(Nat)] /\ vec \in 1..2
    BY CurrentVector DEF option, TypeOK
  <2>2. Moved(Args, 0) = argv[vec]
    BY DEF Moved, Args
  <2>3. QED
    BY <2>1, <2>2
<1>3. pos' = pos + 0 /\ pos + 0 - 1 <= Len(Args)
  BY <1>1 DEF option
<1>4. QED
  BY <1>1, <1>2, <1>3 DEF Moves, option

LEMMA TerminatorMoves ==
  ASSUME TypeOK, terminator
  PROVE  Moves(1)
<1>1. pos <= Len(Args) /\ pos \in Nat /\ Len(Args) \in Nat
  BY CurrentVector, InVector DEF terminator
<1>2. pos + 1 - 1 <= Len(Args)
  BY <1>1
<1>3. QED
  BY <1>1, <1>2 DEF Moves, terminator, take

LEMMA CallStep ==
  ASSUME TypeOK, pc # "call", Next
  PROVE  \/ nonoption
         \/ \E k \in 0..2 : Moves(k)
         \/ pc' = "call" /\ call' = call + 1 /\ argv' = argv
<1>1. call # 5 /\ 0 \in 0..2 /\ 1 \in 0..2
  BY DEF TypeOK
<1>2. CASE pc = "group"
  <2>1. CASE return(FALSE)
    BY <2>1 DEF return
  <2>2. CASE advance(Taken(Here))
    BY <1>2, <2>2, GroupMoves
  <2>3. QED
    BY <1>1, <1>2, <2>1, <2>2, GroupStep
<1>3. CASE option
  BY <1>1, <1>3, OptionMoves
<1>4. CASE terminator
  BY <1>1, <1>4, TerminatorMoves
<1>5. CASE nonoption \/ stop_at_nonoption \/ end
  BY <1>5 DEF stop_at_nonoption, end, return
<1>6. QED
  BY <1>1, <1>2, <1>3, <1>4, <1>5
  DEF Next, begin, add, parse, end_of_group, drop, illegal, accept, returned

(* What a move does to the two vectors.                                    *)
LEMMA MovesAre ==
  ASSUME TypeOK, pc # "call", NEW k \in 0..2, Moves(k)
  PROVE  /\ vec' = vec /\ vec \in 1..2 /\ pos \in Nat \ {0} /\ nonops \in 0..pos - 1
         /\ pos' - nonops' = pos - nonops + k
         /\ pos + k - 1 <= Len(argv[vec]) /\ Len(argv[vec]) \in Nat
         /\ Rotated(argv[vec], argv'[vec], pos, nonops, k)
         /\ \A n \in 1..2 : n # vec => argv'[n] = argv[n]
         /\ nonops = 0 => argv' = argv
<1>1. /\ vec' = vec /\ vec \in 1..2 /\ pos \in Nat \ {0} /\ nonops \in 0..pos - 1 /\ Len(Args) \in Nat
  BY CurrentVector DEF Moves, vec
<1>2. /\ argv' = [argv EXCEPT ![vec] = Moved(Args, k)] /\ argv \in [1..2 -> Seq(Nat)]
      /\ pos' = pos + k /\ nonops' = nonops /\ pos + k - 1 <= Len(Args) /\ pos <= Len(Args)
  BY DEF Moves, TypeOK
<1>3. argv'[vec] = Moved(Args, k) /\ \A n \in 1..2 : n # vec => argv'[n] = argv[n]
  BY <1>1, <1>2
<1>4. Rotated(Args, Moved(Args, k), pos, nonops, k)
  <2>1. CASE k = 0
    <3>1. Moved(Args, k) = Args /\ Args \in Seq(Nat)
      BY <2>1, CurrentVector DEF Moved
    <3> DEFINE a == Args
    <3> HIDE DEF a
    <3>2. Rotated(a, a, pos, nonops, 0)
      <4>1. a \in Seq(Nat) /\ pos \in Int /\ nonops \in Int
        BY <1>1, <3>1 DEF a
      <4>2. \A i \in Int : i - 0 = i /\ ~ (i \in pos - nonops .. pos - nonops + 0 - 1)
        BY <4>1
      <4>3. \A i \in pos - nonops + 0 .. pos + 0 - 1 : a[i] = a[i - 0]
        BY <4>1, <4>2
      <4>4. \A i \in pos - nonops .. pos - nonops + 0 - 1 : a[i] = a[i + nonops]
        BY <4>1, <4>2
      <4>5. QED
        BY <4>1, <4>3, <4>4 DEF Rotated
    <3>3. QED
      BY <2>1, <3>1, <3>2 DEF a
  <2>2. CASE k # 0
    <3>1. k \in 1..2
      BY <2>2
    <3>2. QED
      BY <1>2, <3>1, MovedRotates
  <2>3. QED
    BY <2>1, <2>2
<1>5. pos' - nonops' = pos - nonops + k
  BY <1>1, <1>2
<1>6. nonops = 0 => argv' = argv
  <2> SUFFICES ASSUME nonops = 0 PROVE argv' = argv
    OBVIOUS
  <2> DEFINE W == Moved(Args, k)
  <2> HIDE DEF W
  <2>1. Args \in Seq(Nat) /\ W \in Seq(Nat) /\ Len(W) = Len(Args)
    BY <1>4, CurrentVector DEF Rotated, W
  <2> DEFINE a == Args
  <2> HIDE DEF a
  <2>2. /\ a \in Seq(Nat) /\ W \in Seq(Nat) /\ Len(W) = Len(a) /\ Len(a) \in Nat
        /\ Rotated(a, W, pos, 0, k)
    BY <1>1, <1>4, <2>1 DEF a, W
  <2>3. ASSUME NEW i \in 1..Len(a) PROVE W[i] = a[i]
    <3>1. CASE i < pos - 0 \/ pos + k <= i
      BY <2>2, <3>1 DEF Rotated
    <3>2. CASE ~ (i < pos - 0 \/ pos + k <= i)
      <4>1. i \in pos - 0 .. pos - 0 + k - 1 /\ i + 0 = i
        BY <1>1, <2>2, <3>2
      <4>2. W[i] = a[i + 0]
        BY <2>2, <4>1 DEF Rotated
      <4>3. QED
        BY <4>1, <4>2
    <3>3. QED
      BY <3>1, <3>2
  <2>4. W = a
    BY <2>2, <2>3, SeqEqual
  <2>5. argv' = [argv EXCEPT ![vec] = argv[vec]]
    BY <1>2, <2>4 DEF a, W, Args
  <2>6. QED
    BY <1>1, <1>2, <2>5
<1>7. QED
  BY <1>1, <1>2, <1>3, <1>4, <1>5, <1>6 DEF Args

LEMMA AsGivenNext == TypeOK /\ AsGiven /\ [Next]_vars => AsGiven'
<1> SUFFICES ASSUME TypeOK, AsGiven, [Next]_vars
             PROVE  AsGiven'
  OBVIOUS
<1>0. call \in 1..5 /\ (call = 5 => pc = "call")
  BY DEF TypeOK
<1>1. CASE UNCHANGED vars
  BY <1>1 DEF AsGiven, vars, locals, Args, vec, Count, Gnu
<1>2. CASE begin
  <2>1. /\ argv' = argv /\ set' = set /\ call' = call /\ pc = "call" /\ pc' = "args"
        /\ pos' = 1 /\ nonops' = 0 /\ pos' - nonops' = 1
    <3>1. /\ argv' = argv /\ set' = set /\ call' = call /\ pc = "call" /\ pc' = "args"
          /\ pos' = 1 /\ nonops' = 0
      BY <1>2 DEF begin, add, parse
    <3>2. QED
      BY <3>1
  <2>2. ~ set.stats_gnu /\ ~ Count(call) => SortedFrom(argv[vec], 1)
    <3>1. ~ Count(call) => vec \in 1..2 /\ call = vec + 2
      BY <1>0, <1>2 DEF Count, vec, begin, add, parse
    <3>2. QED
      BY <2>1, <3>1 DEF AsGiven
  <2>3. QED
    BY <2>1, <2>2 DEF AsGiven, Args, vec, Count
<1>3. CASE nonoption
  <2>1. /\ argv' = argv /\ set' = set /\ call' = call /\ pc # "call" /\ pc' # "call" /\ Gnu
        /\ pos' = pos + 1 /\ nonops' = nonops + 1
    BY <1>3 DEF nonoption
  <2>2. pos' - nonops' = pos - nonops
    BY <2>1, CurrentVector
  <2>3. QED
    BY <2>1, <2>2 DEF AsGiven, Args, vec, Count, Gnu
<1>4. ASSUME pc # "call", NEW k \in 0..2, Moves(k), set' = set
      PROVE  AsGiven'
  <2>1. /\ vec' = vec /\ vec \in 1..2 /\ pos \in Nat \ {0} /\ nonops \in 0..pos - 1
        /\ pos' - nonops' = pos - nonops + k
        /\ pos + k - 1 <= Len(argv[vec]) /\ Len(argv[vec]) \in Nat
        /\ Rotated(argv[vec], argv'[vec], pos, nonops, k)
        /\ \A n \in 1..2 : n # vec => argv'[n] = argv[n]
        /\ nonops = 0 => argv' = argv
    BY <1>4, MovesAre
  <2>2. call' = call /\ nonops' = nonops /\ pc' # "call"
    BY <1>4 DEF Moves
  <2>3. ASSUME NEW n \in 1..2, call < n PROVE SortedFrom(argv'[n], 1)
    <3>1. n # vec
      BY <1>0, <2>3 DEF vec
    <3>2. QED
      BY <2>1, <2>3, <3>1 DEF AsGiven
  <2>4. ASSUME ~ set.stats_gnu, NEW n \in 1..2, call < n + 2 PROVE SortedFrom(argv'[n], 1)
    <3>1. SortedFrom(argv[n], 1)
      BY <2>4 DEF AsGiven
    <3>2. CASE Count(call)
      <4>1. ~ (nonops > 0)
        BY <1>4, <2>4, <3>2 DEF AsGiven, Gnu
      <4>2. nonops = 0
        BY <2>1, <4>1
      <4>3. QED
        BY <2>1, <3>1, <4>2
    <3>3. CASE ~ Count(call)
      <4>1. n # vec
        BY <1>0, <2>4, <3>3 DEF vec, Count
      <4>2. QED
        BY <2>1, <3>1, <4>1
    <3>4. QED
      BY <3>2, <3>3
  <2>5. ASSUME ~ set.stats_gnu, ~ Count(call) PROVE SortedFrom(argv'[vec], pos' - nonops')
    <3> DEFINE a == argv[vec]
               b == argv'[vec]
    <3>1. SortedFrom(a, pos - nonops)
      BY <1>4, <2>5 DEF AsGiven, Args
    <3>2. Rotated(a, b, pos, nonops, k) /\ Len(a) \in Nat /\ pos + k - 1 <= Len(a)
      BY <2>1
    <3> HIDE DEF a, b
    <3>3. SortedFrom(b, pos - nonops + k)
      BY <2>1, <3>1, <3>2, RotatedSorted
    <3>4. QED
      BY <2>1, <3>3 DEF b
  <2>6. QED
    BY <1>4, <2>1, <2>2, <2>3, <2>4, <2>5 DEF AsGiven, Args, Count, Gnu
<1>5. ASSUME pc' = "call", call' = call + 1, argv' = argv, set' = set, pc # "call"
      PROVE  AsGiven'
  <2>1. \A n \in 1..2 : call' < n \/ (call' = n /\ pc' = "call") => call < n
    BY <1>0, <1>5
  <2>2. \A n \in 1..2 : call' < n + 2 \/ (call' = n + 2 /\ pc' = "call") => call < n + 2
    BY <1>0, <1>5
  <2>3. QED
    BY <1>5, <2>1, <2>2 DEF AsGiven
<1>6. ASSUME Next PROVE set' = set
  BY <1>6, Given
<1>7. CASE Next /\ pc # "call"
  BY <1>3, <1>4, <1>5, <1>6, <1>7, CallStep
<1>8. CASE Next /\ pc = "call"
  BY <1>1, <1>2, <1>8 DEF Next, nonoption, stop_at_nonoption, terminator, option, end, end_of_group,
                          drop, illegal, accept, returned
<1>9. QED
  BY <1>7, <1>8, <1>1

LEMMA CountedInit == Init => Counted
BY DEF Init, Counted

LEMMA CountedNext ==
  TypeOK /\ Sized /\ Filled /\ Filled' /\ AsGiven /\ Counted /\ [Next]_vars => Counted'
<1> SUFFICES ASSUME TypeOK, Sized, Filled, Filled', AsGiven, Counted, [Next]_vars
             PROVE  Counted'
  OBVIOUS
<1>1. op_count \in Nat /\ op_count' \in Nat /\ call \in 1..5 /\ buffer_max \in Nat
  BY DEF Filled, TypeOK, Sized
<1>2. CASE UNCHANGED vars
  <2>1. UNCHANGED <<usage, set, text, argv, call, pc, pos, numargs, nonops, param, short, single,
                    buffer_max, op_count>>
    BY <1>2 DEF vars, locals, stats, parser
  <2>2. \A n \in 1..2, c, d \in Nat : Written(n, c, d) => Written(n, c, d)'
    BY <2>1, SameWritten
  <2>3. Here' = Here
    BY <2>1 DEF Here, NextArg, Args, vec
  <2>4. \A n \in 1..2, c \in Nat : Writing(n, c) => Writing(n, c)'
    BY <2>1, <2>3, SameDiary DEF Writing
  <2>5. \A n \in 1..2, c, d \in Nat : Following(n, c, d) => Following(n, c, d)'
    <3> SUFFICES ASSUME NEW n \in 1..2, NEW c \in Nat, NEW d \in Nat, Following(n, c, d)
                 PROVE  Following(n, c, d)'
      OBVIOUS
    <3>1. PICK V, P, e, l :
            /\ V = argv[n] /\ Closed(n, V, P, e, l) /\ Begins(P, c) /\ e.count = d
            /\ (\E g \in P : At(g, e, l)) \/ Spent(e)
      BY DEF Following
    <3>2. Closed(n, V, P, e, l)'
      BY <2>1, <3>1, SameClosed
    <3>3. Spent(e) => Spent(e)'
      BY <2>1 DEF Spent, Args, vec
    <3>4. ASSUME NEW g \in P, At(g, e, l) PROVE At(g, e, l)'
      <4>1. PICK s : s = Here
        OBVIOUS
      <4>2. Alike(g.spot, s)' = Alike(g.spot, s)
        BY <2>1 DEF Alike, Place, Starts
      <4>3. Alike(g.spot, Here) => Alike(g.spot, Here)'
        <5>1. Alike(g.spot, Here) => Alike(g.spot, s)'
          BY <4>1, <4>2
        <5>2. Here' = s
          BY <2>3, <4>1
        <5>3. QED
          BY <5>1, <5>2 DEF Alike
      <4>4. QED
        BY <2>1, <3>4, <4>3 DEF At
    <3>5. QED
      BY <2>1, <3>1, <3>2, <3>3, <3>4 DEF Following
  <2>6. QED
    BY <2>1, <2>2, <2>4, <2>5 DEF Counted, Followed
<1>3. ASSUME Next, call # 5
      PROVE  Counted'
  <2>1. UNCHANGED <<usage, set, text>>
    BY <1>3, Given
  <2>2. CASE call \in {1, 2} /\ pc = "call"
    <3>1. begin
      BY <1>3, <2>2 DEF Next, nonoption, stop_at_nonoption, terminator, option, end, end_of_group,
                        drop, illegal, accept, returned
    <3>2. call' = call /\ pc' = "args" /\ argv' = argv
      BY <3>1 DEF begin
    <3>3. CASE call = 1
      <4>1. Writing(1, 1)'
        <5>1. SortedFrom(argv[1], 1)
          BY <2>2, <3>3 DEF AsGiven
        <5>2. QED
          BY <2>2, <3>1, <3>3, <5>1, WriteBegins DEF Counted
      <4>2. QED
        BY <3>2, <3>3, <4>1 DEF Counted
    <3>4. CASE call = 2
      <4>1. PICK c \in Nat : Written(1, 1, c) /\ buffer_max = c
        BY <2>2, <3>4 DEF Counted
      <4>2. Writing(2, c)'
        <5>1. SortedFrom(argv[2], 1)
          BY <2>2, <3>4 DEF AsGiven
        <5>2. QED
          BY <3>1, <3>4, <4>1, <5>1, WriteBegins
      <4>3. Written(1, 1, c)'
        BY <2>1, <3>2, <4>1, SameWritten
      <4>4. QED
        BY <3>2, <3>4, <4>2, <4>3 DEF Counted
    <3>5. QED
      BY <2>2, <3>3, <3>4
  <2>3. CASE call = 1 /\ pc # "call"
    <3>1. Writing(1, 1)
      BY <2>3 DEF Counted
    <3>2. CASE Writing(1, 1)' /\ pc' # "call" /\ call' = call
      BY <2>3, <3>2 DEF Counted
    <3>3. CASE /\ Written(1, 1, buffer_max) /\ pc' = "call" /\ call' = call + 1
               /\ argv' = argv /\ buffer_max' = buffer_max
      <4>1. PICK c \in Nat : c = buffer_max
        BY <1>1
      <4>2. Written(1, 1, c)'
        BY <2>1, <3>3, <4>1, SameWritten
      <4>3. QED
        BY <2>3, <3>3, <4>1, <4>2 DEF Counted
    <3>4. QED
      BY <1>3, <2>3, <3>1, <3>2, <3>3, StatsStep
  <2>4. CASE call = 2 /\ pc # "call"
    <3>1. PICK c \in Nat : Written(1, 1, c) /\ Writing(2, c)
      BY <2>4 DEF Counted
    <3>2. Written(1, 1, c)'
      <4>1. argv'[1] = argv[1]
        BY <1>3, <2>4, OtherVector DEF vec
      <4>2. QED
        BY <2>1, <3>1, <4>1, SameWritten
    <3>3. CASE Writing(2, c)' /\ pc' # "call" /\ call' = call
      BY <2>4, <3>2, <3>3 DEF Counted
    <3>4. CASE /\ Written(2, c, buffer_max) /\ pc' = "call" /\ call' = call + 1
               /\ argv' = argv /\ buffer_max' = buffer_max
      <4>1. PICK d \in Nat : d = buffer_max
        BY <1>1
      <4>2. Written(2, c, d)'
        BY <2>1, <3>4, <4>1, SameWritten
      <4>3. QED
        BY <2>4, <3>2, <3>4, <4>1, <4>2 DEF Counted
    <3>5. QED
      BY <1>3, <2>4, <3>1, <3>3, <3>4, StatsStep
  <2>5. CASE call \in {3, 4} /\ ~ Followed
    <3>1. call' \in {call, call + 1}
      BY <1>3, <2>5 DEF Next, begin, nonoption, stop_at_nonoption, terminator, option, end, return,
                        end_of_group, drop, illegal, accept, advance, returned
    <3>2. set' = set /\ call' \in 3..5
      BY <2>1, <2>5, <3>1
    <3>3. QED
      BY <2>5, <3>2 DEF Counted, Followed
  <2>6. CASE call \in {3, 4} /\ pc = "call" /\ Followed
    <3>1. begin /\ parse
      BY <1>3, <2>6 DEF Next, nonoption, stop_at_nonoption, terminator, option, end, end_of_group,
                        drop, illegal, accept, returned, begin, add, Count
    <3>2. call' = call /\ pc' = "args" /\ argv' = argv /\ buffer_max' = buffer_max
      BY <3>1 DEF begin, parse, stats
    <3>3. CASE call = 3
      <4>1. PICK c \in Nat, d \in Nat : buffer_max = d /\ Written(2, c, d) /\ Written(1, 1, c)
        BY <2>6, <3>3 DEF Counted
      <4>2. op_count' + 1 <= 1
        <5> DEFINE m == [p \in Allocated |-> Option(p)]
        <5>1. op_count' = FirstEmpty(m)
          BY <3>1, <3>3 DEF parse
        <5>2. \A k \in 0..Room - 1 : buf(k) \in Allocated
          BY DEF Allocated
        <5>3. \A k \in 0..Room - 1 : ~ valid(m, buf(k))
          BY <5>2 DEF valid, Option, init
        <5> HIDE DEF m
        <5>4. Room \in Nat /\ InUse(m, 0)
          BY <5>3, RoomIs DEF InUse
        <5>5. FirstEmpty(m) = 0
          BY <5>4, FirstEmptyIs
        <5>6. QED
          BY <5>1, <5>5
      <4>3. Following(1, 1, c)'
        BY <3>1, <4>1, <4>2, FollowBegins
      <4>4. Written(2, c, d)'
        BY <2>1, <3>2, <4>1, SameWritten
      <4>5. QED
        BY <2>1, <3>2, <3>3, <4>1, <4>3, <4>4 DEF Counted
    <3>4. CASE call = 4
      <4>1. PICK c \in Nat, d \in Nat : buffer_max = d /\ op_count + 1 <= c /\ Written(2, c, d)
        BY <2>6, <3>4 DEF Counted
      <4>2. op_count' + 1 <= c
        <5>1. Room \in Nat /\ op_count <= Room /\ InUse(mem, op_count)
          BY <3>4, RoomIs DEF Filled
        <5>2. op_count' = FirstEmpty(mem)
          BY <3>1, <3>4 DEF parse
        <5>3. op_count' = op_count
          BY <1>1, <5>1, <5>2, FirstEmptyIs
        <5>4. QED
          BY <4>1, <5>3
      <4>3. Following(2, c, d)'
        BY <3>1, <4>1, <4>2, FollowBegins
      <4>4. QED
        BY <2>1, <3>2, <3>4, <4>1, <4>3 DEF Counted
    <3>5. QED
      BY <2>6, <3>3, <3>4
  <2>7. CASE call = 3 /\ pc # "call" /\ Followed
    <3>1. PICK c \in Nat, d \in Nat : buffer_max = d /\ Written(2, c, d) /\ Following(1, 1, c)
      BY <2>7 DEF Counted
    <3>2. buffer_max' = buffer_max
      BY <1>3, <2>7, KeptByParser DEF Count
    <3>3. Written(2, c, d)'
      <4>1. argv'[2] = argv[2]
        BY <1>3, <2>7, OtherVector DEF vec
      <4>2. QED
        BY <2>1, <3>1, <4>1, SameWritten
    <3>4. CASE Following(1, 1, c)' /\ pc' # "call" /\ call' = call
      BY <2>1, <2>7, <3>1, <3>2, <3>3, <3>4 DEF Counted
    <3>5. CASE op_count + 1 <= c /\ pc' = "call" /\ call' = call + 1 /\ op_count' = op_count
      BY <2>1, <2>7, <3>1, <3>2, <3>3, <3>5 DEF Counted
    <3>6. QED
      BY <1>1, <1>3, <2>7, <3>1, <3>4, <3>5, ParserStep
  <2>8. CASE call = 4 /\ pc # "call" /\ Followed
    <3>1. PICK c \in Nat, d \in Nat : buffer_max = d /\ Following(2, c, d)
      BY <2>8 DEF Counted
    <3>2. buffer_max' = buffer_max
      BY <1>3, <2>8, KeptByParser DEF Count
    <3>3. CASE Following(2, c, d)' /\ pc' # "call" /\ call' = call
      BY <2>1, <2>8, <3>1, <3>2, <3>3 DEF Counted
    <3>4. CASE op_count + 1 <= d /\ pc' = "call" /\ call' = call + 1 /\ op_count' = op_count
      BY <2>1, <2>8, <3>1, <3>2, <3>4 DEF Counted
    <3>5. QED
      BY <1>1, <1>3, <2>8, <3>1, <3>3, <3>4, ParserStep
  <2>9. QED
    BY <1>1, <1>3, <2>2, <2>3, <2>4, <2>5, <2>6, <2>7, <2>8
<1>4. CASE Next /\ call = 5
  <2>1. pc = "call"
    BY <1>4 DEF TypeOK
  <2>2. UNCHANGED vars
    BY <1>4, <2>1 DEF Next, begin, add, parse, Count, nonoption, stop_at_nonoption, terminator, option,
                      end, end_of_group, drop, illegal, accept, returned
  <2>3. QED
    BY <1>2, <2>2
<1>5. QED
  BY <1>2, <1>3, <1>4

(* The sizes that Stats gives, or the bufmax of the caller, are enough for *)
(* the arrays, whatever the vectors hold and however they are reordered    *)
(* (Stats, StoreOptionAction::perform() and Parser::parse()).              *)
THEOREM StatsSuffices == Spec => []BufferSuffices
<1> DEFINE IInv == Sized /\ Filled /\ AsGiven /\ Counted
<1>1. Init => IInv
  BY SizedInit, FilledInit, AsGivenInit, CountedInit
<1>2. TypeOK /\ TypeOK' /\ IInv /\ [Next]_vars => IInv'
  BY SizedNext, FilledNext, AsGivenNext, CountedNext
<1>3. TypeOK /\ IInv => BufferSuffices
  <2> SUFFICES ASSUME TypeOK, IInv, call >= 3, mem # << >>
               PROVE  /\ op_count <= Room
                      /\ set.bufmax < 0 => op_count < Room
                      /\ \A i \in Indices : opt(i) \in DOMAIN mem
                      /\ \A k \in 0..Room - 1 : valid(mem, buf(k)) <=> k < op_count
    BY DEF BufferSuffices
  <2>1. ~ (call <= 2 \/ (call = 3 /\ pc = "call")) /\ call \in 1..5
    BY DEF Filled, TypeOK
  <2>2. op_count \in Nat /\ IsMemory(mem, Allocated) /\ op_count <= Room /\ InUse(mem, op_count)
    BY <2>1 DEF Filled
  <2>3. set.bufmax < 0 => op_count < Room
    BY <2>1, <2>2, RoomLeft
  <2>4. DOMAIN mem = Allocated
    BY <2>2 DEF IsMemory
  <2>5. ASSUME NEW i \in Indices PROVE opt(i) \in Allocated
    <3>1. i \in 0..options_max - 1
      BY <2>1 DEF Sized
    <3>2. QED
      BY <3>1 DEF Allocated
  <2>6. QED
    BY <2>2, <2>3, <2>4, <2>5 DEF InUse
<1> HIDE DEF IInv
<1>4. QED
  BY <1>1, <1>2, <1>3, Inductive, PTL DEF Spec

-----------------------------------------------------------------------------
(***************************************************************************)
(* The order of a vector.                                                  *)
(***************************************************************************)

(* The arguments of a vector that are no options, and those that are "--". *)
NonOptions(n) == {a \in DOMAIN text[n] : IsNonOption(text[n][a])}
Terminators(n) == {a \in DOMAIN text[n] : IsTerminator(text[n][a])}

(* Only what is no option stands behind an argument that was given after   *)
(* it.                                                                     *)
Ahead(V, S) == \A i, j \in 1..Len(V) : i < j => V[i] < V[j] \/ V[j] \in S

Distinct(V) == \A i, j \in 1..Len(V) : V[i] = V[j] => i = j

(* The arguments at positions i to j are of set S.                         *)
Between(V, i, j, S) == \A k \in i..j : V[k] \in S

(* The arguments at positions i to j.                                      *)
Stretch(V, i, j) == {V[k] : k \in i..j}

(* The rotations keep what stands before what.                             *)
LEMMA RotatedAhead ==
  ASSUME NEW V, NEW W, NEW S, NEW p \in Nat \ {0}, NEW k \in 0..p - 1, NEW n \in Nat, Len(V) \in Nat,
         p + n - 1 <= Len(V), Rotated(V, W, p, k, n), Between(V, p - k, p - 1, S), Ahead(V, S), Distinct(V)
  PROVE  /\ Ahead(W, S)
         /\ Distinct(W)
         /\ Between(W, p - k + n, p + n - 1, S)
         /\ \A a : a \in Stretch(W, 1, p - k + n - 1)
                   <=> a \in Stretch(V, 1, p - k - 1) \/ a \in Stretch(V, p, p + n - 1)
<1> DEFINE f(i) == IF p - k <= i /\ i < p - k + n THEN i + k
                   ELSE IF p - k + n <= i /\ i <= p + n - 1 THEN i - n ELSE i
<1>1. Len(W) = Len(V)
  BY DEF Rotated
<1>2. ASSUME NEW i \in 1..Len(V)
      PROVE  f(i) \in 1..Len(V) /\ W[i] = V[f(i)]
  <2>1. CASE p - k <= i /\ i < p - k + n
    <3>1. i \in p - k .. p - k + n - 1 /\ f(i) = i + k /\ f(i) \in 1..Len(V)
      BY <2>1
    <3>2. QED
      BY <3>1 DEF Rotated
  <2>2. CASE p - k + n <= i /\ i <= p + n - 1
    <3>1. i \in p - k + n .. p + n - 1 /\ f(i) = i - n /\ f(i) \in 1..Len(V)
      BY <2>2
    <3>2. QED
      BY <3>1 DEF Rotated
  <2>3. CASE i < p - k \/ p + n <= i
    <3>1. f(i) = i
      BY <2>3
    <3>2. QED
      BY <2>3, <3>1 DEF Rotated
  <2>4. QED
    BY <2>1, <2>2, <2>3
<1>3. ASSUME NEW i \in 1..Len(V), NEW j \in 1..Len(V), i < j
      PROVE  f(i) < f(j) \/ f(j) \in p - k .. p - 1
  BY <1>3
<1>4. ASSUME NEW i \in 1..Len(V), NEW j \in 1..Len(V), f(i) = f(j)
      PROVE  i = j
  BY <1>4
<1>5. ASSUME NEW i \in p - k + n .. p + n - 1
      PROVE  W[i] \in S
  <2>1. i - n \in p - k .. p - 1
    OBVIOUS
  <2>2. W[i] = V[i - n]
    BY DEF Rotated
  <2>3. QED
    BY <2>1, <2>2 DEF Between
<1>6. Stretch(W, 1, p - k + n - 1) = Stretch(V, 1, p - k - 1) \cup Stretch(V, p, p + n - 1)
  <2>1. ASSUME NEW i \in 1..p - k + n - 1
        PROVE  i \in 1..Len(V) /\ (f(i) \in 1..p - k - 1 \/ f(i) \in p .. p + n - 1)
    OBVIOUS
  <2>2. ASSUME NEW j \in 1..p - k - 1
        PROVE  j \in 1..p - k + n - 1 /\ j \in 1..Len(V) /\ f(j) = j
    OBVIOUS
  <2>3. ASSUME NEW j \in p .. p + n - 1
        PROVE  j - k \in 1..p - k + n - 1 /\ j - k \in 1..Len(V) /\ f(j - k) = j
    OBVIOUS
  <2> HIDE DEF f
  <2>4. Stretch(W, 1, p - k + n - 1) \subseteq Stretch(V, 1, p - k - 1) \cup Stretch(V, p, p + n - 1)
    BY <1>2, <2>1 DEF Stretch
  <2>5. ASSUME NEW j \in 1..p - k - 1 PROVE V[j] \in Stretch(W, 1, p - k + n - 1)
    <3>1. W[j] = V[j] /\ j \in 1..p - k + n - 1
      BY <1>2, <2>2
    <3>2. QED
      BY <3>1 DEF Stretch
  <2>6. ASSUME NEW j \in p .. p + n - 1 PROVE V[j] \in Stretch(W, 1, p - k + n - 1)
    <3> DEFINE i == j - k
    <3>1. i \in 1..p - k + n - 1 /\ i \in 1..Len(V) /\ f(i) = j
      BY <2>3
    <3> HIDE DEF i
    <3>2. W[i] = V[j]
      BY <1>2, <3>1
    <3>3. QED
      BY <3>1, <3>2 DEF Stretch
  <2>7. QED
    BY <2>4, <2>5, <2>6 DEF Stretch
<1> HIDE DEF f
<1>7. Ahead(W, S)
  BY <1>1, <1>2, <1>3 DEF Ahead, Between
<1>8. Distinct(W)
  <2> SUFFICES ASSUME NEW i \in 1..Len(V), NEW j \in 1..Len(V), W[i] = W[j]
               PROVE  i = j
    BY <1>1 DEF Distinct
  <2>1. f(i) \in 1..Len(V) /\ f(j) \in 1..Len(V) /\ V[f(i)] = V[f(j)]
    BY <1>2
  <2>2. f(i) = f(j)
    BY <2>1 DEF Distinct
  <2>3. QED
    BY <1>4, <2>2
<1>9. QED
  BY <1>5, <1>6, <1>7, <1>8 DEF Between

(* The vector on which a call is, up to where the next argument goes.      *)
HeadArgs == Stretch(Args, 1, pos - nonops - 1)

(* What has not been taken but passed over is no option, and what is in    *)
(* front of its place was given before it.                                 *)
InPlace ==
    /\ \A n \in 1..2 : Ahead(argv[n], NonOptions(n)) /\ Distinct(argv[n])
    /\ pc # "call" => Between(Args, pos - nonops, pos - 1, NonOptions(vec))
    /\ pc = "group" => /\ ~ IsNonOption(Param) /\ ~ IsTerminator(Param)
                       /\ ~ short \/ single => param = 1

LEMMA InPlaceInit == Init => InPlace
<1> SUFFICES ASSUME Init PROVE InPlace
  OBVIOUS
<1>1. ASSUME NEW n \in 1..2 PROVE Ahead(argv[n], NonOptions(n)) /\ Distinct(argv[n])
  <2>1. DOMAIN argv[n] = 1..Len(argv[n]) /\ Len(argv[n]) \in Nat
    BY InitType, VectorIs
  <2>2. \A i \in 1..Len(argv[n]) : argv[n][i] = i
    BY <2>1 DEF Init
  <2>3. QED
    BY <2>1, <2>2 DEF Ahead, Distinct
<1>2. QED
  BY <1>1 DEF Init, InPlace

LEMMA MovesInPlace ==
  ASSUME TypeOK, InPlace, pc # "call", NEW k \in 0..2, Moves(k), text' = text
  PROVE  /\ \A n \in 1..2 : Ahead(argv'[n], NonOptions(n)) /\ Distinct(argv'[n])
         /\ Between(Args', pos' - nonops', pos' - 1, NonOptions(vec))
         /\ \A a : a \in HeadArgs' <=> a \in HeadArgs \/ a \in Stretch(Args, pos, pos + k - 1)
<1> DEFINE V == argv[vec]
           W == argv'[vec]
           S == NonOptions(vec)
<1>1. /\ vec' = vec /\ vec \in 1..2 /\ pos \in Nat \ {0} /\ nonops \in 0..pos - 1
      /\ pos' - nonops' = pos - nonops + k
      /\ pos + k - 1 <= Len(V) /\ Len(V) \in Nat
      /\ Rotated(V, W, pos, nonops, k)
      /\ \A n \in 1..2 : n # vec => argv'[n] = argv[n]
  BY MovesAre
<1>2. Between(V, pos - nonops, pos - 1, S)
  BY DEF InPlace, Args
<1>3. Ahead(V, S) /\ Distinct(V)
  BY <1>1 DEF InPlace
<1>4. Args = V /\ Args' = W
  BY <1>1 DEF Args
<1>5. pos' - nonops' - 1 = pos - nonops + k - 1 /\ pos' - 1 = pos + k - 1 /\ k \in Nat
  BY <1>1 DEF Moves
<1> HIDE DEF V, W, S
<1>6. /\ Ahead(W, S) /\ Distinct(W)
      /\ Between(W, pos - nonops + k, pos + k - 1, S)
      /\ \A a : a \in Stretch(W, 1, pos - nonops + k - 1)
                <=> a \in Stretch(V, 1, pos - nonops - 1) \/ a \in Stretch(V, pos, pos + k - 1)
  <2>1. /\ pos \in Nat \ {0} /\ nonops \in 0..pos - 1 /\ k \in Nat /\ Len(V) \in Nat
        /\ pos + k - 1 <= Len(V) /\ Rotated(V, W, pos, nonops, k)
        /\ Between(V, pos - nonops, pos - 1, S) /\ Ahead(V, S) /\ Distinct(V)
    BY <1>1, <1>2, <1>3, <1>5
  <2>2. /\ Ahead(W, S)
        /\ Distinct(W)
        /\ Between(W, pos - nonops + k, pos + k - 1, S)
        /\ \A a : a \in Stretch(W, 1, pos - nonops + k - 1)
                  <=> a \in Stretch(V, 1, pos - nonops - 1) \/ a \in Stretch(V, pos, pos + k - 1)
    <3>1. PICK A, B, R, p, l : A = V /\ B = W /\ R = S /\ p = pos /\ l = nonops
      OBVIOUS
    <3>2. /\ p \in Nat \ {0} /\ l \in 0..p - 1 /\ k \in Nat /\ Len(A) \in Nat
          /\ p + k - 1 <= Len(A) /\ Rotated(A, B, p, l, k)
          /\ Between(A, p - l, p - 1, R) /\ Ahead(A, R) /\ Distinct(A)
      BY <2>1, <3>1
    <3>3. /\ Ahead(B, R)
          /\ Distinct(B)
          /\ Between(B, p - l + k, p + k - 1, R)
          /\ \A a : a \in Stretch(B, 1, p - l + k - 1)
                    <=> a \in Stretch(A, 1, p - l - 1) \/ a \in Stretch(A, p, p + k - 1)
      BY <3>2, RotatedAhead
    <3>4. QED
      BY <3>1, <3>3
  <2>3. QED
    BY <2>2
<1>7. \A n \in 1..2 : Ahead(argv'[n], NonOptions(n)) /\ Distinct(argv'[n])
  BY <1>1, <1>6 DEF InPlace, W, S
<1>8. \A a : a \in HeadArgs' <=> a \in HeadArgs \/ a \in Stretch(Args, pos, pos + k - 1)
  <2>1. HeadArgs' = Stretch(W, 1, pos - nonops + k - 1)
    BY <1>4, <1>5 DEF HeadArgs, Stretch
  <2>2. QED
    BY <1>4, <1>6, <2>1 DEF HeadArgs
<1>9. QED
  BY <1>1, <1>4, <1>5, <1>6, <1>7, <1>8 DEF S

LEMMA InPlaceNext == TypeOK /\ InPlace /\ [Next]_vars => InPlace'
<1> SUFFICES ASSUME TypeOK, InPlace, [Next]_vars
             PROVE  InPlace'
  OBVIOUS
<1>1. CASE UNCHANGED vars
  BY <1>1 DEF InPlace, NonOptions, vars, locals, Args, vec, Param
<1>2. ASSUME Next
      PROVE  UNCHANGED <<usage, set, text>> /\ \A n \in 1..2 : NonOptions(n)' = NonOptions(n)
  BY <1>2, Given DEF NonOptions
<1>3. CASE begin
  <2>1. argv' = argv /\ pc' = "args" /\ pos' = 1 /\ nonops' = 0
    BY <1>3 DEF begin
  <2>2. Between(Args, pos - nonops, pos - 1, NonOptions(vec))'
    BY <2>1 DEF Between
  <2>3. Next
    BY <1>3 DEF Next
  <2>4. QED
    BY <1>2, <2>1, <2>2, <2>3 DEF InPlace
<1>4. CASE nonoption
  <2>1. /\ argv' = argv /\ pc = "args" /\ pc' = "args" /\ pos' = pos + 1 /\ nonops' = nonops + 1
        /\ vec' = vec /\ Args' = Args /\ IsNonOption(Param) /\ pos <= Len(Args)
    BY <1>4, InVector DEF nonoption, vec, Args
  <2>2. /\ pos \in Nat /\ nonops \in Nat /\ vec \in 1..2 /\ pos \in 1..Len(Args) /\ Len(Args) \in Nat
        /\ Args[pos] \in DOMAIN text[vec]
    <3>1. pos \in Nat /\ nonops \in Nat /\ vec \in 1..2 /\ pos \in 1..Len(Args) /\ Len(Args) \in Nat
      BY <2>1, CurrentVector
    <3>2. QED
      BY <3>1, VectorIs DEF Args
  <2>3. Args[pos] \in NonOptions(vec)
    BY <2>1, <2>2 DEF NonOptions, Param
  <2>4. ASSUME NEW i \in pos' - nonops' .. pos' - 1 PROVE Args[i] \in NonOptions(vec)
    <3>1. i = pos \/ i \in pos - nonops .. pos - 1
      BY <2>1, <2>2
    <3>2. QED
      BY <2>1, <2>3, <3>1 DEF InPlace, Between
  <2>5. Next
    BY <1>4 DEF Next
  <2>6. QED
    BY <1>2, <2>1, <2>2, <2>4, <2>5 DEF InPlace, Between
<1>5. ASSUME Next, pc # "call", NEW k \in 0..2, Moves(k)
      PROVE  InPlace'
  <2>1. /\ UNCHANGED <<usage, set, text>> /\ \A n \in 1..2 : NonOptions(n)' = NonOptions(n)
        /\ vec' = vec /\ vec \in 1..2
    BY <1>2, <1>5, CurrentVector DEF Moves, vec
  <2>2. /\ \A n \in 1..2 : Ahead(argv'[n], NonOptions(n)) /\ Distinct(argv'[n])
        /\ Between(Args', pos' - nonops', pos' - 1, NonOptions(vec))
    BY <1>5, <2>1, MovesInPlace
  <2>3. pc' = "group" => /\ ~ IsNonOption(Param') /\ ~ IsTerminator(Param')
                         /\ (~ short' \/ single' => param' = 1)
    <3>1. CASE option
      <4>1. Param' = Param
        BY <2>1, <3>1 DEF option, Param, Args
      <4>2. QED
        BY <3>1, <4>1 DEF option
    <3>2. CASE pc = "group"
      <4> SUFFICES ASSUME pc' = "group"
                   PROVE  /\ ~ IsNonOption(Param') /\ ~ IsTerminator(Param')
                          /\ (~ short' \/ single' => param' = 1)
        OBVIOUS
      <4>1. call # 5 /\ advance(Taken(Here))
        <5>1. call # 5
          BY <3>2 DEF TypeOK
        <5>2. ~ return(FALSE)
          BY <1>5 DEF return, Moves
        <5>3. QED
          BY <1>5, <3>2, <5>1, <5>2, GroupStep
      <4>2. Taken(Here) = 0 /\ short' = TRUE /\ single' = FALSE
        BY <4>1 DEF advance
      <4>3. Args'[pos'] = Args[pos]
        <5>1. Here'.arg = Args[pos] /\ Here'.arg = Args'[pos']
          BY <3>2, <4>1, <4>2, HereOn DEF Here
        <5>2. QED
          BY <5>1
      <4>4. Param' = Param
        BY <2>1, <4>3 DEF Param
      <4>5. QED
        BY <3>2, <4>2, <4>4 DEF InPlace
    <3>3. CASE terminator \/ nonoption
      BY <3>3 DEF terminator, nonoption
    <3>4. QED
      BY <1>5, <3>1, <3>2, <3>3
      DEF Next, begin, add, parse, end, stop_at_nonoption, return, end_of_group, drop, illegal, accept,
          returned, Moves, TypeOK
  <2>4. QED
    BY <2>1, <2>2, <2>3 DEF InPlace
<1>6. ASSUME Next, pc' = "call", argv' = argv
      PROVE  InPlace'
  BY <1>2, <1>6 DEF InPlace
<1>7. CASE Next /\ pc # "call"
  BY <1>4, <1>5, <1>6, <1>7, CallStep
<1>8. CASE Next /\ pc = "call"
  BY <1>1, <1>3, <1>8 DEF Next, nonoption, stop_at_nonoption, terminator, option, end, end_of_group,
                          drop, illegal, accept, returned
<1>9. QED
  BY <1>1, <1>7, <1>8

-----------------------------------------------------------------------------
(***************************************************************************)
(* What a turn finds, and where.                                           *)
(***************************************************************************)

(* The name starts where the turn does; the argument is the next one or    *)
(* is inside the same.                                                     *)
LEMMA TurnFinds ==
  ASSUME TypeOK, NEW p \in Place, Len(Word(p)) \in Nat
  PROVE  /\ IsLong(p) => Turn(p).name = <<p.vec, p.arg, p.param>>
         /\ ~ IsLong(p) => Turn(p).name = <<p.vec, p.arg, p.param + 1>>
         /\ \/ Turn(p).arg = p.next
            \/ \E off \in Nat : off > 1 /\ Turn(p).arg = <<p.vec, p.arg, off>>
<1> DEFINE t == IF IsLong(p) THEN LongTurn(p) ELSE ShortTurn(p)
<1>1. Turn(p).name = t.name /\ Turn(p).arg = t.arg
  <2>1. t = [idx |-> t.idx, short |-> t.short, at |-> t.at, name |-> t.name, arg |-> t.arg]
    BY DEF LongTurn, ShortTurn
  <2>2. Turn(p) = [t EXCEPT !.idx = IF @ = Sentinel THEN Dummy ELSE @]
    BY DEF Turn
  <2> HIDE DEF t
  <2>3. QED
    BY <2>1, <2>2
<1>2. CASE IsLong(p)
  <2> DEFINE from == IF Word(p)[2] = "-" THEN 3 ELSE 2
             eq   == {i \in from..Len(Word(p)) : Word(p)[i] = "="}
  <2>1. t.name = <<p.vec, p.arg, p.param>>
        /\ t.arg = IF eq # {} THEN <<p.vec, p.arg, Least(eq) + 1>> ELSE p.next
    BY <1>2 DEF LongTurn, Pointer
  <2>2. eq \in SUBSET Nat /\ \A i \in eq : i > 1
    OBVIOUS
  <2> HIDE DEF t, eq
  <2>3. eq # {} => Least(eq) + 1 \in Nat /\ Least(eq) + 1 > 1
    <3> SUFFICES ASSUME eq # {} PROVE Least(eq) + 1 \in Nat /\ Least(eq) + 1 > 1
      OBVIOUS
    <3>1. Least(eq) \in eq
      BY <2>2, LeastIs
    <3>2. Least(eq) \in Nat /\ Least(eq) > 1
      BY <2>2, <3>1
    <3>3. QED
      BY <3>2
  <2>4. t.arg = p.next \/ \E off \in Nat : off > 1 /\ t.arg = <<p.vec, p.arg, off>>
    BY <2>1, <2>3
  <2>5. QED
    BY <1>1, <1>2, <2>1, <2>4
<1>3. CASE ~ IsLong(p)
  <2>1. /\ t.name = <<p.vec, p.arg, p.param + 1>>
        /\ t.arg = IF p.param + 1 = Len(Word(p)) THEN p.next ELSE <<p.vec, p.arg, p.param + 2>>
    BY <1>3 DEF ShortTurn, Pointer
  <2>2. p.param + 2 \in Nat /\ p.param + 2 > 1
    BY DEF Place
  <2> HIDE DEF t
  <2>3. t.arg = p.next \/ \E off \in Nat : off > 1 /\ t.arg = <<p.vec, p.arg, off>>
    BY <2>1, <2>2
  <2>4. QED
    BY <1>1, <1>3, <2>1, <2>3
<1>4. QED
  BY <1>2, <1>3

(* An option has its name in the argument that is read, at the start or    *)
(* behind all that has been read of it, and its argument there too or in   *)
(* the next one, which is then taken.                                      *)
LEMMA FoundIs ==
  ASSUME TypeOK, InPlace, pc = "group", Stores(Here), NEW o, Found(o)
  PROVE  /\ \E off \in Nat : /\ o.name = <<vec, Args[pos], off>>
                             /\ off = param + 1 \/ (off = 1 /\ param = 1 /\ Taken(Here) # 0)
         /\ \/ o.arg = NULL /\ Taken(Here) # 2
            \/ /\ \E off \in Nat : off > 1 /\ o.arg = <<vec, Args[pos], off>>
               /\ Taken(Here) # 2
            \/ o.arg = <<vec, Args[pos + 1], 1>> /\ pos < Len(Args) /\ Taken(Here) = 2
<1>1. /\ Here \in Place /\ Here.vec = vec /\ Here.arg = Args[pos] /\ Here.param = param
      /\ Here.short = short /\ Here.single = single /\ Here.next = NextArg
      /\ Word(Here) = Param /\ pos <= Len(Args) /\ (NextArg # NULL <=> pos < Len(Args))
  BY HereIs
<1>2. Len(Word(Here)) \in Nat /\ param \in Nat \ {0}
  <2>1. Len(Param) \in Nat
    BY <1>1, CurrentVector
  <2>2. param \in 1..Len(Param)
    BY DEF TypeOK
  <2>3. QED
    BY <1>1, <2>1, <2>2
<1>3. /\ IsLong(Here) => Turn(Here).name = <<vec, Args[pos], param>>
      /\ ~ IsLong(Here) => Turn(Here).name = <<vec, Args[pos], param + 1>>
      /\ \/ Turn(Here).arg = NextArg
         \/ \E off \in Nat : off > 1 /\ Turn(Here).arg = <<vec, Args[pos], off>>
  BY <1>1, <1>2, TurnFinds
<1>4. IsLong(Here) => param = 1 /\ Taken(Here) # 0
  <2>1. IsLong(Here) => param = 1
    BY <1>1 DEF IsLong, InPlace
  <2>2. IsLong(Here) => Taken(Here) # 0
    BY <1>1, TurnIs, TakenIs
  <2>3. QED
    BY <2>1, <2>2
<1>5. \E off \in Nat : /\ o.name = <<vec, Args[pos], off>>
                       /\ off = param + 1 \/ (off = 1 /\ param = 1 /\ Taken(Here) # 0)
  <2>1. o.name = Turn(Here).name /\ param + 1 \in Nat /\ 1 \in Nat
    BY <1>2 DEF Found
  <2>2. CASE IsLong(Here)
    BY <1>3, <1>4, <2>1, <2>2
  <2>3. CASE ~ IsLong(Here)
    BY <1>3, <2>1, <2>3
  <2>4. QED
    BY <2>2, <2>3
<1>6. Taken(Here) = 2 <=> Detached(Here)
  BY DEF Taken, Stores
<1>7. Detached(Here) <=> Status(Here) = "ARG_OK" /\ Turn(Here).arg # NULL /\ Turn(Here).arg = NextArg
  BY <1>1 DEF Detached
<1>8. NextArg # NULL => NextArg = <<vec, Args[pos + 1], 1>>
  BY DEF NextArg
<1>9. CASE Status(Here) # "ARG_OK"
  <2>1. o.arg = NULL /\ ~ Detached(Here)
    BY <1>7, <1>9 DEF Found
  <2>2. QED
    BY <1>5, <1>6, <2>1
<1>10. CASE Status(Here) = "ARG_OK" /\ Turn(Here).arg = NextArg
  <2>1. o.arg = NextArg
    BY <1>10 DEF Found
  <2>2. CASE NextArg = NULL
    BY <1>5, <1>6, <1>7, <1>10, <2>1, <2>2
  <2>3. CASE NextArg # NULL
    BY <1>1, <1>5, <1>6, <1>7, <1>8, <1>10, <2>1, <2>3
  <2>4. QED
    BY <2>2, <2>3
<1>11. ASSUME Status(Here) = "ARG_OK", NEW off \in Nat, off > 1, Turn(Here).arg = <<vec, Args[pos], off>>
       PROVE  o.arg = <<vec, Args[pos], off>> /\ Taken(Here) # 2
  <2>1. o.arg = <<vec, Args[pos], off>>
    BY <1>11 DEF Found
  <2>2. <<vec, Args[pos], off>>[3] = off /\ off # 1
    BY <1>11
  <2>3. <<vec, Args[pos + 1], 1>>[3] = 1
    OBVIOUS
  <2>4. ~ Detached(Here)
    BY <1>7, <1>8, <1>11, <2>2, <2>3
  <2>5. QED
    BY <1>6, <2>1, <2>4
<1>12. QED
  BY <1>3, <1>5, <1>9, <1>10, <1>11

-----------------------------------------------------------------------------
(***************************************************************************)
(* How far parse() has come.                                               *)
(***************************************************************************)

(* An option at this offset of this argument has been found.               *)
BeenAt(n, a, off) ==
    \/ n + 2 < call
    \/ /\ n + 2 = call /\ pc # "call"
       /\ a \in HeadArgs \/ (pc = "group" /\ a = Args[pos] /\ off \in 2..param)

(* This argument has been taken.                                           *)
TakenIn(n, a) == n + 2 < call \/ (n + 2 = call /\ pc # "call" /\ a \in HeadArgs)

(* After a turn that takes nothing the group goes on.                      *)
LEMMA GroupGoesOn ==
  ASSUME TypeOK, pc = "group", advance(Taken(Here)), Taken(Here) = 0
  PROVE  /\ pc' = "group" /\ param' = param + 1 /\ vec' = vec /\ Args'[pos'] = Args[pos]
         /\ short' = TRUE /\ single' = FALSE
<1>1. advance(0)
  OBVIOUS
<1>2. Turn(Here).at = param + 1
      /\ Here' = [vec |-> vec, arg |-> Args[pos], param |-> param + 1, short |-> TRUE,
                  single |-> FALSE, next |-> NextArg]
  BY <1>1, HereOn
<1>3. Here'.arg = Args[pos] /\ Here'.arg = Args'[pos']
  BY <1>2 DEF Here
<1>4. QED
  BY <1>1, <1>2, <1>3 DEF advance, vec

(* What a step in a call does to what has been taken.                      *)
LEMMA HeadGrows ==
  ASSUME TypeOK, InPlace, Next, pc # "call", pc' # "call"
  PROVE  /\ call' = call /\ vec' = vec
         /\ HeadArgs \subseteq HeadArgs'
         /\ pc = "group" => \/ Taken(Here) # 0 /\ pc' = "args" /\ Args[pos] \in HeadArgs'
                            \/ /\ Taken(Here) = 0 /\ pc' = "group" /\ param' = param + 1
                               /\ Args'[pos'] = Args[pos]
<1>1. text' = text /\ call # 5
  BY Given DEF TypeOK
<1>2. CASE nonoption
  <2>1. /\ call' = call /\ argv' = argv /\ pos' = pos + 1 /\ nonops' = nonops + 1 /\ pc = "args"
        /\ pos \in Nat /\ nonops \in Nat
    BY <1>2, CurrentVector DEF nonoption
  <2>2. pos' - nonops' - 1 = pos - nonops - 1 /\ Args' = Args
    BY <2>1 DEF Args, vec
  <2>3. QED
    BY <2>1, <2>2 DEF HeadArgs, vec
<1>3. ASSUME NEW k \in 0..2, Moves(k)
      PROVE  /\ call' = call /\ vec' = vec /\ HeadArgs \subseteq HeadArgs'
             /\ k # 0 => Args[pos] \in HeadArgs'
  <2>1. \A a : a \in HeadArgs' <=> a \in HeadArgs \/ a \in Stretch(Args, pos, pos + k - 1)
    BY <1>1, <1>3, MovesInPlace
  <2>2. k # 0 => Args[pos] \in Stretch(Args, pos, pos + k - 1)
    <3>1. pos \in Nat
      BY CurrentVector
    <3>2. k # 0 => pos \in pos .. pos + k - 1
      BY <3>1
    <3>3. QED
      BY <3>2 DEF Stretch
  <2>3. QED
    BY <1>3, <2>1, <2>2 DEF Moves, vec
<1>4. CASE pc = "group"
  <2>1. advance(Taken(Here))
    BY <1>1, <1>4, GroupStep DEF return
  <2>2. PICK k \in 0..2 : k = Taken(Here) /\ Moves(k)
    BY <1>4, <2>1, GroupMoves
  <2>3. CASE k = 0
    BY <1>3, <1>4, <2>1, <2>2, <2>3, GroupGoesOn
  <2>4. CASE k # 0
    <3>1. pc' = "args"
      BY <2>1, <2>2, <2>4 DEF advance
    <3>2. QED
      BY <1>3, <2>2, <2>4, <3>1
  <2>5. QED
    BY <2>3, <2>4
<1>5. CASE pc # "group"
  BY <1>2, <1>3, <1>5, CallStep
<1>6. QED
  BY <1>4, <1>5

(* What has been found stays found, and what has been taken stays taken.   *)
LEMMA StillBeen ==
  ASSUME TypeOK, InPlace, Next, NEW CONSTANT n \in 1..2, NEW CONSTANT a, NEW CONSTANT off \in Nat
  PROVE  /\ BeenAt(n, a, off) => BeenAt(n, a, off)'
         /\ TakenIn(n, a) => TakenIn(n, a)'
<1>0. call \in 1..5
  BY DEF TypeOK
<1>1. CASE pc = "call"
  <2>1. call' = call
    BY <1>1 DEF Next, begin, nonoption, stop_at_nonoption, terminator, option, end, end_of_group, drop,
                illegal, accept, returned, vars
  <2>2. QED
    BY <1>1, <2>1 DEF BeenAt, TakenIn
<1>2. CASE pc # "call" /\ pc' = "call"
  <2>1. call' = call + 1
    BY <1>2, CallStep DEF Moves, nonoption
  <2>2. QED
    BY <1>0, <1>2, <2>1 DEF BeenAt, TakenIn
<1>3. CASE pc # "call" /\ pc' # "call"
  <2>1. /\ call' = call /\ vec' = vec
        /\ HeadArgs \subseteq HeadArgs'
        /\ pc = "group" => \/ Taken(Here) # 0 /\ pc' = "args" /\ Args[pos] \in HeadArgs'
                           \/ /\ Taken(Here) = 0 /\ pc' = "group" /\ param' = param + 1
                              /\ Args'[pos'] = Args[pos]
    BY <1>3, HeadGrows
  <2>2. TakenIn(n, a) => TakenIn(n, a)'
    BY <1>3, <2>1 DEF TakenIn
  <2>3. ASSUME pc = "group", a = Args[pos], off \in 2..param
        PROVE  a \in HeadArgs' \/ (pc' = "group" /\ a = Args'[pos'] /\ off \in 2..param')
    <3>1. param \in Nat
      <4>1. param \in 1..Len(Param) /\ pos <= Len(Args)
        BY <2>3 DEF TypeOK
      <4>2. QED
        BY <4>1, CurrentVector
    <3>2. off \in 2..param + 1
      BY <2>3, <3>1
    <3>3. QED
      BY <2>1, <2>3, <3>2
  <2>4. BeenAt(n, a, off) => BeenAt(n, a, off)'
    BY <1>3, <2>1, <2>3 DEF BeenAt
  <2>5. QED
    BY <2>2, <2>4
<1>4. QED
  BY <1>1, <1>2, <1>3

-----------------------------------------------------------------------------
(***************************************************************************)
(* The options in the buffer.                                              *)
(***************************************************************************)

Pointers == (1..2) \X Nat \X Nat

SameArg(p, q) == p[1] = q[1] /\ p[2] = q[2]

(* The argument of an option that is an argument of the vector.            *)
Detaches(x) == x.arg # NULL /\ x.arg[3] = 1

FromArgs(x) ==
    /\ x.name \in Pointers
    /\ BeenAt(x.name[1], x.name[2], x.name[3])
    /\ x.arg # NULL => x.arg \in Pointers
    /\ Detaches(x) => TakenIn(x.arg[1], x.arg[2]) /\ ~ SameArg(x.arg, x.name)

(* Option x was given before y, and no argument is used for both.          *)
Apart(x, y) ==
    /\ Before(x.name, y.name)
    /\ Detaches(x) => ~ SameArg(x.arg, y.name)
    /\ Detaches(y) => ~ SameArg(y.arg, x.name)
    /\ Detaches(x) /\ Detaches(y) => ~ SameArg(x.arg, y.arg)

(* The options are in the order in which they were found.                  *)
BufferIs ==
    /\ \A k \in 0..op_count - 1 : FromArgs(mem[buf(k)])
    /\ \A j, k \in 0..op_count - 1 : j < k => Apart(mem[buf(j)], mem[buf(k)])

(* What has been taken stands before what has not.                         *)
LEMMA HeadIs ==
  ASSUME TypeOK, InPlace
  PROVE  /\ \A j \in pos - nonops .. Len(Args) : Args[j] \notin HeadArgs
         /\ \A a \in HeadArgs : a \in Nat /\ a \in DOMAIN text[vec]
         /\ \A i, j \in 1..Len(Args) : Args[i] = Args[j] => i = j
         /\ pc = "group" => \A a \in HeadArgs : a < Args[pos]
<1>1. /\ vec \in 1..2 /\ Args \in Seq(Nat) /\ Len(Args) \in Nat /\ pos \in 1..Len(Args) + 1
      /\ nonops \in 0..pos - 1
  BY CurrentVector
<1>2. \A i \in 1..Len(Args) : Args[i] \in Nat /\ Args[i] \in DOMAIN text[vec]
  BY <1>1, VectorIs DEF Args
<1>3. Ahead(Args, NonOptions(vec)) /\ Distinct(Args)
  BY <1>1 DEF InPlace, Args
<1>4. \A a \in HeadArgs : \E i \in 1..pos - nonops - 1 : a = Args[i]
  BY DEF HeadArgs, Stretch
<1>5. \A i \in 1..pos - nonops - 1 : i \in 1..Len(Args) /\ i < pos
  BY <1>1
<1>6. \A i, j \in 1..Len(Args) : Args[i] = Args[j] => i = j
  BY <1>3 DEF Distinct
<1>7. ASSUME NEW j \in pos - nonops .. Len(Args), Args[j] \in HeadArgs
      PROVE  FALSE
  <2>1. PICK i \in 1..pos - nonops - 1 : Args[j] = Args[i]
    BY <1>4, <1>7
  <2>2. j \in 1..Len(Args) /\ i \in 1..Len(Args) /\ i # j
    BY <1>1, <1>5
  <2>3. QED
    BY <1>6, <2>1, <2>2
<1>8. ASSUME pc = "group", NEW a \in HeadArgs
      PROVE  a < Args[pos]
  <2>1. PICK i \in 1..pos - nonops - 1 : a = Args[i]
    BY <1>4
  <2>2. pos \in 1..Len(Args)
    BY <1>1, <1>8 DEF TypeOK
  <2>3. Args[pos] \notin NonOptions(vec)
    BY <1>8 DEF InPlace, NonOptions, Param
  <2>4. Args[i] < Args[pos]
    BY <1>3, <1>5, <2>2, <2>3 DEF Ahead
  <2>5. QED
    BY <2>1, <2>4
<1>9. QED
  BY <1>2, <1>4, <1>5, <1>6, <1>7, <1>8

(* What a turn takes.                                                      *)
LEMMA TurnTakes ==
  ASSUME TypeOK, InPlace, pc = "group", text' = text, advance(Taken(Here))
  PROVE  /\ call' = call /\ vec' = vec /\ pc' \in {"args", "group"}
         /\ \A a : a \in HeadArgs' <=> \/ a \in HeadArgs
                                       \/ Taken(Here) # 0 /\ a = Args[pos]
                                       \/ Taken(Here) = 2 /\ a = Args[pos + 1]
<1>1. PICK k \in 0..2 : k = Taken(Here) /\ Moves(k)
  BY GroupMoves
<1>2. \A a : a \in HeadArgs' <=> a \in HeadArgs \/ a \in Stretch(Args, pos, pos + k - 1)
  BY <1>1, MovesInPlace
<1>3. pos \in Nat
  BY CurrentVector
<1>4. /\ k = 0 => pos .. pos + k - 1 = {}
      /\ k = 1 => pos .. pos + k - 1 = {pos}
      /\ k = 2 => pos .. pos + k - 1 = {pos, pos + 1}
  BY <1>3
<1>5. \A a : a \in Stretch(Args, pos, pos + k - 1) <=> \/ k # 0 /\ a = Args[pos]
                                                       \/ k = 2 /\ a = Args[pos + 1]
  <2>1. CASE k = 0
    BY <1>4, <2>1 DEF Stretch
  <2>2. CASE k = 1
    BY <1>4, <2>2 DEF Stretch
  <2>3. CASE k = 2
    BY <1>4, <2>3 DEF Stretch
  <2>4. QED
    BY <2>1, <2>2, <2>3
<1>6. call' = call /\ vec' = vec /\ pc' \in {"args", "group"}
  BY DEF advance, vec
<1>7. QED
  BY <1>1, <1>2, <1>5, <1>6

(* A new option is behind all that have been found, and for itself.        *)
LEMMA NewIs ==
  ASSUME TypeOK, InPlace, pc = "group", call \in 3..4, text' = text, advance(Taken(Here)),
         Stores(Here), NEW CONSTANT o, Found(o)
  PROVE  /\ FromArgs(o)'
         /\ \A x : FromArgs(x) => Apart(x, o)
         /\ o.name[1] = vec
         /\ Detaches(o) => o.arg[1] = vec
         /\ Taken(Here) = 2 => o.arg = <<vec, Args[pos + 1], 1>>
<1>1. call = vec + 2 /\ vec \in 1..2 /\ pos \in Nat /\ param \in Nat /\ pos <= Len(Args)
  <2>1. param \in 1..Len(Param) /\ pos <= Len(Args)
    BY DEF TypeOK
  <2>2. call = vec + 2
    BY DEF vec
  <2>3. QED
    BY <2>1, <2>2, CurrentVector
<1>2. PICK n, a, b : n \in 1..2 /\ a \in Nat /\ n = vec /\ a = Args[pos] /\ b = Args[pos + 1]
  BY <1>1, NextIs
<1>3. PICK off \in Nat : /\ o.name = <<n, a, off>>
                         /\ off = param + 1 \/ (off = 1 /\ param = 1 /\ Taken(Here) # 0)
  BY <1>2, FoundIs
<1>4. \/ o.arg = NULL /\ Taken(Here) # 2
      \/ /\ \E off2 \in Nat : off2 > 1 /\ o.arg = <<n, a, off2>>
         /\ Taken(Here) # 2
      \/ o.arg = <<n, b, 1>> /\ pos < Len(Args) /\ Taken(Here) = 2
  BY <1>2, FoundIs
<1>5. o.name[1] = n /\ o.name[2] = a /\ o.name[3] = off /\ o.name \in Pointers
  BY <1>2, <1>3 DEF Pointers
<1>6. Detaches(o) => /\ o.arg = <<n, b, 1>> /\ o.arg[1] = n /\ o.arg[2] = b
                     /\ pos < Len(Args) /\ Taken(Here) = 2
  <2>1. CASE o.arg = NULL
    BY <2>1 DEF Detaches
  <2>2. ASSUME NEW off2 \in Nat, off2 > 1, o.arg = <<n, a, off2>>
        PROVE  ~ Detaches(o)
    <3>1. o.arg[3] = off2
      BY <2>2
    <3>2. QED
      BY <2>2, <3>1 DEF Detaches
  <2>3. CASE o.arg = <<n, b, 1>> /\ pos < Len(Args) /\ Taken(Here) = 2
    <3>1. o.arg[1] = n /\ o.arg[2] = b
      BY <2>3
    <3>2. QED
      BY <2>3, <3>1
  <2>4. QED
    BY <1>4, <2>1, <2>2, <2>3
<1>7. pos < Len(Args) => b \in Nat /\ b # a /\ b \notin HeadArgs
  <2> SUFFICES ASSUME pos < Len(Args) PROVE b \in Nat /\ b # a /\ b \notin HeadArgs
    OBVIOUS
  <2>1. Len(Args) \in Nat /\ Args \in Seq(Nat) /\ nonops \in 0..pos - 1
    BY CurrentVector
  <2>2. pos + 1 \in 1..Len(Args) /\ pos \in 1..Len(Args) /\ pos + 1 # pos
        /\ pos + 1 \in pos - nonops .. Len(Args)
    BY <1>1, <2>1
  <2>3. b \in Nat
    BY <1>2, <2>1, <2>2, ElementOfSeq
  <2>4. QED
    BY <1>2, <2>2, <2>3, HeadIs
<1>8. a \notin HeadArgs /\ \A v \in HeadArgs : v \in Nat /\ v < a
  <2>1. pos \in pos - nonops .. Len(Args)
    BY <1>1, CurrentVector
  <2>2. QED
    BY <1>2, <2>1, HeadIs
<1>9. /\ call' = call /\ vec' = vec /\ pc' \in {"args", "group"}
      /\ \A v : v \in HeadArgs' <=> \/ v \in HeadArgs
                                    \/ Taken(Here) # 0 /\ v = a
                                    \/ Taken(Here) = 2 /\ v = b
  BY <1>2, TurnTakes
<1>10. FromArgs(o)'
  <2>1. BeenAt(n, a, off)'
    <3>1. CASE Taken(Here) # 0
      <4>1. a \in HeadArgs' /\ n + 2 = call' /\ pc' # "call"
        BY <1>1, <1>2, <1>9, <3>1
      <4>2. QED
        BY <4>1 DEF BeenAt
    <3>2. CASE Taken(Here) = 0
      <4>1. pc' = "group" /\ param' = param + 1 /\ Args'[pos'] = a /\ n + 2 = call'
        BY <1>1, <1>2, <1>9, <3>2, GroupGoesOn
      <4>2. param \in 1..Len(Param)
        BY DEF TypeOK
      <4>3. param >= 1
        BY <1>1, <4>2, CurrentVector
      <4>4. off \in 2..param + 1
        BY <1>1, <1>3, <3>2, <4>3
      <4>5. off \in 2..param' /\ a = Args'[pos'] /\ pc' = "group" /\ pc' # "call" /\ n + 2 = call'
        BY <4>1, <4>4
      <4>6. QED
        BY <4>5 DEF BeenAt
    <3>3. QED
      BY <3>1, <3>2
  <2>2. o.arg # NULL => o.arg \in Pointers
    <3>1. ASSUME NEW off2 \in Nat, o.arg = <<n, a, off2>> PROVE o.arg \in Pointers
      BY <1>2, <3>1 DEF Pointers
    <3>2. CASE o.arg = <<n, b, 1>> /\ pos < Len(Args)
      <4>1. b \in Nat /\ 1 \in Nat
        BY <1>7, <3>2
      <4>2. QED
        BY <1>2, <3>2, <4>1 DEF Pointers
    <3>3. QED
      BY <1>4, <3>1, <3>2
  <2>3. Detaches(o) => TakenIn(n, b)'
    <3> SUFFICES ASSUME Detaches(o) PROVE TakenIn(n, b)'
      OBVIOUS
    <3>1. b \in HeadArgs' /\ n + 2 = call' /\ pc' # "call"
      BY <1>1, <1>2, <1>6, <1>9
    <3>2. QED
      BY <3>1 DEF TakenIn
  <2>4. Detaches(o) => ~ SameArg(o.arg, o.name)
    BY <1>5, <1>6, <1>7 DEF SameArg
  <2>5. Detaches(o) => TakenIn(o.arg[1], o.arg[2])'
    BY <1>6, <2>3
  <2>6. BeenAt(o.name[1], o.name[2], o.name[3])'
    BY <1>5, <2>1
  <2>7. QED
    BY <1>5, <2>2, <2>4, <2>5, <2>6 DEF FromArgs, Detaches, SameArg, Pointers
<1>11. ASSUME NEW x, FromArgs(x)
       PROVE  Apart(x, o)
  <2>1. PICK m \in 1..2, v \in Nat, i \in Nat : m = x.name[1] /\ v = x.name[2] /\ i = x.name[3]
    BY <1>11 DEF FromArgs, Pointers
  <2>2. m + 2 < call \/ (m + 2 = call /\ (v \in HeadArgs \/ (v = a /\ i \in 2..param)))
    BY <1>2, <1>11, <2>1 DEF FromArgs, BeenAt
  <2>3. m < n \/ (m = n /\ v < a) \/ (m = n /\ v = a /\ i < off)
    <3>1. CASE m + 2 < call
      BY <1>1, <1>2, <3>1
    <3>2. CASE m + 2 = call /\ v \in HeadArgs
      BY <1>1, <1>2, <1>8, <3>2
    <3>3. CASE m + 2 = call /\ v = a /\ i \in 2..param
      BY <1>1, <1>2, <1>3, <3>3
    <3>4. QED
      BY <2>2, <3>1, <3>2, <3>3
  <2>4. Before(x.name, o.name)
    BY <1>5, <2>1, <2>3 DEF Before
  <2>5. m = n => v \in HeadArgs \/ v = a
    BY <1>1, <1>2, <2>2
  <2>6. Detaches(o) => ~ SameArg(o.arg, x.name)
    BY <1>6, <1>7, <2>1, <2>5 DEF SameArg
  <2>7. Detaches(x) => x.arg[1] \in 1..2 /\ (x.arg[1] = n => x.arg[2] \in HeadArgs)
    <3>1. Detaches(x) => x.arg \in Pointers /\ TakenIn(x.arg[1], x.arg[2])
      BY <1>11 DEF FromArgs, Detaches
    <3>2. Detaches(x) => x.arg[1] \in 1..2
      BY <3>1 DEF Pointers
    <3>3. ~ (n + 2 < call)
      BY <1>1, <1>2
    <3>4. QED
      BY <3>1, <3>2, <3>3 DEF TakenIn
  <2>8. Detaches(x) => ~ SameArg(x.arg, o.name)
    BY <1>5, <1>8, <2>7 DEF SameArg
  <2>9. Detaches(x) /\ Detaches(o) => ~ SameArg(x.arg, o.arg)
    BY <1>6, <1>7, <2>7 DEF SameArg
  <2>10. QED
    BY <2>4, <2>6, <2>8, <2>9 DEF Apart
<1>12. QED
  BY <1>2, <1>4, <1>5, <1>6, <1>10, <1>11

-----------------------------------------------------------------------------
(***************************************************************************)
(* The steps of parse(), by what they do to the results.                   *)
(***************************************************************************)

(* Up to the first parse() there are none.                                 *)
LEMMA FreshStep ==
  ASSUME TypeOK, Sized, Filled, Next, call <= 2 \/ (call = 3 /\ pc = "call")
  PROVE  op_count' = 0 /\ UNCHANGED <<nonop_args, err>>
<1>1. op_count = 0 /\ Room \in Nat
  BY RoomIs DEF Filled
<1>2. CASE call <= 2
  <2>1. Count(call) /\ call # 5
    BY <1>2 DEF TypeOK, Count
  <2>2. CASE pc = "group"
    BY <1>1, <2>1, <2>2, GroupStep DEF return, perform, parser
  <2>3. CASE begin
    BY <1>1, <1>2, <2>3 DEF begin, add, parse, parser
  <2>4. CASE nonoption \/ option \/ terminator
    BY <1>1, <2>4 DEF nonoption, option, terminator, parser
  <2>5. CASE stop_at_nonoption \/ end
    BY <1>1, <2>1, <2>5 DEF stop_at_nonoption, end, return, parser
  <2>6. QED
    BY <2>1, <2>2, <2>3, <2>4, <2>5 DEF Next, end_of_group, drop, illegal, accept, returned
<1>3. CASE call = 3 /\ pc = "call"
  <2> DEFINE m == [p \in Allocated |-> Option(p)]
  <2>1. parse
    BY <1>3 DEF Next, begin, add, Count, nonoption, stop_at_nonoption, terminator, option, end,
                end_of_group, drop, illegal, accept, returned
  <2>2. op_count' = FirstEmpty(m) /\ UNCHANGED <<nonop_args, err>>
    BY <1>3, <2>1 DEF parse
  <2>3. \A p \in Allocated : m[p].desc = 0
    BY InitIs DEF Option
  <2> HIDE DEF m
  <2>4. \A k \in 0..Room - 1 : buf(k) \in Allocated
    BY DEF Allocated
  <2>5. InUse(m, 0)
    BY <2>3, <2>4 DEF InUse, valid
  <2>6. FirstEmpty(m) = 0
    BY <1>1, <2>5, FirstEmptyIs
  <2>7. QED
    BY <2>2, <2>6
<1>4. QED
  BY <1>2, <1>3

(* The second parse() begins with the results of the first, and in the end *)
(* they stay.                                                              *)
LEMMA BetweenSteps ==
  ASSUME TypeOK, Sized, Filled, Next, (call = 4 /\ pc = "call") \/ call = 5
  PROVE  UNCHANGED <<call, mem, op_count, nonop_args, err>>
<1>1. CASE call = 5
  <2>1. pc = "call"
    BY <1>1 DEF TypeOK
  <2>2. returned
    BY <1>1, <2>1 DEF Next, begin, add, parse, Count, nonoption, stop_at_nonoption, terminator, option, end,
                      end_of_group, drop, illegal, accept
  <2>3. QED
    BY <2>2 DEF returned, vars, parser
<1>2. CASE call = 4 /\ pc = "call"
  <2>1. begin /\ parse
    BY <1>2 DEF Next, begin, add, Count, nonoption, stop_at_nonoption, terminator, option, end,
                end_of_group, drop, illegal, accept, returned
  <2>2. call' = call /\ mem' = mem /\ op_count' = FirstEmpty(mem) /\ UNCHANGED <<nonop_args, err>>
    BY <1>2, <2>1 DEF begin, parse
  <2>3. op_count \in Nat /\ op_count <= Room /\ InUse(mem, op_count) /\ Room \in Nat
    BY <1>2, RoomIs DEF Filled
  <2>4. FirstEmpty(mem) = op_count
    BY <2>3, FirstEmptyIs
  <2>5. QED
    BY <2>2, <2>4
<1>3. QED
  BY <1>1, <1>2

(* Option o goes into the buffer.                                          *)
Added(o) ==
    /\ op_count' = op_count + 1
    /\ SameOption(mem'[buf(op_count)], o)
    /\ \A k \in 0..op_count - 1 : SameOption(mem'[buf(k)], mem[buf(k)])

(* Why a call ends without an error.                                       *)
Ends == pc = "over" \/ (pc = "args" /\ (AtEnd \/ (~AtEnd /\ IsNonOption(Param) /\ ~Gnu)))

(* A step of a parse() ends it, stores an option or changes no result.     *)
LEMMA ParseStep ==
  ASSUME TypeOK, Sized, Filled, Counted, call \in 3..4, pc # "call", Next
  PROVE  \/ \E ok \in BOOLEAN : return(ok) /\ (ok => Ends)
         \/ /\ pc' # "call" /\ call' = call /\ UNCHANGED <<nonop_args, err>>
            /\ \/ /\ UNCHANGED <<mem, op_count>>
                  /\ set.bufmax < 0 /\ pc = "group" => Taken(Here) # 2
               \/ /\ pc = "group" /\ Stores(Here) /\ advance(Taken(Here))
                  /\ \E o : Found(o) /\ Added(o)
<1>0. call # 5 /\ ~ Count(call)
  BY DEF Count
<1>1. CASE stop_at_nonoption \/ end
  <2>1. return(TRUE) /\ Ends
    BY <1>1 DEF stop_at_nonoption, end, Ends
  <2>2. QED
    BY <2>1
<1>2. CASE nonoption \/ option \/ terminator
  BY <1>2 DEF nonoption, option, terminator, parser
<1>3. CASE pc = "group"
  <2>1. CASE return(FALSE)
    BY <2>1
  <2>2. CASE ~Stores(Here) /\ ~Refused(Here) /\ advance(Taken(Here)) /\ UNCHANGED <<stats, parser>>
    <3>1. Taken(Here) # 2
      BY <2>2 DEF Taken, Detached, Stores
    <3>2. pc' # "call" /\ call' = call /\ UNCHANGED <<mem, op_count, nonop_args, err>>
      BY <2>2 DEF advance, parser
    <3>3. QED
      BY <3>1, <3>2
  <2>3. ASSUME Stores(Here), advance(Taken(Here)), NEW o, Found(o), perform(o)
        PROVE  /\ pc' # "call" /\ call' = call /\ UNCHANGED <<nonop_args, err>>
               /\ \/ /\ UNCHANGED <<mem, op_count>>
                     /\ set.bufmax < 0 /\ pc = "group" => Taken(Here) # 2
                  \/ Added(o)
    <3>1. pc' # "call" /\ call' = call
      BY <2>3 DEF advance
    <3>2. o.desc \in DOMAIN usage
      BY <2>3 DEF Found
    <3>3. QED
      BY <2>3, <3>1, <3>2, PerformIs DEF Added
  <2>4. QED
    BY <1>0, <1>3, <2>1, <2>2, <2>3, GroupStep
<1>4. QED
  BY <1>0, <1>1, <1>2, <1>3
  DEF Next, begin, add, parse, end_of_group, drop, illegal, accept, returned

-----------------------------------------------------------------------------
(***************************************************************************)
(* What is left over is in order.                                          *)
(***************************************************************************)

(* All before the end of the diary was taken or passed over by Stats, so   *)
(* what is left over has not been rotated since.                           *)
LEMMA RestSorted ==
  ASSUME TypeOK, AsGiven, Counted, call \in 3..4, pc # "call", Ends
  PROVE  SortedFrom(Args, pos - nonops)
<1>1. /\ Args \in Seq(Nat) /\ Len(Args) \in Nat /\ pos \in 1..Len(Args) + 1 /\ nonops \in 0..pos - 1
      /\ vec \in 1..2 /\ ~ Count(call)
  BY CurrentVector DEF Count
<1>2. CASE ~ set.stats_gnu
  BY <1>1, <1>2 DEF AsGiven
<1>3. CASE set.stats_gnu
  <2>1. \E c, d : Following(vec, c, d)
    BY <1>3 DEF Counted, Followed, vec
  <2>2. PICK c, d : Following(vec, c, d)
    BY <2>1
  <2>3. PICK V, P, e, l :
          /\ V = argv[vec] /\ Closed(vec, V, P, e, l) /\ Begins(P, c) /\ e.count = d
          /\ (\E g \in P : At(g, e, l)) \/ Spent(e)
    BY <2>2 DEF Following
  <2>4. V = Args /\ Diary(vec, V, P, e, l) /\ SortedFrom(V, e.at) /\ Closes(P, e) /\ e.at \in Nat
    <3>1. Diary(vec, V, P, e, l)
      BY <2>3 DEF Closed
    <3>2. e \in P /\ e.at \in Nat
      BY <3>1, DiaryIs
    <3>3. QED
      BY <2>3, <3>1, <3>2 DEF Diary, LeftOut, Args
  <2>5. e.at <= pos - nonops => SortedFrom(V, pos - nonops)
    BY <1>1, <2>4 DEF SortedFrom
  <2>6. CASE Spent(e)
    BY <2>4, <2>5, <2>6 DEF Spent
  <2>7. ASSUME NEW g \in P, At(g, e, l)
        PROVE  SortedFrom(Args, pos - nonops)
    <3>1. g.pc = pc /\ g.at = pos - nonops /\ (nonops > 0 => g.at = e.at)
      BY <2>7 DEF At
    <3>2. g.at = e.at => SortedFrom(Args, pos - nonops)
      BY <1>1, <2>4, <2>5, <3>1
    <3>3. CASE pc = "over"
      BY <2>4, <3>1, <3>2, <3>3, OverIsLast
    <3>4. CASE pc = "args" /\ AtEnd
      <4>1. pos > Len(Args)
        <5>1. numargs = IF set.counted THEN Len(Args) - pos + 1 ELSE -1
          BY DEF TypeOK
        <5>2. QED
          BY <1>1, <3>4, <5>1 DEF AtEnd
      <4>2. nonops = 0 => pos - nonops > Len(Args)
        BY <1>1, <4>1
      <4>3. nonops = 0 => SortedFrom(Args, pos - nonops)
        BY <1>1, <4>2 DEF SortedFrom
      <4>4. nonops > 0 \/ nonops = 0
        BY <1>1
      <4>5. QED
        BY <3>1, <3>2, <4>3, <4>4
    <3>5. CASE pc = "args" /\ ~AtEnd /\ IsNonOption(Param)
      <4>1. \/ IsNonOption(Param) /\ ~set.stats_gnu
            \/ IsNonOption(Param) /\ g.at = e.at /\ nonops < l
            \/ IsTerminator(Param)
            \/ OpensOption(Param)
        <5>1. PICK n \in 1..2 : n = vec
          BY <1>1
        <5>2. V = argv[n] /\ Closed(n, V, P, e, l)
          BY <2>3, <5>1
        <5>3. QED
          BY <2>7, <3>5, <5>1, <5>2, NextArgumentIs
      <4>2. QED
        BY <1>3, <3>2, <3>5, <4>1, TerminatorIsNone DEF OpensOption
    <3>6. QED
      BY <3>3, <3>4, <3>5 DEF Ends
  <2>8. QED
    BY <2>3, <2>6, <2>7
<1>4. QED
  BY <1>2, <1>3

-----------------------------------------------------------------------------
(***************************************************************************)
(* The results are those of the command line.                              *)
(***************************************************************************)

(* An option stays one of the command line.                                *)
LEMMA StillFrom ==
  ASSUME TypeOK, InPlace, Next, NEW CONSTANT x, FromArgs(x)
  PROVE  FromArgs(x)'
<1>1. PICK n \in 1..2, a \in Nat, off \in Nat : n = x.name[1] /\ a = x.name[2] /\ off = x.name[3]
  BY DEF FromArgs, Pointers
<1>2. BeenAt(x.name[1], x.name[2], x.name[3])'
  <2>1. BeenAt(n, a, off)
    BY <1>1 DEF FromArgs
  <2>2. BeenAt(n, a, off)'
    BY <2>1, StillBeen
  <2>3. QED
    BY <1>1, <2>2
<1>3. Detaches(x) => TakenIn(x.arg[1], x.arg[2])'
  <2> SUFFICES ASSUME Detaches(x) PROVE TakenIn(x.arg[1], x.arg[2])'
    OBVIOUS
  <2>1. x.arg \in Pointers /\ TakenIn(x.arg[1], x.arg[2])
    BY DEF FromArgs, Detaches
  <2>2. PICK m, b : m \in 1..2 /\ m = x.arg[1] /\ b = x.arg[2]
    BY <2>1 DEF Pointers
  <2>3. TakenIn(m, b) /\ m \in 1..2 /\ 1 \in Nat
    BY <2>1, <2>2
  <2>4. TakenIn(m, b)'
    BY <2>3, StillBeen
  <2>5. QED
    BY <2>2, <2>4
<1>4. QED
  BY <1>2, <1>3 DEF FromArgs, Detaches, SameArg, Pointers

(* Links do not matter.                                                    *)
LEMMA SameFrom ==
  ASSUME NEW x, NEW y, SameOption(x, y), FromArgs(y)
  PROVE  FromArgs(x)
BY DEF SameOption, FromArgs, Detaches

LEMMA SameApart ==
  ASSUME NEW x, NEW y, NEW v, NEW w, SameOption(x, v), SameOption(y, w), Apart(v, w)
  PROVE  Apart(x, y)
BY DEF SameOption, Apart, Detaches

LEMMA BufferInit == Init => BufferIs
<1> SUFFICES ASSUME Init PROVE BufferIs
  OBVIOUS
<1>1. \A k : ~ (k \in 0..op_count - 1)
  BY DEF Init
<1>2. QED
  BY <1>1 DEF BufferIs

LEMMA BufferNext ==
  TypeOK /\ InPlace /\ Sized /\ Filled /\ Counted /\ BufferIs /\ [Next]_vars => BufferIs'
<1> SUFFICES ASSUME TypeOK, InPlace, Sized, Filled, Counted, BufferIs, [Next]_vars
             PROVE  BufferIs'
  OBVIOUS
<1>0. op_count \in Nat /\ call \in 1..5
  BY DEF Filled, TypeOK
<1>1. CASE UNCHANGED vars
  BY <1>1 DEF BufferIs, FromArgs, BeenAt, TakenIn, HeadArgs, Args, vec, vars, locals, parser
<1>2. ASSUME Next, NEW k \in 0..op_count - 1, SameOption(mem'[buf(k)], mem[buf(k)])
      PROVE  FromArgs(mem[buf(k)])'
  <2>1. PICK x, y : x = mem[buf(k)] /\ y = mem'[buf(k)]
    OBVIOUS
  <2>2. FromArgs(y)
    BY <1>2, <2>1, SameFrom DEF BufferIs
  <2>3. FromArgs(y)'
    BY <1>2, <2>2, StillFrom
  <2>4. QED
    BY <2>1, <2>3 DEF buf
<1>3. ASSUME NEW j \in 0..op_count - 1, NEW k \in 0..op_count - 1, j < k,
             SameOption(mem'[buf(j)], mem[buf(j)]), SameOption(mem'[buf(k)], mem[buf(k)])
      PROVE  Apart(mem'[buf(j)], mem'[buf(k)])
  BY <1>3, SameApart DEF BufferIs
<1>4. ASSUME Next, UNCHANGED <<mem, op_count>>
      PROVE  BufferIs'
  <2>1. \A k \in 0..op_count - 1 : SameOption(mem'[buf(k)], mem[buf(k)])
    BY <1>4 DEF SameOption
  <2>2. \A k \in 0..op_count - 1 : FromArgs(mem[buf(k)])'
    BY <1>2, <1>4, <2>1
  <2>3. \A j, k \in 0..op_count - 1 : j < k => Apart(mem'[buf(j)], mem'[buf(k)])
    BY <1>3, <2>1
  <2>4. QED
    BY <1>4, <2>2, <2>3 DEF BufferIs, buf
<1>5. ASSUME Next, call \in 3..4, pc = "group", Stores(Here), advance(Taken(Here)),
             NEW o, Found(o), Added(o)
      PROVE  BufferIs'
  <2>1. text' = text
    BY <1>5, Given
  <2>2. FromArgs(o)' /\ \A x : FromArgs(x) => Apart(x, o)
    BY <1>5, <2>1, NewIs
  <2>3. /\ op_count' = op_count + 1
        /\ SameOption(mem'[buf(op_count)], o)
        /\ \A k \in 0..op_count - 1 : SameOption(mem'[buf(k)], mem[buf(k)])
    BY <1>5 DEF Added
  <2>4. \A k : k = op_count => FromArgs(mem[buf(k)])'
    <3> SUFFICES ASSUME NEW k, k = op_count PROVE FromArgs(mem[buf(k)])'
      OBVIOUS
    <3>1. PICK y : y = mem'[buf(k)]
      OBVIOUS
    <3>2. SameOption(y, o)
      BY <2>3, <3>1
    <3>3. FromArgs(y)'
      BY <2>2, <3>2 DEF FromArgs, SameOption, Detaches, SameArg, Pointers
    <3>4. QED
      BY <3>1, <3>3 DEF FromArgs, SameOption, Detaches, SameArg, Pointers, buf
  <2>5. \A k \in 0..op_count - 1 : FromArgs(mem[buf(k)])'
    BY <1>2, <1>5, <2>3
  <2>6. \A k \in 0..op_count - 1 : Apart(mem'[buf(k)], mem'[buf(op_count)])
    <3> SUFFICES ASSUME NEW k \in 0..op_count - 1
                 PROVE  Apart(mem'[buf(k)], mem'[buf(op_count)])
      OBVIOUS
    <3>1. Apart(mem[buf(k)], o)
      BY <2>2 DEF BufferIs
    <3>2. SameOption(mem'[buf(k)], mem[buf(k)]) /\ SameOption(mem'[buf(op_count)], o)
      BY <2>3
    <3>3. QED
      BY <3>1, <3>2, SameApart
  <2>7. \A j, k \in 0..op_count - 1 : j < k => Apart(mem'[buf(j)], mem'[buf(k)])
    BY <1>3, <2>3
  <2>8. \A k \in 0..op_count' - 1 : k = op_count \/ k \in 0..op_count - 1
    BY <1>0, <2>3
  <2>9. \A k \in 0..op_count' - 1 : FromArgs(mem[buf(k)])'
    BY <2>4, <2>5, <2>8
  <2>10. \A j, k \in 0..op_count' - 1 : j < k => Apart(mem'[buf(j)], mem'[buf(k)])
    <3> SUFFICES ASSUME NEW j \in 0..op_count' - 1, NEW k \in 0..op_count' - 1, j < k
                 PROVE  Apart(mem'[buf(j)], mem'[buf(k)])
      OBVIOUS
    <3>1. j \in 0..op_count - 1
      BY <1>0, <2>3
    <3>2. QED
      BY <2>6, <2>7, <2>8, <3>1
  <2>11. QED
    BY <2>9, <2>10 DEF BufferIs, buf
<1>6. ASSUME op_count' = 0
      PROVE  BufferIs'
  <2>1. \A k : ~ (k \in 0..op_count' - 1)
    BY <1>6
  <2>2. QED
    BY <2>1 DEF BufferIs
<1>7. CASE Next /\ (call <= 2 \/ (call = 3 /\ pc = "call"))
  BY <1>6, <1>7, FreshStep
<1>8. CASE Next /\ ((call = 4 /\ pc = "call") \/ call = 5)
  BY <1>4, <1>8, BetweenSteps
<1>9. CASE Next /\ call \in 3..4 /\ pc # "call"
  <2>1. ASSUME NEW ok, return(ok)
        PROVE  UNCHANGED <<mem, op_count>>
    BY <1>9, <2>1 DEF return, Count
  <2>2. QED
    BY <1>4, <1>5, <1>9, <2>1, ParseStep
<1>10. QED
  BY <1>0, <1>1, <1>7, <1>8, <1>9

(* The argument is no option's.                                            *)
Unused(p, x) == ~ SameArg(x.name, p) /\ (Detaches(x) => ~ SameArg(x.arg, p))

(* The arguments that are left over are of a call that has ended.          *)
RestIs ==
    /\ nonop_args.args # << >> => nonop_args.vec \in 1..2 /\ nonop_args.vec + 2 < call
    /\ nonop_args.args \in Seq(Nat) /\ SortedFrom(nonop_args.args, 1)
    /\ \A i \in 1..Len(nonop_args.args), k \in 0..op_count - 1 :
          Unused(<<nonop_args.vec, nonop_args.args[i]>>, mem[buf(k)])

LEMMA SameUnused ==
  ASSUME NEW x, NEW y, NEW p, SameOption(x, y), Unused(p, y)
  PROVE  Unused(p, x)
BY DEF SameOption, Unused, Detaches

Suffix(A, m) == SubSeq(A, m, Len(A))

LEMMA SuffixIs ==
  ASSUME NEW A \in Seq(Nat), NEW m \in 1..Len(A) + 1, NEW s, s = Suffix(A, m)
  PROVE  /\ s \in Seq(Nat) /\ Len(s) = Len(A) - m + 1 /\ Len(s) \in Nat
         /\ \A i \in 1..Len(s) : s[i] = A[m + i - 1] /\ m + i - 1 \in m .. Len(A)
         /\ s = << >> <=> m = Len(A) + 1
         /\ SortedFrom(A, m) => SortedFrom(s, 1)
<1>1. Len(A) \in Nat /\ \A i \in 1..Len(A) : A[i] \in Nat
  BY LenProperties, ElementOfSeq
<1>2. /\ s \in Seq(Nat) /\ Len(s) = Len(A) - m + 1 /\ Len(s) \in Nat
      /\ \A i \in 1..Len(s) : s[i] = A[m + i - 1]
  <2>1. s = SubSeq(A, m, Len(A))
    BY DEF Suffix
  <2>2. QED
    BY <1>1, <2>1
<1>3. \A i \in 1..Len(s) : m + i - 1 \in m .. Len(A) /\ m + i - 1 \in 1..Len(A)
  BY <1>1, <1>2
<1>4. s = << >> <=> m = Len(A) + 1
  <2>1. s = << >> <=> Len(s) = 0
    BY <1>2, EmptySeq
  <2>2. Len(s) = 0 <=> m = Len(A) + 1
    BY <1>1, <1>2
  <2>3. QED
    BY <2>1, <2>2
<1>5. ASSUME SortedFrom(A, m)
      PROVE  SortedFrom(s, 1)
  <2> SUFFICES ASSUME NEW i \in 1..Len(s), NEW j \in 1..Len(s), i < j
               PROVE  s[i] < s[j]
    BY DEF SortedFrom
  <2> DEFINE u == m + i - 1
             v == m + j - 1
  <2>1. u \in 1..Len(A) /\ v \in 1..Len(A) /\ m <= u /\ u < v
    BY <1>1, <1>2, <1>3
  <2>2. s[i] = A[u] /\ s[j] = A[v]
    BY <1>2
  <2> HIDE DEF u, v
  <2>3. A[u] < A[v]
    BY <1>5, <2>1 DEF SortedFrom
  <2>4. QED
    BY <2>2, <2>3
<1>6. QED
  BY <1>2, <1>3, <1>4, <1>5

LEMMA SuffixAt ==
  ASSUME NEW A \in Seq(Nat), NEW m \in 1..Len(A) + 1, NEW s, s = Suffix(A, m)
  PROVE  \A i \in 1..Len(s) : s[i] = A[m + i - 1]
<1>1. \A i \in 1..Len(s) : s[i] = A[m + i - 1] /\ m + i - 1 \in m .. Len(A)
  BY SuffixIs
<1>2. QED
  BY <1>1

LEMMA CallGrows ==
  ASSUME TypeOK, Next
  PROVE  call' \in {call, call + 1}
<1>1. CASE pc = "call"
  BY <1>1 DEF Next, begin, nonoption, stop_at_nonoption, terminator, option, end, end_of_group, drop,
              illegal, accept, returned, vars
<1>2. CASE pc # "call"
  BY <1>2, CallStep DEF nonoption, Moves
<1>3. QED
  BY <1>1, <1>2

LEMMA RestInit == Init => RestIs
<1> SUFFICES ASSUME Init PROVE RestIs
  OBVIOUS
<1>1. nonop_args.args = << >>
  BY DEF Init
<1>2. Len(<< >>) = 0 /\ << >> \in Seq(Nat) /\ \A i : ~ (i \in 1..0)
  OBVIOUS
<1>3. QED
  BY <1>1, <1>2 DEF RestIs, SortedFrom

(* An argument that has not been taken is no option's.                     *)
LEMMA LeftUnused ==
  ASSUME TypeOK, InPlace, call \in 3..4, pc \in {"args", "over"},
         NEW j \in pos - nonops .. Len(Args), NEW x, FromArgs(x)
  PROVE  Unused(<<vec, Args[j]>>, x)
<1>1. call = vec + 2 /\ vec \in 1..2
  <2>1. call = vec + 2
    BY DEF vec
  <2>2. QED
    BY <2>1, CurrentVector
<1>2. PICK n, a : n \in 1..2 /\ n = vec /\ a = Args[j]
  BY <1>1
<1>3. a \notin HeadArgs
  BY <1>2, HeadIs
<1>4. ASSUME NEW m \in 1..2, NEW b, NEW off, BeenAt(m, b, off) \/ TakenIn(m, b)
      PROVE  m # n \/ b # a
  BY <1>1, <1>2, <1>3, <1>4 DEF BeenAt, TakenIn
<1>5. x.name[1] # n \/ x.name[2] # a
  <2>1. x.name[1] \in 1..2 /\ BeenAt(x.name[1], x.name[2], x.name[3])
    BY DEF FromArgs, Pointers
  <2>2. QED
    BY <1>4, <2>1
<1>6. Detaches(x) => x.arg[1] # n \/ x.arg[2] # a
  <2>1. Detaches(x) => x.arg[1] \in 1..2 /\ TakenIn(x.arg[1], x.arg[2])
    BY DEF FromArgs, Pointers, Detaches
  <2>2. QED
    BY <1>4, <2>1
<1>7. QED
  BY <1>2, <1>5, <1>6 DEF Unused, SameArg

LEMMA RestNext ==
  TypeOK /\ InPlace /\ Sized /\ Filled /\ AsGiven /\ Counted /\ BufferIs /\ RestIs /\ [Next]_vars => RestIs'
<1> SUFFICES ASSUME TypeOK, InPlace, Sized, Filled, AsGiven, Counted, BufferIs, RestIs, [Next]_vars
             PROVE  RestIs'
  OBVIOUS
<1>0. op_count \in Nat /\ call \in 1..5
  BY DEF Filled, TypeOK
<1>1. CASE UNCHANGED vars
  BY <1>1 DEF RestIs, vars, parser
<1>2. ASSUME Next, UNCHANGED <<nonop_args>>, NEW i \in 1..Len(nonop_args.args)
      PROVE  /\ nonop_args'.args = nonop_args.args /\ nonop_args'.args # << >>
             /\ nonop_args'.vec \in 1..2 /\ nonop_args'.vec + 2 < call
  <2>1. nonop_args.args # << >>
    BY <1>2
  <2>2. QED
    BY <1>2, <2>1 DEF RestIs
<1>3. ASSUME Next, UNCHANGED <<nonop_args>>
      PROVE  /\ nonop_args'.args # << >> => nonop_args'.vec \in 1..2 /\ nonop_args'.vec + 2 < call'
             /\ nonop_args'.args \in Seq(Nat) /\ SortedFrom(nonop_args'.args, 1)
  <2>1. \A n \in 1..2 : n + 2 < call => n + 2 < call'
    BY <1>0, <1>3, CallGrows
  <2>2. QED
    BY <1>3, <2>1 DEF RestIs
<1>4. ASSUME Next, UNCHANGED <<nonop_args, mem, op_count>>
      PROVE  RestIs'
  BY <1>3, <1>4 DEF RestIs
<1>5. ASSUME Next, UNCHANGED <<nonop_args>>, op_count' = 0
      PROVE  RestIs'
  <2>1. \A k : ~ (k \in 0..op_count' - 1)
    BY <1>5
  <2>2. QED
    BY <1>3, <1>5, <2>1 DEF RestIs
<1>6. ASSUME Next, UNCHANGED <<nonop_args>>, call \in 3..4, pc = "group", Stores(Here),
             advance(Taken(Here)), NEW o, Found(o), Added(o)
      PROVE  RestIs'
  <2>1. text' = text /\ call = vec + 2
    BY <1>6, Given DEF vec
  <2>2. o.name[1] = vec /\ (Detaches(o) => o.arg[1] = vec)
    BY <1>6, <2>1, NewIs
  <2>3. \A i \in 1..Len(nonop_args.args) : Unused(<<nonop_args.vec, nonop_args.args[i]>>, o)
    <3> SUFFICES ASSUME NEW i \in 1..Len(nonop_args.args)
                 PROVE  Unused(<<nonop_args.vec, nonop_args.args[i]>>, o)
      OBVIOUS
    <3>1. nonop_args.vec \in 1..2 /\ nonop_args.vec + 2 < call
      BY <1>2, <1>6
    <3>2. nonop_args.vec # vec
      BY <2>1, <3>1
    <3>3. QED
      BY <2>2, <3>2 DEF Unused, SameArg
  <2>4. \A k \in 0..op_count' - 1 : k = op_count \/ k \in 0..op_count - 1
    BY <1>0, <1>6 DEF Added
  <2>5. ASSUME NEW i \in 1..Len(nonop_args.args), NEW k \in 0..op_count' - 1
        PROVE  Unused(<<nonop_args.vec, nonop_args.args[i]>>, mem'[buf(k)])
    <3>1. CASE k = op_count
      BY <1>6, <2>3, <3>1, SameUnused DEF Added
    <3>2. CASE k \in 0..op_count - 1
      BY <1>6, <3>2, SameUnused DEF Added, RestIs
    <3>3. QED
      BY <2>4, <3>1, <3>2
  <2>6. QED
    BY <1>3, <1>6, <2>5 DEF RestIs, buf
<1>7. ASSUME Next, call \in 3..4, pc # "call", return(TRUE), Ends
      PROVE  RestIs'
  <2>1. /\ call' = call + 1 /\ UNCHANGED <<mem, op_count>> /\ call = vec + 2 /\ vec \in 1..2
        /\ finished(Suffix(Args, pos - nonops)) /\ pc \in {"args", "over"}
    BY <1>7, CurrentVector DEF return, Count, vec, Ends, Suffix
  <2>2. PICK A, m, s : A \in Seq(Nat) /\ A = Args /\ m = pos - nonops /\ s = Suffix(A, m)
    BY CurrentVector
  <2>3. m \in 1..Len(A) + 1
    BY <2>2, CurrentVector
  <2>4. /\ s \in Seq(Nat) /\ Len(s) = Len(A) - m + 1 /\ Len(s) \in Nat
        /\ \A i \in 1..Len(s) : s[i] = A[m + i - 1] /\ m + i - 1 \in m .. Len(A)
        /\ SortedFrom(A, m) => SortedFrom(s, 1)
    <3>1. A \in Seq(Nat) /\ m \in 1..Len(A) + 1 /\ s = Suffix(A, m)
      BY <2>2, <2>3
    <3>2. s \in Seq(Nat) /\ Len(s) = Len(A) - m + 1 /\ Len(s) \in Nat
      BY <3>1, SuffixIs
    <3>3. \A i \in 1..Len(s) : s[i] = A[m + i - 1] /\ m + i - 1 \in m .. Len(A)
      BY <3>1, SuffixIs
    <3>4. SortedFrom(A, m) => SortedFrom(s, 1)
      BY <3>1, SuffixIs
    <3>5. QED
      BY <3>2, <3>3, <3>4
  <2>5. CASE s = << >>
    <3>1. nonop_args' = nonop_args
      BY <2>1, <2>2, <2>5 DEF finished
    <3>2. QED
      BY <1>4, <1>7, <2>1, <3>1
  <2>6. CASE s # << >>
    <3>1. nonop_args' = [vec |-> vec, args |-> s]
      BY <2>1, <2>2, <2>6 DEF finished
    <3>2. nonop_args'.vec = vec /\ nonop_args'.args = s
      BY <3>1
    <3>3. SortedFrom(s, 1)
      BY <1>7, <2>2, <2>4, RestSorted
    <3>4. ASSUME NEW i \in 1..Len(s), NEW k \in 0..op_count - 1
          PROVE  Unused(<<vec, s[i]>>, mem[buf(k)])
      <4>1. PICK j \in m .. Len(A) : s[i] = A[j]
        BY <2>4
      <4>2. FromArgs(mem[buf(k)])
        BY DEF BufferIs
      <4>3. j \in pos - nonops .. Len(Args) /\ s[i] = Args[j]
        BY <2>2, <4>1
      <4>4. QED
        BY <1>7, <2>1, <4>2, <4>3, LeftUnused
    <3>5. vec + 2 < call'
      BY <1>0, <2>1
    <3>6. QED
      BY <2>1, <2>4, <3>2, <3>3, <3>4, <3>5 DEF RestIs, buf
  <2>7. QED
    BY <2>5, <2>6
<1>8. ASSUME Next, call \in 3..4, pc # "call", return(FALSE)
      PROVE  RestIs'
  <2>1. UNCHANGED <<nonop_args, mem, op_count>>
    BY <1>8 DEF return, Count
  <2>2. QED
    BY <1>4, <1>8, <2>1
<1>9. CASE Next /\ (call <= 2 \/ (call = 3 /\ pc = "call"))
  BY <1>5, <1>9, FreshStep
<1>10. CASE Next /\ ((call = 4 /\ pc = "call") \/ call = 5)
  BY <1>4, <1>10, BetweenSteps
<1>11. CASE Next /\ call \in 3..4 /\ pc # "call"
  BY <1>4, <1>6, <1>7, <1>8, <1>11, ParseStep
<1>12. QED
  BY <1>0, <1>1, <1>9, <1>10, <1>11

(* The argument that has been taken as the one that ends the options.      *)
Ending(a) == pc = "over" /\ a \in Terminators(vec) /\ a = Args[pos - nonops - 1]

(* Of the arguments that have been taken, each one that is no option or is *)
(* "--" is that of an option, but for a "--" that has been taken last.     *)
Handed ==
    /\ call \in 3..4 /\ pc # "call" /\ set.bufmax < 0 =>
          \A a \in HeadArgs \cap (NonOptions(vec) \cup Terminators(vec)) :
             \/ \E k \in 0..op_count - 1 : mem[buf(k)].arg = <<vec, a, 1>>
             \/ Ending(a)
    /\ pc = "call" => NothingLost

(* What is taken and is no option is the argument of one, or ends them.    *)
LEMMA NewHead ==
  ASSUME TypeOK, InPlace, Next, pc # "call", pc' # "call", NEW a \in HeadArgs'
  PROVE  /\ pc # "over"
         /\ \/ a \in HeadArgs
            \/ a \notin NonOptions(vec) \cup Terminators(vec)
            \/ Ending(a)'
            \/ pc = "group" /\ Taken(Here) = 2 /\ a = Args[pos + 1]
<1>1. text' = text /\ call # 5
  BY Given DEF TypeOK
<1>2. CASE nonoption
  <2>1. /\ call' = call /\ argv' = argv /\ pos' = pos + 1 /\ nonops' = nonops + 1
        /\ pos \in Nat /\ nonops \in Nat
    BY <1>2, CurrentVector DEF nonoption
  <2>2. pos' - nonops' - 1 = pos - nonops - 1 /\ Args' = Args
    BY <2>1 DEF Args, vec
  <2>3. QED
    BY <1>2, <2>2 DEF HeadArgs, nonoption
<1>3. ASSUME NEW k \in 0..1, Moves(k)
      PROVE  a \in HeadArgs \/ (k = 1 /\ a = Args[pos])
  <2>1. a \in HeadArgs \/ a \in Stretch(Args, pos, pos + k - 1)
    BY <1>1, <1>3, MovesInPlace
  <2>2. a \in Stretch(Args, pos, pos + k - 1) => k = 1 /\ a = Args[pos]
    <3>1. pos \in Nat
      BY CurrentVector
    <3>2. \A i \in pos .. pos + k - 1 : k = 1 /\ i = pos
      BY <1>3, <3>1
    <3>3. QED
      BY <3>2 DEF Stretch
  <2>4. QED
    BY <2>1, <2>2
<1>4. CASE option
  <2>1. Moves(0) /\ 0 \in 0..1 /\ 0 # 1
    BY <1>4, OptionMoves
  <2>2. QED
    BY <1>3, <1>4, <2>1 DEF option
<1>5. CASE terminator
  <2>1. Moves(1) /\ 1 \in 0..1 /\ 1 \in 0..2
    BY <1>5, TerminatorMoves
  <2>2. CASE a \in HeadArgs
    BY <1>5, <2>2 DEF terminator
  <2>3. CASE a = Args[pos]
    <3>1. a \in Terminators(vec)
      <4>1. pos \in 1..Len(Args)
        BY <1>5, InVector, CurrentVector DEF terminator
      <4>2. Args[pos] \in DOMAIN text[vec]
        BY <4>1, VectorIs, CurrentVector DEF Args
      <4>3. QED
        BY <1>5, <2>3, <4>2 DEF terminator, Terminators, Param
    <3>2. /\ vec' = vec /\ vec \in 1..2 /\ pos \in Nat \ {0} /\ nonops \in 0..pos - 1
          /\ pos' - nonops' = pos - nonops + 1
          /\ Rotated(argv[vec], argv'[vec], pos, nonops, 1)
      BY <1>5, <2>1, MovesAre DEF terminator
    <3>3. Args' = argv'[vec] /\ Args = argv[vec]
      BY <3>2 DEF Args
    <3>4. pos - nonops \in pos - nonops .. pos - nonops + 1 - 1 /\ (pos - nonops) + nonops = pos
      BY <3>2
    <3>5. Args'[pos - nonops] = Args[(pos - nonops) + nonops]
      BY <3>2, <3>3, <3>4 DEF Rotated
    <3>6. pos' - nonops' - 1 = pos - nonops
      BY <3>2
    <3>7. Args'[pos' - nonops' - 1] = a
      BY <2>3, <3>4, <3>5, <3>6
    <3>8. a \in Terminators(vec)'
      BY <1>1, <3>1, <3>2 DEF Terminators
    <3>9. QED
      BY <1>5, <3>7, <3>8 DEF Ending, terminator
  <2>4. QED
    BY <1>3, <2>1, <2>2, <2>3
<1>6. CASE pc = "group"
  <2>1. advance(Taken(Here))
    BY <1>1, <1>6, GroupStep DEF return
  <2>2. \/ a \in HeadArgs
        \/ Taken(Here) # 0 /\ a = Args[pos]
        \/ Taken(Here) = 2 /\ a = Args[pos + 1]
    BY <1>1, <1>6, <2>1, TurnTakes
  <2>3. a = Args[pos] => a \notin NonOptions(vec) \cup Terminators(vec)
    BY <1>6 DEF InPlace, NonOptions, Terminators, Param
  <2>4. QED
    BY <1>6, <2>2, <2>3
<1>7. QED
  BY <1>1, <1>2, <1>4, <1>5, <1>6
  DEF Next, begin, add, parse, stop_at_nonoption, end, return, end_of_group, drop, illegal, accept, returned

LEMMA HandedInit == Init => Handed
BY DEF Init, Handed, NothingLost

(* What is handed over at the end of a call.                               *)
LEMMA HandedOver ==
  ASSUME TypeOK, InPlace, Filled, Handed, call \in 3..4, pc # "call", Next, NEW ok \in BOOLEAN, return(ok)
  PROVE  NothingLost'
<1>1. /\ call' = call + 1 /\ err' = ~ok /\ call = vec + 2 /\ vec \in 1..2
      /\ UNCHANGED <<set, text, mem, op_count>>
      /\ ok => finished(Suffix(Args, pos - nonops))
  <2>1. call = vec + 2
    BY DEF vec
  <2>2. QED
    BY <2>1, CurrentVector DEF return, Count, Suffix
<1> SUFFICES ASSUME NEW n \in 1..2, call' = n + 3, ~ err', set'.bufmax < 0
             PROVE  \A a \in DOMAIN text'[n] :
                       /\ IsNonOption(text'[n][a]) => Purposes(n, a)' # {}
                       /\ IsTerminator(text'[n][a]) =>
                             \/ \E k \in 0..op_count' - 1 : <<"arg", k>> \in Purposes(n, a)'
                             \/ \A b \in DOMAIN text'[n] : b > a => <<"rest">> \in Purposes(n, b)'
  BY DEF NothingLost
<1>2. n = vec /\ ok /\ set.bufmax < 0 /\ text' = text
  <2>1. n = vec
    BY <1>1
  <2>2. ok
    BY <1>1
  <2>3. set.bufmax < 0 /\ text' = text
    BY <1>1
  <2>4. QED
    BY <2>1, <2>2, <2>3
<1>3. /\ Args \in Seq(Nat) /\ Len(Args) \in Nat /\ DOMAIN Args = 1..Len(Args)
      /\ pos \in 1..Len(Args) + 1 /\ nonops \in 0..pos - 1
      /\ Values(Args) = DOMAIN text[vec]
  BY CurrentVector
<1>4. \A a \in DOMAIN text[n] : \E i \in 1..Len(Args) : Args[i] = a
  BY <1>2, <1>3 DEF Values
<1>5. ASSUME NEW a, NEW i \in 1..Len(Args), Args[i] = a, ~ (i < pos - nonops)
      PROVE  <<"rest">> \in Purposes(n, a)'
  <2>1. PICK A, m, s : A \in Seq(Nat) /\ A = Args /\ m = pos - nonops /\ s = Suffix(A, m)
    BY <1>3
  <2>2. m \in 1..Len(A) + 1
    BY <1>3, <2>1
  <2>3. Len(s) = Len(A) - m + 1 /\ Len(s) \in Nat
    BY <2>1, <2>2, SuffixIs
  <2>4. \A j \in 1..Len(s) : s[j] = A[m + j - 1]
    <3>1. A \in Seq(Nat) /\ m \in 1..Len(A) + 1 /\ s = Suffix(A, m)
      BY <2>1, <2>2
    <3>2. QED
      BY <3>1, SuffixAt
  <2>5. s \in Seq(Nat) /\ DOMAIN s = 1..Len(s)
    BY <2>1, <2>2, SuffixIs, LenProperties
  <2> DEFINE j == i - m + 1
  <2>6. j \in 1..Len(s) /\ m + j - 1 = i
    BY <1>3, <1>5, <2>1, <2>2, <2>3
  <2> HIDE DEF j
  <2>8. s[j] = a
    BY <1>5, <2>1, <2>4, <2>6
  <2>9. s # << >>
    BY <2>6
  <2>10. nonop_args' = [vec |-> vec, args |-> s]
    BY <1>1, <1>2, <2>1, <2>9 DEF finished
  <2>11. nonop_args'.vec = n /\ nonop_args'.args = s
    BY <1>2, <2>10
  <2>12. j \in DOMAIN nonop_args'.args /\ nonop_args'.vec = n /\ nonop_args'.args[j] = a
    BY <2>5, <2>6, <2>8, <2>11
  <2>13. <<"rest">> \in Purposes(n, a)'
    BY <2>12 DEF Purposes
  <2>14. QED
    BY <2>13
<1>6. ASSUME NEW a, a \in HeadArgs, a \in NonOptions(vec) \cup Terminators(vec), ~ Ending(a)
      PROVE  \E k \in 0..op_count' - 1 : <<"arg", k>> \in Purposes(n, a)'
  <2>1. PICK k \in 0..op_count - 1 : mem[buf(k)].arg = <<vec, a, 1>>
    BY <1>2, <1>6 DEF Handed
  <2>2. k \in 0..op_count' - 1 /\ mem'[buf(k)].arg = <<n, a, 1>>
    BY <1>1, <1>2, <2>1
  <2>3. <<"arg", k>> \in Purposes(n, a)'
    BY <2>2 DEF Purposes, buf
  <2>4. QED
    BY <2>2, <2>3
<1>7. \A i \in 1..Len(Args) : i < pos - nonops => Args[i] \in HeadArgs
  <2>1. \A i \in 1..Len(Args) : i < pos - nonops => i \in 1..pos - nonops - 1
    BY <1>3
  <2>2. QED
    BY <2>1 DEF HeadArgs, Stretch
<1>8. ASSUME NEW a \in DOMAIN text[n], IsNonOption(text[n][a])
      PROVE  Purposes(n, a)' # {}
  <2>1. a \in NonOptions(vec) /\ a \notin Terminators(vec)
    BY <1>2, <1>8, TerminatorIsNone DEF NonOptions, Terminators
  <2>2. PICK i \in 1..Len(Args) : Args[i] = a
    BY <1>4
  <2>3. CASE i < pos - nonops
    <3>1. a \in HeadArgs /\ ~ Ending(a)
      BY <1>7, <2>1, <2>2, <2>3 DEF Ending
    <3>2. QED
      BY <1>6, <2>1, <3>1
  <2>4. CASE ~ (i < pos - nonops)
    BY <1>5, <2>2, <2>4
  <2>5. QED
    BY <2>3, <2>4
<1>9. ASSUME NEW a \in DOMAIN text[n], IsTerminator(text[n][a]),
             ~ \E k \in 0..op_count' - 1 : <<"arg", k>> \in Purposes(n, a)',
             NEW b \in DOMAIN text[n], b > a
      PROVE  <<"rest">> \in Purposes(n, b)'
  <2>1. a \in Terminators(vec) /\ a \notin NonOptions(vec)
    BY <1>2, <1>9, TerminatorIsNone DEF NonOptions, Terminators
  <2>2. PICK p \in 1..Len(Args) : Args[p] = a
    BY <1>4
  <2>3. PICK q \in 1..Len(Args) : Args[q] = b
    BY <1>4
  <2>4. \A i, j \in 1..Len(Args) : i < j => Args[i] < Args[j] \/ Args[j] \in NonOptions(vec)
    BY <1>2 DEF InPlace, Ahead, Args
  <2>5. \A i, j \in 1..Len(Args) : Args[i] = Args[j] => i = j
    BY HeadIs
  <2>6. a \in Nat /\ b \in Nat
    BY <1>3, <2>2, <2>3, ElementOfSeq
  <2>7. ~ (q < p)
    BY <1>9, <2>1, <2>2, <2>3, <2>4, <2>6
  <2>8. p < pos - nonops => p = pos - nonops - 1
    <3> SUFFICES ASSUME p < pos - nonops PROVE p = pos - nonops - 1
      OBVIOUS
    <3>1. Ending(a)
      BY <1>6, <1>7, <1>9, <2>1, <2>2
    <3>2. pos - nonops - 1 \in 1..Len(Args)
      BY <1>3
    <3>3. QED
      BY <2>2, <2>5, <3>1, <3>2 DEF Ending
  <2>9. q # p
    BY <1>9, <2>2, <2>3, <2>6
  <2>10. ~ (q < pos - nonops)
    BY <1>3, <2>7, <2>8, <2>9
  <2>11. QED
    BY <1>5, <2>3, <2>10
<1>10. QED
  BY <1>1, <1>2, <1>8, <1>9

LEMMA HandedNext ==
  TypeOK /\ InPlace /\ Sized /\ Filled /\ Counted /\ Handed /\ [Next]_vars => Handed'
<1> SUFFICES ASSUME TypeOK, InPlace, Sized, Filled, Counted, Handed, [Next]_vars
             PROVE  Handed'
  OBVIOUS
<1>0. op_count \in Nat /\ call \in 1..5
  BY DEF Filled, TypeOK
<1>1. CASE UNCHANGED vars
  <2>1. /\ HeadArgs' = HeadArgs /\ vec' = vec /\ UNCHANGED vars
        /\ NonOptions(vec)' = NonOptions(vec) /\ Terminators(vec)' = Terminators(vec)
    BY <1>1 DEF HeadArgs, Args, vec, NonOptions, Terminators, vars, locals
  <2>2. \A a : Ending(a)' = Ending(a)
    BY <2>1 DEF Ending, Args, vars, locals
  <2>3. \A n, a : Purposes(n, a)' = Purposes(n, a)
    BY <1>1 DEF Purposes, vars, parser
  <2>4. NothingLost' = NothingLost
    BY <1>1, <2>3 DEF NothingLost, vars, parser
  <2>5. QED
    BY <2>1, <2>2, <2>4 DEF Handed, vars, locals, parser
<1>2. CASE begin
  <2>1. pos' = 1 /\ nonops' = 0 /\ pc' = "args"
    BY <1>2 DEF begin
  <2>2. \A i : ~ (i \in 1..pos' - nonops' - 1)
    BY <2>1
  <2>3. \A a : ~ (a \in HeadArgs')
    BY <2>2 DEF HeadArgs, Stretch
  <2>4. QED
    BY <2>1, <2>3 DEF Handed
<1>3. CASE Next /\ pc # "call" /\ call <= 2
  <2>1. call' \in 1..3 /\ (pc' # "call" => call' <= 2)
    <3>1. pc' # "call" => call' = call
      BY <1>3, CallStep DEF nonoption, Moves
    <3>2. QED
      BY <1>0, <1>3, <3>1, CallGrows
  <2>2. \A n \in 1..2 : call' # n + 3
    BY <2>1
  <2>3. QED
    BY <2>1, <2>2 DEF Handed, NothingLost
<1>4. CASE Next /\ pc # "call" /\ call \in 3..4
  <2>1. ASSUME NEW ok \in BOOLEAN, return(ok)
        PROVE  Handed'
    <3>1. NothingLost' /\ pc' = "call"
      BY <1>4, <2>1, HandedOver DEF return
    <3>2. QED
      BY <3>1 DEF Handed
  <2>2. ASSUME pc' # "call", call' = call, set.bufmax < 0
        PROVE  /\ set'.bufmax < 0 /\ vec' = vec
               /\ (NonOptions(vec) \cup Terminators(vec))' = NonOptions(vec) \cup Terminators(vec)
    BY <1>4, <2>2, Given DEF vec, NonOptions, Terminators
  <2>3. ASSUME pc' # "call", call' = call,
               UNCHANGED <<mem, op_count>>, set.bufmax < 0 /\ pc = "group" => Taken(Here) # 2
        PROVE  Handed'
    <3> SUFFICES ASSUME set.bufmax < 0, NEW a \in HeadArgs' \cap (NonOptions(vec) \cup Terminators(vec))
                 PROVE  (\E k \in 0..op_count - 1 : mem[buf(k)].arg = <<vec, a, 1>>) \/ Ending(a)'
      BY <2>2, <2>3, Given, <1>4 DEF Handed, buf
    <3>1. pc # "over" /\ (a \in HeadArgs \/ Ending(a)')
      BY <1>4, <2>3, NewHead
    <3>2. ~ Ending(a)
      BY <3>1 DEF Ending
    <3>3. QED
      BY <1>4, <3>1, <3>2 DEF Handed
  <2>4. ASSUME pc' # "call", call' = call, pc = "group", Stores(Here), advance(Taken(Here)),
               NEW o, Found(o), Added(o)
        PROVE  Handed'
    <3> SUFFICES ASSUME set.bufmax < 0, NEW a \in HeadArgs' \cap (NonOptions(vec) \cup Terminators(vec))
                 PROVE  (\E k \in 0..op_count' - 1 : mem'[buf(k)].arg = <<vec, a, 1>>) \/ Ending(a)'
      BY <2>2, <2>4, Given, <1>4 DEF Handed, buf
    <3>1. /\ op_count' = op_count + 1
          /\ mem'[buf(op_count)].arg = o.arg
          /\ \A k \in 0..op_count - 1 : mem'[buf(k)].arg = mem[buf(k)].arg
      BY <2>4 DEF Added, SameOption
    <3>2. CASE a \in HeadArgs
      <4>0. ~ Ending(a)
        BY <2>4 DEF Ending
      <4>1. PICK k \in 0..op_count - 1 : mem[buf(k)].arg = <<vec, a, 1>>
        BY <1>4, <3>2, <4>0 DEF Handed
      <4>2. k \in 0..op_count' - 1
        BY <1>0, <3>1
      <4>3. QED
        BY <3>1, <4>1, <4>2
    <3>3. CASE a \notin HeadArgs /\ ~ Ending(a)'
      <4>1. Taken(Here) = 2 /\ a = Args[pos + 1]
        BY <1>4, <2>4, <3>3, NewHead
      <4>2. text' = text
        BY <1>4, Given
      <4>3. o.arg = <<vec, a, 1>>
        BY <1>4, <2>4, <4>1, <4>2, NewIs
      <4>4. op_count \in 0..op_count' - 1
        BY <1>0, <3>1
      <4>5. QED
        BY <3>1, <4>3, <4>4
    <3>4. QED
      BY <3>2, <3>3
  <2>5. QED
    BY <1>4, <2>1, <2>3, <2>4, ParseStep
<1>5. CASE Next /\ pc = "call"
  BY <1>1, <1>2, <1>5 DEF Next, nonoption, stop_at_nonoption, terminator, option, end, end_of_group,
                          drop, illegal, accept, returned
<1>6. QED
  <2>1. pc # "call" => call <= 4
    BY DEF TypeOK
  <2>2. pc # "call" => call <= 2 \/ call \in 3..4
    BY <1>0, <2>1
  <2>3. QED
    BY <1>1, <1>3, <1>4, <1>5, <2>2

-----------------------------------------------------------------------------
(***************************************************************************)
(* What that says of the command line.                                     *)
(***************************************************************************)

LEMMA PairIs ==
  ASSUME NEW p \in Pointers, NEW n, NEW a
  PROVE  /\ SubSeq(p, 1, 2) = <<n, a>> <=> SameArg(p, <<n, a>>)
         /\ p = <<n, a, 1>> => SameArg(p, <<n, a>>) /\ p[3] = 1
<1>1. PICK i \in 1..2, j \in Nat, k \in Nat : p = <<i, j, k>>
  BY DEF Pointers
<1>2. SubSeq(p, 1, 2) = <<i, j>>
  <2> DEFINE s == SubSeq(p, 1, 2)
             r == <<i, j>>
  <2>1. p \in Seq(Nat) /\ Len(p) = 3 /\ p[1] = i /\ p[2] = j
    BY <1>1
  <2>2. s \in Seq(Nat) /\ Len(s) = 2 /\ s[1] = i /\ s[2] = j
    BY <2>1
  <2>3. r \in Seq(Nat) /\ Len(r) = 2 /\ r[1] = i /\ r[2] = j
    OBVIOUS
  <2> HIDE DEF s, r
  <2>4. \A u \in 1..2 : u = 1 \/ u = 2
    OBVIOUS
  <2>5. s = r
    BY <2>2, <2>3, <2>4, SeqEqual
  <2>6. QED
    BY <2>5 DEF s, r
<1>3. p[1] = i /\ p[2] = j /\ p[3] = k
  BY <1>1
<1>4. <<i, j>> = <<n, a>> <=> i = n /\ j = a
  OBVIOUS
<1>5. SameArg(p, <<n, a>>) <=> i = n /\ j = a
  BY <1>3 DEF SameArg
<1>6. p = <<n, a, 1>> => i = n /\ j = a /\ k = 1
  BY <1>1
<1>7. QED
  BY <1>2, <1>3, <1>4, <1>5, <1>6

(* The purposes of an argument exclude each other.                         *)
LEMMA OnePurpose ==
  ASSUME BufferIs, RestIs, Filled, NEW n, NEW a, NEW x \in Purposes(n, a), NEW y \in Purposes(n, a)
  PROVE  x = y
<1> DEFINE p == <<n, a>>
           Named(k) == SameArg(mem[buf(k)].name, p)
           Served(k) == Detaches(mem[buf(k)]) /\ SameArg(mem[buf(k)].arg, p)
           Left == \E i \in 1..Len(nonop_args.args) : <<nonop_args.vec, nonop_args.args[i]>> = p
<1>0. op_count \in Nat
  BY DEF Filled
<1>1. ASSUME NEW k \in 0..op_count - 1
      PROVE  /\ SubSeq(mem[buf(k)].name, 1, 2) = <<n, a>> => Named(k)
             /\ mem[buf(k)].arg = <<n, a, 1>> => Served(k)
  <2>1. FromArgs(mem[buf(k)])
    BY DEF BufferIs
  <2>2. mem[buf(k)].name \in Pointers /\ (mem[buf(k)].arg # NULL => mem[buf(k)].arg \in Pointers)
    BY <2>1 DEF FromArgs
  <2>3. SubSeq(mem[buf(k)].name, 1, 2) = <<n, a>> => Named(k)
    BY <2>2, PairIs
  <2>4. mem[buf(k)].arg = <<n, a, 1>> => Served(k)
    <3> SUFFICES ASSUME mem[buf(k)].arg = <<n, a, 1>> PROVE Served(k)
      OBVIOUS
    <3>1. mem[buf(k)].arg # NULL
      BY DEF NULL
    <3>2. QED
      BY <2>2, <3>1, PairIs DEF Detaches
  <2>5. QED
    BY <2>3, <2>4
<1>2. nonop_args.args \in Seq(Nat) /\ DOMAIN nonop_args.args = 1..Len(nonop_args.args)
  BY LenProperties DEF RestIs
<1>3. ASSUME NEW z \in Purposes(n, a)
      PROVE  \/ z = <<"name">> /\ \E k \in 0..op_count - 1 : Named(k)
             \/ \E k \in 0..op_count - 1 : z = <<"arg", k>> /\ Served(k)
             \/ z = <<"rest">> /\ Left
  <2>1. \/ z = <<"name">> /\ \E k \in 0..op_count - 1 : SubSeq(mem[buf(k)].name, 1, 2) = <<n, a>>
        \/ \E k \in 0..op_count - 1 : z = <<"arg", k>> /\ mem[buf(k)].arg = <<n, a, 1>>
        \/ z = <<"rest">> /\ \E k \in DOMAIN nonop_args.args : nonop_args.vec = n /\ nonop_args.args[k] = a
    BY DEF Purposes
  <2>2. QED
    BY <1>1, <1>2, <2>1
<1>4. ASSUME NEW j \in 0..op_count - 1, NEW k \in 0..op_count - 1, Served(k)
      PROVE  ~ Named(j) /\ (Served(j) => j = k)
  <2>1. CASE j = k
    BY <1>4, <2>1 DEF BufferIs, FromArgs, SameArg
  <2>2. CASE j < k
    BY <1>4, <2>2 DEF BufferIs, Apart, SameArg
  <2>3. CASE k < j
    BY <1>4, <2>3 DEF BufferIs, Apart, SameArg
  <2>4. QED
    BY <1>0, <2>1, <2>2, <2>3
<1>5. ASSUME Left, NEW k \in 0..op_count - 1
      PROVE  ~ Named(k) /\ ~ Served(k)
  BY <1>5 DEF RestIs, Unused
<1> HIDE DEF Named, Served, Left
<1>6. QED
  BY <1>3, <1>4, <1>5

LEMMA CommandLineIs ==
  ASSUME TypeOK, Filled, BufferIs, RestIs, Handed
  PROVE  CommandLine
<1>1. InOrder
  <2>1. \A j, k \in 0..op_count - 1 : j < k => Before(mem[buf(j)].name, mem[buf(k)].name)
    BY DEF BufferIs, Apart
  <2>2. nonop_args.args \in Seq(Nat) /\ DOMAIN nonop_args.args = 1..Len(nonop_args.args)
    BY LenProperties DEF RestIs
  <2>3. \A j \in 1..Len(nonop_args.args) : 1 <= j
    OBVIOUS
  <2>4. \A j, k \in DOMAIN nonop_args.args : j < k => nonop_args.args[j] < nonop_args.args[k]
    BY <2>2, <2>3 DEF RestIs, SortedFrom
  <2>5. QED
    BY <2>1, <2>4 DEF InOrder
<1>2. UsedOnce
  <2> SUFFICES ASSUME NEW n \in 1..2, NEW a \in DOMAIN text[n]
               PROVE  Cardinality(Purposes(n, a)) <= 1
    BY DEF UsedOnce
  <2> DEFINE S == Purposes(n, a)
  <2>1. \A x, y \in S : x = y
    BY OnePurpose
  <2> HIDE DEF S
  <2>2. CASE S = {}
    BY <2>2, FS_EmptySet DEF S
  <2>3. ASSUME NEW x \in S
        PROVE  Cardinality(S) <= 1
    <3>1. S = {x}
      BY <2>1
    <3>2. Cardinality(S) = 1
      BY <3>1, FS_Singleton
    <3>3. QED
      BY <3>2
  <2>4. QED
    BY <2>2, <2>3 DEF S
<1>3. pc = "call" => NothingLost
  BY DEF Handed
<1>4. QED
  BY <1>1, <1>2, <1>3 DEF CommandLine

(* With as many options and arguments as there may be, defaults and user's *)
(* vectors rotated by both passes, the program gets the options and the    *)
(* other arguments in the order of the command line, no argument for two   *)
(* purposes, and neither one that is no option nor any that stands behind  *)
(* a "--" is lost.                                                         *)
THEOREM CommandLineKept == Spec => []CommandLine
<1> DEFINE IInv == Sized /\ Filled /\ AsGiven /\ Counted /\ InPlace /\ BufferIs /\ RestIs /\ Handed
<1>1. Init => IInv
  BY SizedInit, FilledInit, AsGivenInit, CountedInit, InPlaceInit, BufferInit, RestInit, HandedInit
<1>2. TypeOK /\ TypeOK' /\ IInv /\ [Next]_vars => IInv'
  BY SizedNext, FilledNext, AsGivenNext, CountedNext, InPlaceNext, BufferNext, RestNext, HandedNext
<1>3. TypeOK /\ IInv => CommandLine
  BY CommandLineIs
<1> HIDE DEF IInv
<1>4. QED
  BY <1>1, <1>2, <1>3, Inductive, PTL DEF Spec

-----------------------------------------------------------------------------
(***************************************************************************)
(* The lists.  Objects that are linked to rings, and what the operations of  *)
(* Option find in them and make of them.                                   *)
(***************************************************************************)

(* The objects A are linked to rings: ring[q] is the one that object q is  *)
(* in, from its first object on, and at[q] the place it has there.         *)
Linked(h, A, ring, at) ==
    /\ ring \in [A -> Seq(A)] /\ at \in [A -> Nat]
    /\ \A q \in A : at[q] \in 1..Len(ring[q]) /\ ring[q][at[q]] = q
    /\ \A q \in A : \A j \in 1..Len(ring[q]) :
          ring[ring[q][j]] = ring[q] /\ at[ring[q][j]] = j
    /\ \A q \in A :
          /\ h[q].next_ = IF at[q] = Len(ring[q]) THEN tag(ring[q][1]) ELSE plain(ring[q][at[q] + 1])
          /\ h[q].prev_ = IF at[q] = 1 THEN tag(ring[q][Len(ring[q])]) ELSE plain(ring[q][at[q] - 1])

(* What the links of an object lead to.                                    *)
LEMMA LinksAre ==
  ASSUME NEW A, NEW h, NEW ring, NEW at, Linked(h, A, ring, at), NEW q \in A
  PROVE  /\ isFirst(h, q) <=> at[q] = 1
         /\ isLast(h, q) <=> at[q] = Len(ring[q])
         /\ untag(h[q].next_) = IF at[q] = Len(ring[q]) THEN ring[q][1] ELSE ring[q][at[q] + 1]
         /\ untag(h[q].prev_) = IF at[q] = 1 THEN ring[q][Len(ring[q])] ELSE ring[q][at[q] - 1]
<1>1. \A a : tag(a)[1] = a /\ tag(a)[2] = 1 /\ plain(a)[1] = a /\ plain(a)[2] = 0
  BY DEF tag, plain
<1> DEFINE s == h[q]
           l == ring[q]
           n == at[q]
<1>2. /\ s.next_ = IF n = Len(l) THEN tag(l[1]) ELSE plain(l[n + 1])
      /\ s.prev_ = IF n = 1 THEN tag(l[Len(l)]) ELSE plain(l[n - 1])
  BY DEF Linked
<1> HIDE DEF s, l, n
<1>3. /\ s.next_[1] = IF n = Len(l) THEN l[1] ELSE l[n + 1]
      /\ s.next_[2] = 1 <=> n = Len(l)
      /\ s.prev_[1] = IF n = 1 THEN l[Len(l)] ELSE l[n - 1]
      /\ s.prev_[2] = 1 <=> n = 1
  BY <1>1, <1>2
<1>4. QED
  BY <1>3 DEF isFirst, isLast, isTagged, untag, s, l, n

(* The object at a place of a ring.                                        *)
LEMMA PlaceIs ==
  ASSUME NEW A, NEW h, NEW ring, NEW at, Linked(h, A, ring, at), NEW q \in A, NEW j \in 1..Len(ring[q])
  PROVE  ring[q][j] \in A /\ ring[ring[q][j]] = ring[q] /\ at[ring[q][j]] = j
<1>1. ring[q] \in Seq(A)
  BY DEF Linked
<1>2. ring[q][j] \in A
  BY <1>1
<1>3. QED
  BY <1>2 DEF Linked

(* What holds of an object if it holds of all with a lower number, holds of*)
(* all objects.                                                            *)
LEMMA Descent ==
  ASSUME NEW A, NEW m, \A q \in A : m[q] \in Nat, NEW T,
         \A q \in A : (\A r \in A : m[r] < m[q] => r \in T) => q \in T
  PROVE  \A q \in A : q \in T
<1> DEFINE S == {m[q] : q \in A \ T}
<1>1. S \in SUBSET Nat
  OBVIOUS
<1>2. CASE S # {}
  <2>1. Least(S) \in S /\ \A y \in S : Least(S) <= y
    BY <1>1, <1>2, LeastIs
  <2>2. PICK q \in A \ T : m[q] = Least(S)
    BY <2>1
  <2>3. PICK r \in A : m[r] < m[q] /\ r \notin T
    BY <2>2
  <2>4. m[r] \in S
    BY <2>3
  <2>5. m[q] <= m[r] /\ m[q] \in Nat /\ m[r] \in Nat
    BY <2>1, <2>2, <2>4
  <2>6. QED
    BY <2>3, <2>5
<1>3. CASE S = {}
  BY <1>3
<1>4. QED
  BY <1>2, <1>3

(* An object that is not the first comes behind the one its link leads to, *)
(* and one that is not the last before it.                                 *)
LEMMA StepBack ==
  ASSUME NEW A, NEW h, NEW ring, NEW at, Linked(h, A, ring, at), NEW q \in A
  PROVE  /\ at[q] \in Nat /\ at[q] >= 1 /\ at[q] <= Len(ring[q]) /\ Len(ring[q]) \in Nat
         /\ IF at[q] = 1 THEN isFirst(h, q) /\ ring[q][1] = q
            ELSE LET r == prevwrap(h, q)
                 IN  ~ isFirst(h, q) /\ r \in A /\ at[r] = at[q] - 1 /\ ring[r] = ring[q]
         /\ IF at[q] = Len(ring[q]) THEN isLast(h, q) /\ ring[q][Len(ring[q])] = q
            ELSE LET r == nextwrap(h, q)
                 IN  ~ isLast(h, q) /\ r \in A /\ at[r] = at[q] + 1 /\ ring[r] = ring[q]
<1>1. at[q] \in Nat /\ at[q] \in 1..Len(ring[q]) /\ ring[q][at[q]] = q /\ Len(ring[q]) \in Nat
  BY DEF Linked
<1>2. at[q] # 1 => at[q] - 1 \in 1..Len(ring[q])
  BY <1>1
<1>3. at[q] # Len(ring[q]) => at[q] + 1 \in 1..Len(ring[q])
  BY <1>1
<1>4. QED
  BY <1>1, <1>2, <1>3, LinksAre, PlaceIs DEF prevwrap, nextwrap

(* first() goes back to the first object of the ring.                      *)
LEMMA FirstIs ==
  ASSUME NEW A, NEW h, DOMAIN h = A, NEW ring, NEW at, Linked(h, A, ring, at), NEW p \in A
  PROVE  first(h, p) = ring[p][1]
<1> DEFINE Is(f) == f = [q \in DOMAIN h |-> IF isFirst(h, q) THEN q ELSE f[untag(h[q].prev_)]]
           F == CHOOSE f : Is(f)
           g == [q \in A |-> ring[q][1]]
           T == {q \in A : F[q] = ring[q][1]}
<1>1. first(h, p) = F[p]
  BY DEF first
<1>2. Is(g)
  <2>1. \A q \in A : g[q] = IF isFirst(h, q) THEN q ELSE g[untag(h[q].prev_)]
    BY StepBack DEF prevwrap
  <2>2. QED
    BY <2>1
<1>3. Is(F)
  BY <1>2
<1> HIDE DEF F
<1>4. \A q \in A : F[q] = IF isFirst(h, q) THEN q ELSE F[prevwrap(h, q)]
  BY <1>3 DEF prevwrap
<1>5. ASSUME NEW q \in A, \A r \in A : at[r] < at[q] => r \in T
      PROVE  q \in T
  <2>1. CASE at[q] = 1
    BY <1>4, <2>1, StepBack
  <2>2. CASE at[q] # 1
    <3> DEFINE r == prevwrap(h, q)
    <3>1. ~ isFirst(h, q) /\ r \in A /\ at[r] = at[q] - 1 /\ ring[r] = ring[q] /\ at[q] \in Nat
      BY <2>2, StepBack
    <3>2. r \in T
      BY <1>5, <3>1
    <3>3. QED
      BY <1>4, <3>1, <3>2
  <2>3. QED
    BY <2>1, <2>2
<1>6. \A q \in A : at[q] \in Nat
  BY StepBack
<1> HIDE DEF T
<1>7. p \in T
  BY <1>5, <1>6, Descent
<1>8. QED
  BY <1>1, <1>7 DEF T

LEMMA LastIs ==
  ASSUME NEW A, NEW h, DOMAIN h = A, NEW ring, NEW at, Linked(h, A, ring, at), NEW p \in A
  PROVE  last(h, p) = ring[p][Len(ring[p])]
<1> DEFINE f == ring[p][1]
<1>1. first(h, p) = f
  BY FirstIs
<1>2. f \in A /\ ring[f] = ring[p] /\ at[f] = 1
  <2>1. 1 \in 1..Len(ring[p])
    BY StepBack
  <2>2. QED
    BY <2>1, PlaceIs
<1> HIDE DEF f
<1>3. prevwrap(h, f) = ring[f][Len(ring[f])]
  BY <1>2, LinksAre DEF prevwrap
<1>4. QED
  BY <1>1, <1>2, <1>3 DEF last

(* count() counts the objects of the ring, if the given one is in use.     *)
LEMMA CountIs ==
  ASSUME NEW A, NEW h, DOMAIN h = A, NEW ring, NEW at, Linked(h, A, ring, at), NEW p \in A
  PROVE  IF valid(h, p) THEN count(h, p) = Len(ring[p]) ELSE count(h, p) = Len(ring[p]) - 1
<1> DEFINE Is(f) == f = [q \in DOMAIN h |-> IF isLast(h, q) THEN 0 ELSE 1 + f[nextwrap(h, q)]]
           F == CHOOSE f : Is(f)
           left(q) == Len(ring[q]) - at[q]
           g == [q \in A |-> left(q)]
           T == {q \in A : F[q] = left(q)}
<1>1. count(h, p) = (IF valid(h, p) THEN 1 ELSE 0) + F[first(h, p)]
  BY DEF count
<1>2. Is(g)
  <2>1. \A q \in A : g[q] = IF isLast(h, q) THEN 0 ELSE 1 + g[nextwrap(h, q)]
    BY StepBack
  <2>2. QED
    BY <2>1
<1>3. Is(F)
  BY <1>2
<1> HIDE DEF F
<1>4. \A q \in A : F[q] = IF isLast(h, q) THEN 0 ELSE 1 + F[nextwrap(h, q)]
  BY <1>3
<1>5. ASSUME NEW q \in A, \A r \in A : g[r] < g[q] => r \in T
      PROVE  q \in T
  <2>1. CASE at[q] = Len(ring[q])
    BY <1>4, <2>1, StepBack
  <2>2. CASE at[q] # Len(ring[q])
    <3> DEFINE r == nextwrap(h, q)
    <3>1. ~ isLast(h, q) /\ r \in A /\ at[r] = at[q] + 1 /\ ring[r] = ring[q] /\ at[q] \in Nat
          /\ Len(ring[q]) \in Nat
      BY <2>2, StepBack
    <3>2. r \in T
      BY <1>5, <3>1
    <3>3. F[q] = 1 + F[r] /\ F[r] = left(r)
      BY <1>4, <3>1, <3>2
    <3>4. F[q] = left(q)
      BY <3>1, <3>3
    <3>5. QED
      BY <3>4
  <2>3. QED
    BY <2>1, <2>2
<1>6. \A q \in A : g[q] \in Nat
  BY StepBack
<1> HIDE DEF T, g
<1>7. \A q \in A : q \in T
  BY <1>5, <1>6, Descent
<1>8. first(h, p) = ring[p][1] /\ ring[p][1] \in A /\ at[ring[p][1]] = 1 /\ ring[ring[p][1]] = ring[p]
      /\ Len(ring[p]) \in Nat
  <2>1. 1 \in 1..Len(ring[p]) /\ Len(ring[p]) \in Nat
    BY StepBack
  <2>2. QED
    BY <2>1, PlaceIs, FirstIs
<1>9. F[first(h, p)] = Len(ring[p]) - 1
  BY <1>7, <1>8 DEF T
<1>10. QED
  BY <1>1, <1>8, <1>9

(* A loop over next() visits the ring from the given object to its end.    *)
LEMMA ForwardIs ==
  ASSUME NEW A, NEW h, DOMAIN h = A, NULL \notin A,
         NEW ring, NEW at, Linked(h, A, ring, at), NEW p \in A, at[p] = 1
  PROVE  Forward(h, p) = ring[p]
<1> DEFINE Is(f) == f = [q \in DOMAIN h |->
                            <<q>> \o (IF next(h, q) = NULL THEN << >> ELSE f[next(h, q)])]
           F == CHOOSE f : Is(f)
           rest(q) == SubSeq(ring[q], at[q], Len(ring[q]))
           left(q) == Len(ring[q]) - at[q]
           g == [q \in A |-> rest(q)]
           m == [q \in A |-> left(q)]
           T == {q \in A : F[q] = rest(q)}
<1>1. Forward(h, p) = F[p]
  BY DEF Forward
<1>2. ASSUME NEW q \in A
      PROVE  IF isLast(h, q) THEN rest(q) = <<q>> /\ next(h, q) = NULL
             ELSE LET r == nextwrap(h, q)
                  IN  /\ next(h, q) = r /\ r # NULL /\ r \in A /\ left(r) < left(q)
                      /\ rest(q) = <<q>> \o rest(r)
  <2> DEFINE l == ring[q]
             n == at[q]
             r == nextwrap(h, q)
  <2>1. l \in Seq(A) /\ n \in 1..Len(l) /\ l[n] = q /\ n \in Nat /\ Len(l) \in Nat
    BY DEF Linked
  <2>2. CASE n = Len(l)
    <3>1. isLast(h, q) /\ next(h, q) = NULL
      BY <2>2, StepBack DEF next
    <3>2. SubSeq(l, n, Len(l)) = <<q>>
      <4> DEFINE s == SubSeq(l, n, Len(l))
                 u == <<q>>
      <4> HIDE DEF l, n
      <4>1. s \in Seq(A) /\ Len(s) = 1 /\ s[1] = q
        BY <2>1, <2>2
      <4>2. u \in Seq(A) /\ Len(u) = 1 /\ u[1] = q
        OBVIOUS
      <4> HIDE DEF s, u
      <4>3. \A i \in 1..1 : s[i] = u[i]
        BY <4>1, <4>2
      <4>4. s = u
        BY <4>1, <4>2, <4>3, SeqEqual
      <4>5. QED
        BY <4>4 DEF s, u
    <3>3. QED
      BY <3>1, <3>2
  <2>3. CASE n # Len(l)
    <3>1. ~ isLast(h, q) /\ r \in A /\ at[r] = n + 1 /\ ring[r] = l
      BY <2>3, StepBack
    <3>2. next(h, q) = r /\ r # NULL
      BY <3>1 DEF next
    <3>3. SubSeq(l, n, Len(l)) = <<q>> \o SubSeq(l, n + 1, Len(l))
      <4>1. n + 1 \in 1..Len(l)
        BY <2>1, <2>3
      <4> HIDE DEF l, n
      <4> DEFINE s == SubSeq(l, n, Len(l))
                 t == SubSeq(l, n + 1, Len(l))
                 u == <<q>> \o t
      <4>2. s \in Seq(A) /\ Len(s) = Len(l) - n + 1 /\ \A i \in 1..Len(s) : s[i] = l[n + i - 1]
        BY <2>1
      <4>3. t \in Seq(A) /\ Len(t) = Len(l) - n /\ \A i \in 1..Len(t) : t[i] = l[n + i]
        BY <2>1, <4>1
      <4>4. u \in Seq(A) /\ Len(u) = Len(l) - n + 1 /\ u[1] = q /\ \A i \in 2..Len(u) : u[i] = t[i - 1]
        <5> HIDE DEF t
        <5>1. QED
          BY <2>1, <4>3
      <4> HIDE DEF s, t, u
      <4>5. \A i \in 1..Len(s) : s[i] = u[i]
        <5>1. ASSUME NEW i \in 1..Len(s) PROVE s[i] = u[i]
          <6>1. CASE i = 1
            BY <2>1, <4>2, <4>4, <6>1
          <6>2. CASE i # 1
            <7>1. i - 1 \in 1..Len(t) /\ i \in 2..Len(u) /\ n + (i - 1) = n + i - 1
              BY <2>1, <4>2, <4>3, <4>4, <6>2
            <7>2. u[i] = l[n + (i - 1)]
              BY <4>3, <4>4, <7>1
            <7>3. QED
              BY <4>2, <7>1, <7>2
          <6>3. QED
            BY <6>1, <6>2
        <5>2. QED
          BY <5>1
      <4>6. s = u
        BY <4>2, <4>4, <4>5, SeqEqual
      <4>7. QED
        BY <4>6 DEF s, t, u
    <3>4. QED
      BY <2>1, <3>1, <3>2, <3>3
  <2>4. QED
    BY <2>2, <2>3
<1> HIDE DEF rest
<1>3. Is(g)
  <2>1. ASSUME NEW q \in A
        PROVE  g[q] = <<q>> \o (IF next(h, q) = NULL THEN << >> ELSE g[next(h, q)])
    <3>1. CASE isLast(h, q)
      <4>1. <<q>> \o << >> = <<q>>
        OBVIOUS
      <4>2. QED
        BY <1>2, <3>1, <4>1
    <3>2. CASE ~ isLast(h, q)
      BY <1>2, <3>2
    <3>3. QED
      BY <3>1, <3>2
  <2>2. QED
    BY <2>1
<1>4. Is(F)
  BY <1>3
<1> HIDE DEF F
<1>5. \A q \in A : F[q] = <<q>> \o (IF next(h, q) = NULL THEN << >> ELSE F[next(h, q)])
  BY <1>4
<1>6. ASSUME NEW q \in A, \A r \in A : m[r] < m[q] => r \in T
      PROVE  q \in T
  <2>1. CASE isLast(h, q)
    <3>1. <<q>> \o << >> = <<q>>
      OBVIOUS
    <3>2. QED
      BY <1>2, <1>5, <2>1, <3>1
  <2>2. CASE ~ isLast(h, q)
    BY <1>2, <1>5, <1>6, <2>2
  <2>3. QED
    BY <2>1, <2>2
<1>7. \A q \in A : m[q] \in Nat
  BY StepBack
<1> HIDE DEF T, m
<1>8. p \in T
  BY <1>6, <1>7, Descent
<1>9. SubSeq(ring[p], 1, Len(ring[p])) = ring[p]
  <2>1. ring[p] \in Seq(A)
    BY DEF Linked
  <2>2. QED
    BY <2>1
<1>10. QED
  BY <1>1, <1>8, <1>9 DEF T, rest

(* One over prev() from the last object visits it backwards.               *)
LEMMA BackwardIs ==
  ASSUME NEW A, NEW h, DOMAIN h = A, NULL \notin A,
         NEW ring, NEW at, Linked(h, A, ring, at), NEW p \in A
  PROVE  Backward(h, p) = Reverse(ring[p])
<1> DEFINE Is(f) == f = [q \in DOMAIN h |->
                            <<q>> \o (IF prev(h, q) = NULL THEN << >> ELSE f[prev(h, q)])]
           F == CHOOSE f : Is(f)
           back(q) == [i \in 1..at[q] |-> ring[q][at[q] - i + 1]]
           g == [q \in A |-> back(q)]
           T == {q \in A : F[q] = back(q)}
<1>1. Backward(h, p) = F[last(h, p)]
  BY DEF Backward
<1>2. ASSUME NEW q \in A
      PROVE  IF isFirst(h, q) THEN back(q) = <<q>> /\ prev(h, q) = NULL
             ELSE LET r == prevwrap(h, q)
                  IN  /\ prev(h, q) = r /\ r # NULL /\ r \in A /\ at[r] < at[q]
                      /\ back(q) = <<q>> \o back(r)
  <2> DEFINE l == ring[q]
             n == at[q]
             r == prevwrap(h, q)
  <2>1. l \in Seq(A) /\ n \in 1..Len(l) /\ l[n] = q /\ n \in Nat /\ Len(l) \in Nat
    BY DEF Linked
  <2>2. CASE n = 1
    <3>1. isFirst(h, q) /\ prev(h, q) = NULL
      BY <2>2, StepBack DEF prev
    <3>2. [i \in 1..n |-> l[n - i + 1]] = <<q>>
      <4> DEFINE s == [i \in 1..n |-> l[n - i + 1]]
                 u == <<q>>
      <4>1. s \in Seq(A) /\ Len(s) = 1 /\ s[1] = q
        <5> HIDE DEF l, n
        <5>1. QED
          BY <2>1, <2>2
      <4>2. u \in Seq(A) /\ Len(u) = 1 /\ u[1] = q
        OBVIOUS
      <4> HIDE DEF s, u
      <4>3. \A i \in 1..1 : s[i] = u[i]
        BY <4>1, <4>2
      <4>4. s = u
        BY <4>1, <4>2, <4>3, SeqEqual
      <4>5. QED
        BY <4>4 DEF s, u
    <3>3. QED
      BY <3>1, <3>2
  <2>3. CASE n # 1
    <3>1. ~ isFirst(h, q) /\ r \in A /\ at[r] = n - 1 /\ ring[r] = l
      BY <2>3, StepBack
    <3>2. prev(h, q) = r /\ r # NULL
      BY <3>1 DEF prev
    <3>3. [i \in 1..n |-> l[n - i + 1]] = <<q>> \o [i \in 1..n - 1 |-> l[n - 1 - i + 1]]
      <4> DEFINE s == [i \in 1..n |-> l[n - i + 1]]
                 t == [i \in 1..n - 1 |-> l[n - 1 - i + 1]]
                 u == <<q>> \o t
      <4> HIDE DEF l, n
      <4>1. s \in Seq(A) /\ Len(s) = n /\ \A i \in 1..n : s[i] = l[n - i + 1]
        BY <2>1
      <4>2. t \in Seq(A) /\ Len(t) = n - 1 /\ \A i \in 1..n - 1 : t[i] = l[n - i]
        BY <2>1, <2>3
      <4>3. u \in Seq(A) /\ Len(u) = n /\ u[1] = q /\ \A i \in 2..n : u[i] = t[i - 1]
        <5> HIDE DEF t
        <5>1. QED
          BY <2>1, <4>2
      <4> HIDE DEF s, t, u
      <4>4. ASSUME NEW i \in 1..n PROVE s[i] = u[i]
        <5>1. CASE i = 1
          BY <2>1, <4>1, <4>3, <5>1
        <5>2. CASE i # 1
          <6>1. i - 1 \in 1..n - 1 /\ i \in 2..n /\ n - (i - 1) = n - i + 1
            BY <2>1, <5>2
          <6>2. u[i] = l[n - (i - 1)]
            BY <4>2, <4>3, <6>1
          <6>3. QED
            BY <4>1, <6>1, <6>2
        <5>3. QED
          BY <5>1, <5>2
      <4>5. s = u
        BY <4>1, <4>3, <4>4, SeqEqual
      <4>6. QED
        BY <4>5 DEF s, t, u
    <3>4. n - 1 < n
      BY <2>1
    <3>5. QED
      BY <3>1, <3>2, <3>3, <3>4
  <2>4. QED
    BY <2>2, <2>3
<1> HIDE DEF back
<1>3. Is(g)
  <2>1. ASSUME NEW q \in A
        PROVE  g[q] = <<q>> \o (IF prev(h, q) = NULL THEN << >> ELSE g[prev(h, q)])
    <3>1. CASE isFirst(h, q)
      <4>1. <<q>> \o << >> = <<q>>
        OBVIOUS
      <4>2. QED
        BY <1>2, <3>1, <4>1
    <3>2. CASE ~ isFirst(h, q)
      BY <1>2, <3>2
    <3>3. QED
      BY <3>1, <3>2
  <2>2. QED
    BY <2>1
<1>4. Is(F)
  BY <1>3
<1> HIDE DEF F
<1>5. \A q \in A : F[q] = <<q>> \o (IF prev(h, q) = NULL THEN << >> ELSE F[prev(h, q)])
  BY <1>4
<1>6. ASSUME NEW q \in A, \A r \in A : at[r] < at[q] => r \in T
      PROVE  q \in T
  <2>1. CASE isFirst(h, q)
    <3>1. <<q>> \o << >> = <<q>>
      OBVIOUS
    <3>2. QED
      BY <1>2, <1>5, <2>1, <3>1
  <2>2. CASE ~ isFirst(h, q)
    BY <1>2, <1>5, <1>6, <2>2
  <2>3. QED
    BY <2>1, <2>2
<1>7. \A q \in A : at[q] \in Nat
  BY StepBack
<1> HIDE DEF T
<1>8. \A q \in A : q \in T
  BY <1>6, <1>7, Descent
<1> DEFINE n == Len(ring[p])
           z == ring[p][n]
<1>9. z \in A /\ ring[z] = ring[p] /\ at[z] = n /\ last(h, p) = z
  <2>1. n \in 1..n
    BY StepBack
  <2>2. QED
    BY <2>1, PlaceIs, LastIs
<1>10. F[z] = back(z)
  BY <1>8, <1>9 DEF T
<1>11. back(z) = [i \in 1..n |-> ring[p][n - i + 1]]
  BY <1>9 DEF back
<1> HIDE DEF z
<1>12. QED
  BY <1>1, <1>9, <1>10, <1>11 DEF Reverse

(* Setting a link changes that link only.                                  *)
NextAs(m, p, x) == [m EXCEPT ![p].next_ = x]
PrevAs(m, p, x) == [m EXCEPT ![p].prev_ = x]

LEMMA NextSet ==
  ASSUME NEW A, NEW m, IsMemory(m, A), NEW p \in A, NEW x, NEW c, c = NextAs(m, p, x)
  PROVE  /\ IsMemory(c, A)
         /\ \A q \in A : /\ c[q].next_ = IF q = p THEN x ELSE m[q].next_
                         /\ c[q].prev_ = m[q].prev_
<1> DEFINE s == m[p]
           r == [s EXCEPT !.next_ = x]
<1>1. IsMemory(c, A)
  BY LinkIs DEF NextAs, PrevAs
<1>2. m = [q \in A |-> m[q]] /\ s = [f \in Fields |-> s[f]]
  BY DEF IsMemory
<1>3. c = [m EXCEPT ![p] = r]
  BY DEF NextAs, PrevAs
<1> HIDE DEF s
<1>4. r.next_ = x /\ r.prev_ = s.prev_
  BY <1>2 DEF Fields
<1> HIDE DEF r
<1>5. \A q \in A : c[q] = IF q = p THEN r ELSE m[q]
  BY <1>2, <1>3
<1>6. \A q \in A : /\ c[q].next_ = IF q = p THEN x ELSE m[q].next_
                   /\ c[q].prev_ = m[q].prev_
  BY <1>4, <1>5 DEF s
<1>7. QED
  BY <1>1, <1>6

LEMMA PrevSet ==
  ASSUME NEW A, NEW m, IsMemory(m, A), NEW p \in A, NEW x, NEW c, c = PrevAs(m, p, x)
  PROVE  /\ IsMemory(c, A)
         /\ \A q \in A : /\ c[q].prev_ = IF q = p THEN x ELSE m[q].prev_
                         /\ c[q].next_ = m[q].next_
<1> DEFINE s == m[p]
           r == [s EXCEPT !.prev_ = x]
<1>1. IsMemory(c, A)
  BY LinkIs DEF NextAs, PrevAs
<1>2. m = [q \in A |-> m[q]] /\ s = [f \in Fields |-> s[f]]
  BY DEF IsMemory
<1>3. c = [m EXCEPT ![p] = r]
  BY DEF NextAs, PrevAs
<1> HIDE DEF s
<1>4. r.prev_ = x /\ r.next_ = s.next_
  BY <1>2 DEF Fields
<1> HIDE DEF r
<1>5. \A q \in A : c[q] = IF q = p THEN r ELSE m[q]
  BY <1>2, <1>3
<1>6. \A q \in A : /\ c[q].prev_ = IF q = p THEN x ELSE m[q].prev_
                   /\ c[q].next_ = m[q].next_
  BY <1>4, <1>5 DEF s
<1>7. QED
  BY <1>1, <1>6

Relinked(h, l, f, new, x1, x2, x3, x4) ==
    [h EXCEPT ![l].next_ = x1, ![new].prev_ = x2, ![new].next_ = x3, ![f].prev_ = x4]

LEMMA LinksSet ==
  ASSUME NEW A, NEW h, IsMemory(h, A), NEW l \in A, NEW f \in A, NEW new \in A, new # l, new # f,
         NEW x1, NEW x2, NEW x3, NEW x4, NEW c, c = Relinked(h, l, f, new, x1, x2, x3, x4)
  PROVE  \A q \in A : /\ c[q].next_ = IF q = new THEN x3 ELSE IF q = l THEN x1 ELSE h[q].next_
                      /\ c[q].prev_ = IF q = f THEN x4 ELSE IF q = new THEN x2 ELSE h[q].prev_
<1> DEFINE m1 == NextAs(h, l, x1)
           m2 == PrevAs(m1, new, x2)
           m3 == NextAs(m2, new, x3)
<1>1. /\ m1 = NextAs(h, l, x1) /\ m2 = PrevAs(m1, new, x2) /\ m3 = NextAs(m2, new, x3)
      /\ c = PrevAs(m3, f, x4)
  BY DEF Relinked, NextAs, PrevAs
<1> HIDE DEF m1, m2, m3
<1>2. /\ IsMemory(m1, A)
      /\ \A q \in A : m1[q].next_ = (IF q = l THEN x1 ELSE h[q].next_) /\ m1[q].prev_ = h[q].prev_
  BY <1>1, NextSet
<1>3. /\ IsMemory(m2, A)
      /\ \A q \in A : m2[q].prev_ = (IF q = new THEN x2 ELSE m1[q].prev_) /\ m2[q].next_ = m1[q].next_
  BY <1>1, <1>2, PrevSet
<1>4. /\ IsMemory(m3, A)
      /\ \A q \in A : m3[q].next_ = (IF q = new THEN x3 ELSE m2[q].next_) /\ m3[q].prev_ = m2[q].prev_
  BY <1>1, <1>3, NextSet
<1>5. \A q \in A : c[q].prev_ = (IF q = f THEN x4 ELSE m3[q].prev_) /\ c[q].next_ = m3[q].next_
  BY <1>1, <1>4, PrevSet
<1>6. QED
  BY <1>2, <1>3, <1>4, <1>5

(* append() puts a new object behind the last one of a ring.               *)
Joined(ring, p, new) ==
    [q \in DOMAIN ring |-> IF ring[q] = ring[p] \/ q = new THEN Append(ring[p], new) ELSE ring[q]]

LEMMA AppendLinks ==
  ASSUME NEW A, NEW h, DOMAIN h = A, IsMemory(h, A), NEW ring, NEW at, Linked(h, A, ring, at),
         NEW p \in A, NEW new \in A, ring[new] = <<new>>, ring[p] # <<new>>
  PROVE  Linked(append(h, p, new), A, Joined(ring, p, new), [at EXCEPT ![new] = Len(ring[p]) + 1])
<1> DEFINE s == ring[p]
           n == Len(s)
           l == last(h, p)
           f == first(h, p)
           a == append(h, p, new)
           ring2 == Joined(ring, p, new)
           at2 == [at EXCEPT ![new] = n + 1]
<1>1. /\ s \in Seq(A) /\ n \in Nat \ {0} /\ f = s[1] /\ l = s[n]
      /\ f \in A /\ l \in A /\ ring[f] = s /\ ring[l] = s /\ at[f] = 1 /\ at[l] = n
  <2>1. s \in Seq(A) /\ n \in Nat /\ n >= 1
    <3>1. s \in Seq(A)
      BY DEF Linked
    <3>2. at[p] \in Nat /\ at[p] >= 1 /\ at[p] <= n /\ n \in Nat
      BY StepBack
    <3>3. QED
      BY <3>1, <3>2
  <2>3. 1 \in 1..n /\ n \in 1..n
    BY <2>1
  <2>4. f = s[1] /\ l = s[n]
    BY FirstIs, LastIs
  <2> HIDE DEF f, l
  <2>5. f \in A /\ ring[f] = s /\ at[f] = 1
    BY <2>3, <2>4, PlaceIs
  <2>6. l \in A /\ ring[l] = s /\ at[l] = n
    BY <2>3, <2>4, PlaceIs
  <2>7. QED
    BY <2>1, <2>4, <2>5, <2>6
<1>2. at[new] = 1 /\ new # f /\ new # l
  <2>1. at[new] \in 1..Len(ring[new])
    BY DEF Linked
  <2>2. at[new] = 1
    BY <2>1
  <2> HIDE DEF s, n, l, f
  <2>3. ring[new] # s
    BY DEF s
  <2>4. QED
    BY <1>1, <2>2, <2>3
<1>3. \A q \in A : ring[q] = <<new>> => q = new
  <2> SUFFICES ASSUME NEW q \in A, ring[q] = <<new>> PROVE q = new
    OBVIOUS
  <2>1. Len(ring[q]) = 1 /\ ring[q][1] = new
    OBVIOUS
  <2>2. at[q] \in 1..Len(ring[q]) /\ ring[q][at[q]] = q
    BY DEF Linked
  <2>3. at[q] = 1
    BY <2>1, <2>2
  <2>4. QED
    BY <2>1, <2>2, <2>3
<1>4. ASSUME NEW q \in A
      PROVE  /\ a[q].next_ = IF q = new THEN tag(f) ELSE IF q = l THEN plain(new) ELSE h[q].next_
             /\ a[q].prev_ = IF q = new THEN plain(l) ELSE IF q = f THEN tag(new) ELSE h[q].prev_
  <2> DEFINE x1 == plain(new)
             x2 == plain(l)
             x3 == tag(f)
             x4 == tag(new)
  <2>1. a = Relinked(h, l, f, new, x1, x2, x3, x4)
    BY DEF append, Relinked
  <2> HIDE DEF l, f, a, x1, x2, x3, x4
  <2>2. /\ a[q].next_ = IF q = new THEN x3 ELSE IF q = l THEN x1 ELSE h[q].next_
        /\ a[q].prev_ = IF q = f THEN x4 ELSE IF q = new THEN x2 ELSE h[q].prev_
    BY <1>1, <1>2, <2>1, LinksSet
  <2>3. QED
    BY <1>2, <2>2 DEF x1, x2, x3, x4
<1> DEFINE t == Append(s, new)
<1>5. /\ t \in Seq(A) /\ Len(t) = n + 1 /\ t[n + 1] = new /\ \A j \in 1..n : t[j] = s[j]
  BY <1>1
<1>6. ASSUME NEW q \in A
      PROVE  /\ ring2[q] = IF ring[q] = s \/ q = new THEN t ELSE ring[q]
             /\ at2[q] = IF q = new THEN n + 1 ELSE at[q]
             /\ ring[q] \in Seq(A) /\ at[q] \in Nat /\ at[q] \in 1..Len(ring[q]) /\ ring[q][at[q]] = q
  BY DEF Linked, Joined
<1>7. DOMAIN ring2 = A /\ ring2 = [q \in A |-> ring2[q]] /\ at2 = [q \in A |-> at2[q]]
  BY DEF Linked, Joined
<1>8. ASSUME NEW q \in A, NEW j \in 1..Len(ring[q])
      PROVE  /\ ring[q][j] \in A /\ ring[ring[q][j]] = ring[q] /\ at[ring[q][j]] = j
             /\ q # new => ring[q][j] # new
  <2>1. ring[q][j] \in A /\ ring[ring[q][j]] = ring[q] /\ at[ring[q][j]] = j
    BY PlaceIs
  <2>2. QED
    BY <1>3, <2>1
<1>9. s # <<new>> /\ ring[p] = s /\ p # new
  OBVIOUS
<1>10. ASSUME NEW q \in A
       PROVE  /\ h[q].next_ = IF at[q] = Len(ring[q]) THEN tag(ring[q][1]) ELSE plain(ring[q][at[q] + 1])
              /\ h[q].prev_ = IF at[q] = 1 THEN tag(ring[q][Len(ring[q])]) ELSE plain(ring[q][at[q] - 1])
  BY DEF Linked
<1> HIDE DEF s, n, l, f, a, ring2, at2, t
<1>11. ring2 \in [A -> Seq(A)] /\ at2 \in [A -> Nat]
  <2>1. \A q \in A : ring2[q] \in Seq(A) /\ at2[q] \in Nat
    BY <1>1, <1>5, <1>6
  <2>2. QED
    BY <1>7, <2>1
<1>12. ASSUME NEW q \in A
       PROVE  /\ at2[q] \in 1..Len(ring2[q]) /\ ring2[q][at2[q]] = q
              /\ \A j \in 1..Len(ring2[q]) : ring2[ring2[q][j]] = ring2[q] /\ at2[ring2[q][j]] = j
              /\ a[q].next_ = IF at2[q] = Len(ring2[q]) THEN tag(ring2[q][1])
                              ELSE plain(ring2[q][at2[q] + 1])
              /\ a[q].prev_ = IF at2[q] = 1 THEN tag(ring2[q][Len(ring2[q])])
                              ELSE plain(ring2[q][at2[q] - 1])
  <2>1. CASE ring[q] = s \/ q = new
    <3>1. ring2[q] = t
      BY <1>6, <2>1
    <3>2. \A j \in 1..n : s[j] \in A /\ ring[s[j]] = s /\ at[s[j]] = j /\ s[j] # new
      BY <1>1, <1>8, <1>9 DEF n
    <3>3. ASSUME NEW j \in 1..n + 1
          PROVE  ring2[t[j]] = t /\ at2[t[j]] = j
      <4>1. CASE j = n + 1
        BY <1>5, <1>6, <4>1
      <4>2. CASE j # n + 1
        <5>1. j \in 1..n
          BY <1>1, <4>2
        <5>2. QED
          BY <1>5, <1>6, <3>2, <5>1
      <4>3. QED
        BY <4>1, <4>2
    <3>4. CASE q = new
      <4>1. at2[q] = n + 1
        BY <1>6, <3>4
      <4>2. n + 1 \in 1..n + 1 /\ n + 1 # 1 /\ n + 1 - 1 = n /\ n \in 1..n /\ 1 \in 1..n
        BY <1>1
      <4>3. t[1] = f /\ t[n] = l
        BY <1>1, <1>5, <4>2
      <4>4. QED
        BY <1>4, <1>5, <3>1, <3>3, <3>4, <4>1, <4>2, <4>3
    <3>5. CASE q # new
      <4>1. ring[q] = s /\ at2[q] = at[q] /\ at[q] \in 1..n /\ s[at[q]] = q /\ at[q] \in Nat
        BY <1>6, <2>1, <3>5 DEF n
      <4>2. at[q] \in 1..n + 1 /\ at[q] # n + 1 /\ t[at[q]] = q
        BY <1>1, <1>5, <4>1
      <4>3. q = l <=> at[q] = n
        BY <1>1, <4>1
      <4>4. q = f <=> at[q] = 1
        BY <1>1, <4>1
      <4>5. a[q].next_ = plain(t[at[q] + 1])
        <5>1. CASE at[q] = n
          BY <1>4, <1>5, <3>5, <4>3, <5>1
        <5>2. CASE at[q] # n
          <6>1. at[q] + 1 \in 1..n
            BY <1>1, <4>1, <5>2
          <6>2. h[q].next_ = plain(s[at[q] + 1])
            BY <1>10, <4>1, <5>2 DEF n
          <6>3. QED
            BY <1>4, <1>5, <3>5, <4>3, <5>2, <6>1, <6>2
        <5>3. QED
          BY <5>1, <5>2
      <4>6. a[q].prev_ = IF at[q] = 1 THEN tag(t[n + 1]) ELSE plain(t[at[q] - 1])
        <5>1. CASE at[q] = 1
          BY <1>4, <1>5, <3>5, <4>4, <5>1
        <5>2. CASE at[q] # 1
          <6>1. at[q] - 1 \in 1..n
            BY <1>1, <4>1, <5>2
          <6>2. h[q].prev_ = plain(s[at[q] - 1])
            BY <1>10, <4>1, <5>2 DEF n
          <6>3. QED
            BY <1>4, <1>5, <3>5, <4>4, <5>2, <6>1, <6>2
        <5>3. QED
          BY <5>1, <5>2
      <4>7. QED
        BY <1>5, <3>1, <3>3, <4>1, <4>2, <4>5, <4>6
    <3>6. QED
      BY <3>4, <3>5
  <2>2. CASE ring[q] # s /\ q # new
    <3>1. ring2[q] = ring[q] /\ at2[q] = at[q]
      BY <1>6, <2>2
    <3>2. ASSUME NEW j \in 1..Len(ring[q])
          PROVE  ring2[ring[q][j]] = ring[q] /\ at2[ring[q][j]] = j
      <4> DEFINE r == ring[q][j]
      <4>1. r \in A /\ ring[r] = ring[q] /\ at[r] = j /\ r # new
        BY <1>8, <2>2
      <4> HIDE DEF r
      <4>2. ring2[r] = ring[r] /\ at2[r] = at[r]
        BY <1>6, <2>2, <4>1
      <4>3. QED
        BY <4>1, <4>2 DEF r
    <3>3. q # l /\ q # f
      BY <1>1, <2>2
    <3>4. a[q].next_ = h[q].next_ /\ a[q].prev_ = h[q].prev_
      BY <1>4, <2>2, <3>3
    <3>5. QED
      BY <1>6, <1>10, <3>1, <3>2, <3>4
  <2>3. QED
    BY <2>1, <2>2
<1>13. Linked(a, A, ring2, at2)
  BY <1>11, <1>12 DEF Linked
<1>14. QED
  BY <1>13 DEF a, ring2, at2, n, s

(* Assignment to an object that is alone in its ring keeps the rings.      *)
LEMMA CopiedLinks ==
  ASSUME NEW A, NEW h, IsMemory(h, A), NEW ring, NEW at, Linked(h, A, ring, at),
         NEW p \in A, ring[p] = <<p>>, NEW o
  PROVE  Linked(Copied(h, p, o), A, ring, at)
<1> DEFINE x == init(p, o.desc, o.name, o.arg)
           c == Copied(h, p, o)
<1>1. x.next_ = tag(p) /\ x.prev_ = tag(p)
  BY DEF init
<1>2. c = [h EXCEPT ![p] = x]
  BY DEF Copied
<1>3. h = [q \in A |-> h[q]]
  BY DEF IsMemory
<1> HIDE DEF x, c
<1>4. c[p] = x /\ \A q \in A : q # p => c[q] = h[q]
  BY <1>2, <1>3
<1>5. at[p] = 1 /\ Len(ring[p]) = 1 /\ ring[p][1] = p
  <2>1. at[p] \in 1..Len(ring[p])
    BY DEF Linked
  <2>2. QED
    BY <2>1
<1>6. ASSUME NEW q \in A
      PROVE  /\ c[q].next_ = IF at[q] = Len(ring[q]) THEN tag(ring[q][1]) ELSE plain(ring[q][at[q] + 1])
             /\ c[q].prev_ = IF at[q] = 1 THEN tag(ring[q][Len(ring[q])]) ELSE plain(ring[q][at[q] - 1])
  <2>1. CASE q = p
    BY ONLY <1>1, <1>4, <1>5, <2>1
  <2>2. CASE q # p
    BY <1>4, <2>2 DEF Linked
  <2>3. QED
    BY <2>1, <2>2
<1>7. Linked(c, A, ring, at)
  BY <1>6 DEF Linked
<1>8. QED
  BY <1>7 DEF c

-----------------------------------------------------------------------------
(***************************************************************************)
(* The rings of the arrays are the lists: each one that begins in options[] *)
(* follows the buffer.                                                     *)
(***************************************************************************)

(* The list of index i is l, if the first n slots of the buffer are in use:*)
(* it has an object for each option of that index, the one in options[]    *)
(* standing for the first.                                                 *)
Follows(m, n, i, l) ==
    LET mine == SlotsOf(m, n, i)
    IN  IF mine = {} THEN l = <<opt(i)>> /\ ~ valid(m, opt(i))
        ELSE \E s \in Seq(Nat) :
               /\ Len(s) = Len(l) /\ Len(s) >= 1
               /\ \A j, k \in 1..Len(s) : j < k => s[j] < s[k]
               /\ mine = {s[k] : k \in 1..Len(s)}
               /\ l[1] = opt(i) /\ \A k \in 2..Len(s) : l[k] = buf(s[k])
               /\ SameOption(m[opt(i)], m[buf(s[1])])

ListsIn(m, n) ==
    \E ring, at :
       /\ Linked(m, Allocated, ring, at)
       /\ \A k \in n..Room - 1 : ring[buf(k)] = <<buf(k)>>
       /\ \A i \in Indices : Follows(m, n, i, ring[opt(i)])

(* Each list begins in options[].                                          *)
LEMMA FollowsHead ==
  ASSUME NEW m, NEW n, NEW i, NEW l, Follows(m, n, i, l)
  PROVE  l[1] = opt(i)
BY DEF Follows

(* Memory c has another option in slot n.                                  *)
Longer(m, c, n, o) ==
    SameOption(c[buf(n)], o) /\ \A k \in 0..n - 1 : SameOption(c[buf(k)], m[buf(k)])

(* A list is then as before or one longer.                                 *)
LEMMA MineIs ==
  ASSUME NEW m, NEW c, NEW n \in Nat, NEW o, Longer(m, c, n, o), NEW i
  PROVE  \A k : k \in SlotsOf(c, n + 1, i) <=>
                k \in SlotsOf(m, n, i) \/ (k = n /\ usage[o.desc].index = i)
<1> SUFFICES ASSUME NEW k
             PROVE  k \in SlotsOf(c, n + 1, i) <=>
                    k \in SlotsOf(m, n, i) \/ (k = n /\ usage[o.desc].index = i)
  OBVIOUS
<1>1. k \in 0..n <=> k \in 0..n - 1 \/ k = n
  OBVIOUS
<1>2. k \in 0..n - 1 => c[buf(k)].desc = m[buf(k)].desc /\ k # n
  BY DEF Longer, SameOption
<1>3. c[buf(n)].desc = o.desc
  BY DEF Longer, SameOption
<1>4. k \in SlotsOf(m, n, i) <=> k \in 0..n - 1 /\ usage[m[buf(k)].desc].index = i
  BY DEF SlotsOf
<1>5. k \in SlotsOf(c, n + 1, i) <=> k \in 0..n /\ usage[c[buf(k)].desc].index = i
  BY DEF SlotsOf
<1>6. QED
  BY <1>1, <1>2, <1>3, <1>4, <1>5

LEMMA FollowsStill ==
  ASSUME NEW m, NEW c, NEW n \in Nat, NEW o, Longer(m, c, n, o), NEW i, usage[o.desc].index # i, SameOption(c[opt(i)], m[opt(i)]),
         NEW l, Follows(m, n, i, l)
  PROVE  Follows(c, n + 1, i, l)
<1>0. \A k : k \in SlotsOf(c, n + 1, i) <=>
             k \in SlotsOf(m, n, i) \/ (k = n /\ usage[o.desc].index = i)
  BY MineIs
<1>1. SlotsOf(c, n + 1, i) = SlotsOf(m, n, i)
  BY <1>0
<1>2. CASE SlotsOf(m, n, i) = {}
  BY <1>1, <1>2 DEF Follows, valid, SameOption
<1>3. CASE SlotsOf(m, n, i) # {}
  <2>1. PICK s \in Seq(Nat) :
               /\ Len(s) = Len(l) /\ Len(s) >= 1
               /\ \A j, k \in 1..Len(s) : j < k => s[j] < s[k]
               /\ SlotsOf(m, n, i) = {s[k] : k \in 1..Len(s)}
               /\ l[1] = opt(i) /\ \A k \in 2..Len(s) : l[k] = buf(s[k])
               /\ SameOption(m[opt(i)], m[buf(s[1])])
    BY <1>3 DEF Follows
  <2>2. s[1] \in SlotsOf(m, n, i)
    BY <2>1
  <2>3. SameOption(c[buf(s[1])], m[buf(s[1])])
    BY <2>2 DEF SlotsOf, Longer
  <2>4. SameOption(c[opt(i)], c[buf(s[1])])
    BY <2>1, <2>3 DEF SameOption
  <2>5. QED
    BY <1>1, <1>3, <2>1, <2>4 DEF Follows
<1>4. QED
  BY <1>2, <1>3

(* The list of the new option's index gets one longer, or begins.          *)
LEMMA FollowsMore ==
  ASSUME NEW m, NEW c, NEW n \in Nat, NEW o, Longer(m, c, n, o), NEW i, usage[o.desc].index = i, SlotsOf(m, n, i) # {}, SameOption(c[opt(i)], m[opt(i)]),
         NEW A, NEW l \in Seq(A), buf(n) \in A, Follows(m, n, i, l)
  PROVE  Follows(c, n + 1, i, Append(l, buf(n)))
<1>0. \A k : k \in SlotsOf(c, n + 1, i) <=>
             k \in SlotsOf(m, n, i) \/ (k = n /\ usage[o.desc].index = i)
  BY MineIs
<1>1. \A k : k \in SlotsOf(c, n + 1, i) <=> k \in SlotsOf(m, n, i) \/ k = n
  BY <1>0
<1>2. PICK s \in Seq(Nat) :
               /\ Len(s) = Len(l) /\ Len(s) >= 1
               /\ \A j, k \in 1..Len(s) : j < k => s[j] < s[k]
               /\ SlotsOf(m, n, i) = {s[k] : k \in 1..Len(s)}
               /\ l[1] = opt(i) /\ \A k \in 2..Len(s) : l[k] = buf(s[k])
               /\ SameOption(m[opt(i)], m[buf(s[1])])
  BY DEF Follows
<1> DEFINE t == Append(s, n)
           b == Append(l, buf(n))
           u == Len(s)
<1>3. /\ t \in Seq(Nat) /\ Len(t) = u + 1 /\ t[u + 1] = n /\ \A k \in 1..u : t[k] = s[k]
      /\ u \in Nat /\ u >= 1
  BY <1>2
<1>4. Len(b) = u + 1 /\ b[u + 1] = buf(n) /\ \A k \in 1..u : b[k] = l[k]
  BY <1>2
<1> HIDE DEF t, b, u
<1>5. \A k \in 1..u : s[k] \in SlotsOf(m, n, i) /\ s[k] \in 0..n - 1
  BY <1>2 DEF SlotsOf, u
<1>6. ASSUME NEW j \in 1..u + 1, NEW k \in 1..u + 1, j < k
      PROVE  t[j] < t[k]
  <2>1. j \in 1..u
    BY <1>3, <1>6
  <2>2. CASE k = u + 1
    BY <1>3, <1>5, <2>1, <2>2
  <2>3. CASE k # u + 1
    <3>1. k \in 1..u
      BY <1>3, <2>3
    <3>2. QED
      BY <1>2, <1>3, <1>6, <2>1, <3>1 DEF u
  <2>4. QED
    BY <2>2, <2>3
<1>7. SlotsOf(c, n + 1, i) = {t[k] : k \in 1..u + 1}
  <2>1. ASSUME NEW k \in SlotsOf(c, n + 1, i) PROVE k \in {t[j] : j \in 1..u + 1}
    <3>1. CASE k = n
      BY <1>3, <3>1
    <3>2. CASE k \in SlotsOf(m, n, i)
      <4>1. PICK j \in 1..u : k = s[j]
        BY <1>2, <3>2 DEF u
      <4>2. j \in 1..u + 1 /\ t[j] = k
        BY <1>3, <4>1
      <4>3. QED
        BY <4>2
    <3>3. QED
      BY <1>1, <3>1, <3>2
  <2>2. ASSUME NEW j \in 1..u + 1 PROVE t[j] \in SlotsOf(c, n + 1, i)
    <3>1. CASE j = u + 1
      BY <1>1, <1>3, <3>1
    <3>2. CASE j # u + 1
      <4>1. j \in 1..u
        BY <1>3, <3>2
      <4>2. QED
        BY <1>1, <1>3, <1>5, <4>1
    <3>3. QED
      BY <3>1, <3>2
  <2>3. QED
    BY <2>1, <2>2
<1>8. ASSUME NEW k \in 2..u + 1 PROVE b[k] = buf(t[k])
  <2>1. CASE k = u + 1
    BY <1>3, <1>4, <2>1
  <2>2. CASE k # u + 1
    <3>1. k \in 2..u /\ k \in 1..u
      BY <1>3, <2>2
    <3>2. QED
      BY <1>2, <1>3, <1>4, <3>1 DEF u
  <2>3. QED
    BY <2>1, <2>2
<1>9. 1 \in 1..u /\ t[1] = s[1] /\ b[1] = opt(i)
  BY <1>2, <1>3, <1>4
<1>10. SameOption(c[opt(i)], c[buf(t[1])])
  <2>1. SameOption(c[buf(s[1])], m[buf(s[1])])
    BY <1>5, <1>9 DEF Longer
  <2>2. QED
    BY <1>2, <1>9, <2>1 DEF SameOption
<1>11. SlotsOf(c, n + 1, i) # {}
  BY <1>1
<1>12. Follows(c, n + 1, i, b)
  <2> DEFINE S == SlotsOf(c, n + 1, i)
  <2>1. Len(t) = u + 1 /\ Len(b) = u + 1 /\ u + 1 >= 1
    BY <1>3, <1>4
  <2>2. S # {} /\ S = {t[k] : k \in 1..Len(t)}
    BY <1>7, <1>11, <2>1
  <2>3. \A j, k \in 1..Len(t) : j < k => t[j] < t[k]
    BY <1>6, <2>1
  <2>4. \A k \in 2..Len(t) : b[k] = buf(t[k])
    BY <1>8, <2>1
  <2> HIDE DEF S
  <2>5. \E s0 \in Seq(Nat) :
               /\ Len(s0) = Len(b) /\ Len(s0) >= 1
               /\ \A j, k \in 1..Len(s0) : j < k => s0[j] < s0[k]
               /\ S = {s0[k] : k \in 1..Len(s0)}
               /\ b[1] = opt(i) /\ \A k \in 2..Len(s0) : b[k] = buf(s0[k])
               /\ SameOption(c[opt(i)], c[buf(s0[1])])
    <3> t \in Seq(Nat)
      BY <1>3
    <3> WITNESS t \in Seq(Nat)
    <3>1. QED
      BY <1>9, <1>10, <2>1, <2>2, <2>3, <2>4
  <2>6. QED
    BY <2>2, <2>5 DEF Follows, S
<1>13. QED
  BY <1>12 DEF b

LEMMA FollowsFirst ==
  ASSUME NEW m, NEW c, NEW n \in Nat, NEW o, Longer(m, c, n, o), NEW i, usage[o.desc].index = i, SlotsOf(m, n, i) = {}, SameOption(c[opt(i)], o)
  PROVE  Follows(c, n + 1, i, <<opt(i)>>)
<1>0. \A k : k \in SlotsOf(c, n + 1, i) <=>
             k \in SlotsOf(m, n, i) \/ (k = n /\ usage[o.desc].index = i)
  BY MineIs
<1>1. \A k : k \in SlotsOf(c, n + 1, i) <=> k = n
  BY <1>0
<1> DEFINE t == <<n>>
           l == <<opt(i)>>
<1>2. t \in Seq(Nat) /\ Len(t) = 1 /\ t[1] = n /\ Len(l) = 1 /\ l[1] = opt(i)
  OBVIOUS
<1> HIDE DEF t, l
<1>3. \A j, k \in 1..Len(t) : j < k => t[j] < t[k]
  BY <1>2
<1>4. SlotsOf(c, n + 1, i) = {t[k] : k \in 1..Len(t)} /\ SlotsOf(c, n + 1, i) # {}
  <2>1. \A k \in 1..Len(t) : t[k] = n
    BY <1>2
  <2>2. 1 \in 1..Len(t)
    BY <1>2
  <2>3. \A k : k \in {t[j] : j \in 1..Len(t)} <=> k = n
    BY <2>1, <2>2
  <2>4. QED
    BY <1>1, <2>3
<1>5. SameOption(c[opt(i)], c[buf(t[1])])
  BY <1>2 DEF SameOption, Longer
<1>6. \A k \in 2..Len(t) : l[k] = buf(t[k])
  BY <1>2
<1>7. Follows(c, n + 1, i, l)
  BY <1>2, <1>3, <1>4, <1>5, <1>6 DEF Follows
<1>8. QED
  BY <1>7 DEF l

(* What perform() stores is put into the list of its index.                *)
LEMMA StoredLists ==
  ASSUME TypeOK, Sized, Room \in Nat, call > 1, op_count \in Nat, op_count < Room,
         IsMemory(mem, Allocated), InUse(mem, op_count), NEW o, o.desc \in DOMAIN usage,
         ListsIn(mem, op_count)
  PROVE  ListsIn(Stored(mem, o), op_count + 1)
<1> DEFINE i == usage[o.desc].index
           b == buf(op_count)
           h == opt(i)
           n == Copied(mem, b, o)
           s == Stored(mem, o)
           A == Allocated
<1>1. o.desc # 0 /\ i \in Indices /\ usage[o.desc].index = i
  BY UsageType DEF Indices
<1>2. /\ b \in A /\ h \in A /\ h # b
      /\ \A j \in Indices : opt(j) \in A /\ (opt(j) = h <=> j = i) /\ opt(j) # b
      /\ \A k \in 0..Room - 1 : buf(k) \in A /\ buf(k) # h /\ (buf(k) = b <=> k = op_count)
  <2>1. op_count \in 0..Room - 1
    OBVIOUS
  <2>2. \A j \in Indices : j \in 0..options_max - 1
    BY DEF Sized
  <2>3. \A j \in Indices : opt(j) \in A
    BY <2>2 DEF Allocated
  <2>4. \A k \in 0..Room - 1 : buf(k) \in A
    BY DEF Allocated
  <2>5. \A j, k : opt(j) # buf(k) /\ (opt(j) = opt(k) <=> j = k) /\ (buf(j) = buf(k) <=> j = k)
    BY DEF opt, buf
  <2>6. QED
    BY <1>1, <2>1, <2>3, <2>4, <2>5
<1>3. IsMemory(s, A) /\ Longer(mem, s, op_count, o)
  BY StoredIs DEF Longer
<1>4. s = IF valid(n, h) THEN append(n, h, b) ELSE Copied(n, h, o)
  BY DEF Stored
<1>5. b = buf(op_count) /\ h = opt(i)
  OBVIOUS
<1> HIDE DEF s, i, b, h
<1>6. /\ IsMemory(n, A) /\ SameOption(n[b], o)
      /\ \A q \in A : q # b => SameOption(n[q], mem[q])
  BY <1>2, CopiedIs
<1>7. PICK ring, at :
         /\ Linked(mem, A, ring, at)
         /\ \A k \in op_count..Room - 1 : ring[buf(k)] = <<buf(k)>>
         /\ \A j \in Indices : Follows(mem, op_count, j, ring[opt(j)])
  BY DEF ListsIn
<1>8. Linked(n, A, ring, at) /\ ring[b] = <<b>>
  <2>1. ring[b] = <<b>>
    BY <1>5, <1>7
  <2>2. QED
    BY <1>2, <1>7, <2>1, CopiedLinks
<1> HIDE DEF n, A
<1>9. \A j \in Indices : ring[opt(j)][1] = opt(j)
  BY <1>7, FollowsHead
<1>10. \A j \in Indices : j # i => usage[o.desc].index # j
  BY <1>1
<1>11. DOMAIN n = A
  BY <1>6 DEF IsMemory
<1>12. Follows(mem, op_count, i, ring[h])
  BY <1>1, <1>5, <1>7
<1>13. valid(n, h) <=> SlotsOf(mem, op_count, i) # {}
  <2>1. valid(n, h) <=> valid(mem, h)
    BY <1>2, <1>6 DEF valid, SameOption
  <2>2. CASE SlotsOf(mem, op_count, i) = {}
    BY <1>5, <1>12, <2>1, <2>2 DEF Follows
  <2>3. CASE SlotsOf(mem, op_count, i) # {}
    <3>1. PICK t \in Seq(Nat) :
               /\ Len(t) >= 1
               /\ SlotsOf(mem, op_count, i) = {t[k] : k \in 1..Len(t)}
               /\ SameOption(mem[opt(i)], mem[buf(t[1])])
      BY <1>12, <2>3 DEF Follows
    <3>2. t[1] \in 0..op_count - 1
      BY <3>1 DEF SlotsOf
    <3>3. t[1] \in 0..Room - 1 /\ t[1] < op_count
      BY <3>2
    <3>4. valid(mem, buf(t[1]))
      BY <3>3 DEF InUse
    <3>5. QED
      BY <1>5, <2>1, <2>3, <3>1, <3>4 DEF valid, SameOption
  <2>4. QED
    BY <2>2, <2>3
<1>14. ASSUME NEW ring2, NEW at2, Linked(s, A, ring2, at2),
              \A k \in op_count + 1..Room - 1 : ring2[buf(k)] = <<buf(k)>>,
              Follows(s, op_count + 1, i, ring2[h]),
              \A j \in Indices : j # i => ring2[opt(j)] = ring[opt(j)] /\ SameOption(s[opt(j)], mem[opt(j)])
       PROVE  ListsIn(s, op_count + 1)
  <2>1. ASSUME NEW j \in Indices
        PROVE  Follows(s, op_count + 1, j, ring2[opt(j)])
    <3>1. CASE j = i
      BY <1>5, <1>14, <3>1
    <3>2. CASE j # i
      <4>1. Follows(mem, op_count, j, ring2[opt(j)]) /\ SameOption(s[opt(j)], mem[opt(j)])
        BY <1>7, <1>14, <3>2
      <4>2. usage[o.desc].index # j
        BY <1>1, <3>2
      <4>3. QED
        BY <1>3, <4>1, <4>2, FollowsStill
    <3>3. QED
      BY <3>1, <3>2
  <2>2. QED
    BY <1>14, <2>1 DEF ListsIn, A
<1>15. CASE valid(n, h)
  <2> DEFINE ring2 == Joined(ring, h, b)
             at2 == [at EXCEPT ![b] = Len(ring[h]) + 1]
  <2>1. s = append(n, h, b)
    BY <1>4, <1>15
  <2>2. \A q \in A : q # b => SameOption(s[q], mem[q])
    <3>1. \A q \in A : SameOption(s[q], n[q])
      BY <1>6, <2>1, AppendIs
    <3>2. QED
      BY <1>6, <3>1 DEF SameOption
  <2>3. ring[h][1] = h /\ ring[h] # <<b>>
    <3>1. ring[h][1] = h
      BY <1>1, <1>5, <1>9
    <3>2. QED
      BY <1>2, <3>1
  <2>4. Linked(s, A, ring2, at2)
    BY <1>2, <1>6, <1>8, <1>11, <2>1, <2>3, AppendLinks
  <2>5. DOMAIN ring = A /\ ring[h] \in Seq(A)
    BY <1>2, <1>8 DEF Linked
  <2>6. /\ ring2[h] = Append(ring[h], b)
        /\ \A q \in A : q # b /\ ring[q][1] # h => ring2[q] = ring[q]
    BY <1>2, <2>3, <2>5 DEF Joined
  <2> HIDE DEF ring2, at2
  <2>7. \A k \in op_count + 1..Room - 1 : ring2[buf(k)] = <<buf(k)>>
    <3> TAKE k \in op_count + 1..Room - 1
    <3>1. k \in 0..Room - 1 /\ k \in op_count..Room - 1 /\ k # op_count
      OBVIOUS
    <3>2. ring[buf(k)] = <<buf(k)>> /\ buf(k) \in A /\ buf(k) # b /\ buf(k) # h
      BY <1>2, <1>7, <3>1
    <3>3. ring[buf(k)][1] = buf(k)
      BY <3>2
    <3>4. QED
      BY <2>6, <3>2, <3>3
  <2>8. Follows(s, op_count + 1, i, ring2[h])
    <3>1. SameOption(s[opt(i)], mem[opt(i)])
      BY <1>2, <1>5, <2>2
    <3>2. SlotsOf(mem, op_count, i) # {}
      BY <1>13, <1>15
    <3>3. buf(op_count) \in A /\ Follows(mem, op_count, i, ring[h])
      BY <1>2, <1>5, <1>12
    <3>4. Follows(s, op_count + 1, i, Append(ring[h], buf(op_count)))
      BY <1>1, <1>3, <2>5, <3>1, <3>2, <3>3, FollowsMore
    <3>5. QED
      BY <1>5, <2>6, <3>4
  <2>9. \A j \in Indices : j # i => ring2[opt(j)] = ring[opt(j)] /\ SameOption(s[opt(j)], mem[opt(j)])
    BY <1>2, <1>9, <2>2, <2>6
  <2>10. QED
    BY <1>14, <2>4, <2>7, <2>8, <2>9 DEF s
<1>16. CASE ~ valid(n, h)
  <2>1. s = Copied(n, h, o)
    BY <1>4, <1>16
  <2>2. SlotsOf(mem, op_count, i) = {}
    BY <1>13, <1>16
  <2>3. ring[h] = <<h>>
    BY <1>5, <1>12, <2>2 DEF Follows
  <2>4. Linked(s, A, ring, at)
    BY <1>2, <1>6, <1>8, <2>1, <2>3, CopiedLinks
  <2>5. SameOption(s[h], o) /\ \A q \in A : q # h => SameOption(s[q], n[q])
    BY <1>2, <1>6, <2>1, CopiedIs
  <2>6. Follows(s, op_count + 1, i, ring[h])
    <3>1. SameOption(s[opt(i)], o)
      BY <1>5, <2>5
    <3>2. Follows(s, op_count + 1, i, <<opt(i)>>)
      BY <1>1, <1>3, <2>2, <3>1, FollowsFirst
    <3>3. QED
      BY <1>5, <2>3, <3>2
  <2>7. \A j \in Indices : j # i => SameOption(s[opt(j)], mem[opt(j)])
    BY <1>2, <1>6, <2>5 DEF SameOption
  <2>8. \A k \in op_count + 1..Room - 1 : ring[buf(k)] = <<buf(k)>>
    BY <1>7
  <2>9. QED
    BY <1>14, <2>4, <2>6, <2>7, <2>8 DEF s
<1>17. QED
  BY <1>15, <1>16 DEF s

(* Once there are arrays, they hold the lists.                             *)
Lists == ~ (call <= 2 \/ (call = 3 /\ pc = "call")) => ListsIn(mem, op_count)

(* Arrays that stay where they are.                                        *)
LEMMA ListsStay ==
  ASSUME UNCHANGED <<usage, set, buffer_max, options_max>>, ListsIn(mem', op_count')
  PROVE  ListsIn(mem, op_count)'
<1>1. Room' = Room /\ Allocated' = Allocated /\ Indices' = Indices
  BY DEF Room, Allocated, opt, buf, Indices
<1>2. \A i : SlotsOf(mem, op_count, i)' = SlotsOf(mem', op_count', i)
  BY DEF SlotsOf, buf
<1>3. \A i, l : Follows(mem, op_count, i, l)' <=> Follows(mem', op_count', i, l)
  <2> TAKE i, l
  <2>1. SlotsOf(mem, op_count, i)' = SlotsOf(mem', op_count', i)
    BY <1>2
  <2>2. QED
    BY <2>1 DEF Follows, opt, buf
<1>4. QED
  BY <1>1, <1>3 DEF ListsIn, opt, buf

(* The fresh arrays that the first parse() finds.                          *)
LEMMA FreshLists ==
  ASSUME Sized, NEW m, m = [p \in Allocated |-> Option(p)], call > 1
  PROVE  ListsIn(m, 0)
<1> DEFINE A == Allocated
           ring == [q \in A |-> <<q>>]
           at == [q \in A |-> 1]
<1>1. \A q \in A : m[q].next_ = tag(q) /\ m[q].prev_ = tag(q) /\ m[q].desc = 0
  BY DEF Option, init
<1>2. /\ \A q \in A : <<q>> \in Seq(A) /\ Len(<<q>>) = 1 /\ <<q>>[1] = q
  OBVIOUS
<1>3. ring \in [A -> Seq(A)] /\ at \in [A -> Nat]
  OBVIOUS
<1>4. \A q \in A : ring[q] = <<q>> /\ at[q] = 1
  OBVIOUS
<1> HIDE DEF ring, at
<1>5. \A q \in A : at[q] \in 1..Len(ring[q]) /\ ring[q][at[q]] = q
  BY <1>2, <1>4
<1>6. ASSUME NEW q \in A, NEW j \in 1..Len(ring[q])
      PROVE  ring[ring[q][j]] = ring[q] /\ at[ring[q][j]] = j
  BY <1>2, <1>4
<1>7. ASSUME NEW q \in A
      PROVE  /\ m[q].next_ = IF at[q] = Len(ring[q]) THEN tag(ring[q][1]) ELSE plain(ring[q][at[q] + 1])
             /\ m[q].prev_ = IF at[q] = 1 THEN tag(ring[q][Len(ring[q])]) ELSE plain(ring[q][at[q] - 1])
  <2>1. at[q] = 1 /\ Len(ring[q]) = 1 /\ ring[q][1] = q
    BY <1>2, <1>4
  <2>2. QED
    BY <1>1, <2>1
<1>8. Linked(m, A, ring, at)
  BY <1>3, <1>5, <1>6, <1>7 DEF Linked
<1>9. \A k \in 0..Room - 1 : ring[buf(k)] = <<buf(k)>>
  BY <1>4 DEF Allocated
<1>10. ASSUME NEW i \in Indices PROVE Follows(m, 0, i, ring[opt(i)])
  <2>1. opt(i) \in A
    <3>1. i \in 0..options_max - 1
      BY DEF Sized
    <3>2. QED
      BY <3>1 DEF Allocated
  <2>2. SlotsOf(m, 0, i) = {}
    <3>1. \A k : ~ (k \in 0..0 - 1)
      OBVIOUS
    <3>2. QED
      BY <3>1 DEF SlotsOf
  <2>3. ring[opt(i)] = <<opt(i)>> /\ ~ valid(m, opt(i))
    BY <1>1, <1>4, <2>1 DEF valid
  <2>4. QED
    BY <2>2, <2>3 DEF Follows
<1>11. QED
  BY <1>8, <1>9, <1>10 DEF ListsIn

(* What a step of a parse() does to the arrays.                            *)
LEMMA StoreStep ==
  ASSUME TypeOK, Sized, Filled, Counted, call \in 3..4, pc # "call", Next
  PROVE  /\ UNCHANGED <<buffer_max, options_max>>
         /\ \/ UNCHANGED <<mem, op_count>>
            \/ /\ op_count < Room /\ op_count' = op_count + 1
               /\ \E o : o.desc \in DOMAIN usage /\ mem' = Stored(mem, o)
<1>0. call # 5 /\ ~ Count(call) /\ call > 1 /\ Room \in Nat /\ op_count \in Nat
  BY RoomIs DEF Count, Filled
<1>1. CASE stop_at_nonoption \/ end
  BY <1>0, <1>1 DEF stop_at_nonoption, end, return, stats
<1>2. CASE nonoption \/ option \/ terminator
  BY <1>2 DEF nonoption, option, terminator, parser, stats
<1>3. CASE pc = "group"
  <2>1. CASE return(FALSE)
    BY <1>0, <2>1 DEF return, stats
  <2>2. CASE UNCHANGED <<stats, parser>>
    BY <2>2 DEF stats, parser
  <2>3. ASSUME NEW o, Found(o), perform(o)
        PROVE  /\ UNCHANGED <<buffer_max, options_max>>
               /\ \/ UNCHANGED <<mem, op_count>>
                  \/ /\ op_count < Room /\ op_count' = op_count + 1
                     /\ o.desc \in DOMAIN usage /\ mem' = Stored(mem, o)
    <3>1. o.desc \in DOMAIN usage /\ UNCHANGED <<buffer_max, options_max>>
      BY <1>0, <2>3 DEF Found, perform, stats
    <3>2. CASE set.bufmax < 0 \/ op_count < set.bufmax
      <4>1. op_count < Room
        <5>1. CASE set.bufmax < 0
          BY <1>0, <5>1, RoomLeft
        <5>2. CASE ~ (set.bufmax < 0)
          BY <3>2, <5>2 DEF Room
        <5>3. QED
          BY <5>1, <5>2
      <4>2. mem' = Stored(mem, o) /\ op_count' = op_count + 1
        BY <1>0, <2>3, <3>2 DEF perform
      <4>3. QED
        BY <3>1, <4>1, <4>2
    <3>3. CASE ~ (set.bufmax < 0 \/ op_count < set.bufmax)
      BY <1>0, <2>3, <3>1, <3>3 DEF perform
    <3>4. QED
      BY <3>2, <3>3
  <2>4. QED
    BY <1>0, <1>3, <2>1, <2>2, <2>3, GroupStep
<1>4. QED
  BY <1>0, <1>1, <1>2, <1>3
  DEF Next, begin, add, parse, end_of_group, drop, illegal, accept, returned

LEMMA ListsInit == Init => Lists
BY DEF Init, Lists

LEMMA ListsNext == TypeOK /\ Sized /\ Filled /\ Counted /\ Lists /\ [Next]_vars => Lists'
<1> SUFFICES ASSUME TypeOK, Sized, Filled, Counted, Lists, [Next]_vars
             PROVE  Lists'
  OBVIOUS
<1>0. call \in 1..5
  BY DEF TypeOK
<1> DEFINE Fresh == call <= 2 \/ (call = 3 /\ pc = "call")
<1>1. CASE UNCHANGED vars
  <2>1. UNCHANGED <<usage, set, buffer_max, options_max, call, pc, mem, op_count>>
    BY <1>1 DEF vars, stats, parser
  <2>2. CASE Fresh
    BY <2>1, <2>2 DEF Lists
  <2>3. CASE ~Fresh
    <3>1. ListsIn(mem', op_count')
      BY <2>1, <2>3 DEF Lists
    <3>2. QED
      BY <2>1, <3>1, ListsStay DEF Lists
  <2>4. QED
    BY <2>2, <2>3
<1>2. CASE Next /\ call <= 2
  <2>1. pc' # "call" => call' = call
    <3>1. CASE pc = "call"
      BY <1>0, <1>2, <3>1 DEF Next, begin, nonoption, stop_at_nonoption, terminator, option, end, end_of_group, drop,
              illegal, accept, returned, vars
    <3>2. CASE pc # "call"
      BY <1>2, <3>2, CallStep DEF nonoption, Moves
    <3>3. QED
      BY <3>1, <3>2
  <2>2. call' \in {call, call + 1}
    BY <1>2, CallGrows
  <2>3. call' <= 2 \/ (call' = 3 /\ pc' = "call")
    BY <1>0, <1>2, <2>1, <2>2
  <2>4. QED
    BY <2>3 DEF Lists
<1>3. CASE Next /\ call = 3 /\ pc = "call"
  <2> DEFINE m == [p \in Allocated |-> Option(p)]
  <2>1. begin /\ parse
    BY <1>3 DEF Next, begin, add, Count, nonoption, stop_at_nonoption, terminator, option, end,
                end_of_group, drop, illegal, accept, returned
  <2>2. mem' = m /\ UNCHANGED <<usage, set, buffer_max, options_max>>
    BY <1>3, <2>1 DEF begin, parse, stats
  <2>3. op_count' = 0
    BY <1>3, FreshStep
  <2>4. ListsIn(m, 0)
    BY <1>3, FreshLists
  <2> HIDE DEF m
  <2>5. ListsIn(mem', op_count')
    BY <2>2, <2>3, <2>4
  <2>6. QED
    BY <2>2, <2>5, ListsStay DEF Lists
<1>4. CASE Next /\ ~Fresh
  <2>1. ListsIn(mem, op_count) /\ UNCHANGED <<usage, set>>
    BY <1>4, Given DEF Lists
  <2>2. UNCHANGED <<buffer_max, options_max>> /\ ListsIn(mem', op_count')
    <3>1. CASE (call = 4 /\ pc = "call") \/ call = 5
      <4>1. UNCHANGED <<mem, op_count>>
        BY <1>4, <3>1, BetweenSteps
      <4>2. UNCHANGED <<buffer_max, options_max>>
        <5>1. pc = "call"
          BY <3>1 DEF TypeOK
        <5>2. returned \/ parse
          BY <1>4, <3>1, <5>1 DEF Next, begin, add, Count, nonoption, stop_at_nonoption, terminator, option, end,
                                  end_of_group, drop, illegal, accept
        <5>3. QED
          BY <5>2 DEF returned, parse, vars, stats
      <4>3. QED
        BY <2>1, <4>1, <4>2
    <3>2. CASE call \in 3..4 /\ pc # "call"
      <4>1. Room \in Nat /\ op_count \in Nat /\ call > 1 /\ IsMemory(mem, Allocated) /\ InUse(mem, op_count)
        BY <1>4, <3>2, RoomIs DEF Filled
      <4>2. CASE UNCHANGED <<mem, op_count>>
        BY <1>4, <2>1, <3>2, <4>2, StoreStep
      <4>3. ASSUME NEW o, op_count < Room, op_count' = op_count + 1, o.desc \in DOMAIN usage, mem' = Stored(mem, o)
            PROVE  ListsIn(mem', op_count')
        <5>1. ListsIn(Stored(mem, o), op_count + 1)
          BY <2>1, <4>1, <4>3, StoredLists
        <5>2. QED
          BY <4>3, <5>1
      <4>4. QED
        BY <1>4, <3>2, <4>2, <4>3, StoreStep
    <3>3. QED
      BY <1>0, <1>4, <3>1, <3>2
  <2>3. QED
    BY <2>1, <2>2, ListsStay DEF Lists
<1>5. QED
  BY <1>1, <1>2, <1>3, <1>4

-----------------------------------------------------------------------------
(***************************************************************************)
(* What that says of the lists.                                            *)
(***************************************************************************)

(* As many values as places, if they increase.                             *)
LEMMA IncreasingCount ==
  ASSUME NEW s \in Seq(Nat), \A j, k \in 1..Len(s) : j < k => s[j] < s[k], NEW n \in 0..Len(s)
  PROVE  Cardinality({s[k] : k \in 1..n}) = n
<1> DEFINE T == {s[k] : k \in 1..n}
           f == [k \in 1..n |-> s[k]]
<1>1. n \in Nat /\ Len(s) \in Nat /\ \A k \in 1..n : k \in 1..Len(s) /\ s[k] \in Nat
  OBVIOUS
<1>2. f \in [1..n -> T] /\ \A y \in T : \E k \in 1..n : f[k] = y
  OBVIOUS
<1>3. \A j, k \in 1..n : f[j] = f[k] => j = k
  <2> SUFFICES ASSUME NEW j \in 1..n, NEW k \in 1..n, s[j] = s[k] PROVE j = k
    OBVIOUS
  <2>1. ~ (j < k) /\ ~ (k < j)
    BY <1>1
  <2>2. QED
    BY <2>1
<1> HIDE DEF T, f
<1>4. f \in Bijection(1..n, T)
  BY <1>2, <1>3, Fun_IsBij
<1>5. ExistsBijection(1..n, T)
  BY <1>4, Fun_ExistsBij
<1>6. IsFiniteSet(1..n) /\ Cardinality(1..n) = n
  BY <1>1, FS_Interval
<1>7. Cardinality(T) = n
  BY <1>5, <1>6, FS_Bijection
<1>8. QED
  BY <1>7 DEF T

(* The slots up to the n-th one of a list are the first n of the list.     *)
LEMMA PlaceInList ==
  ASSUME NEW s \in Seq(Nat), \A j, k \in 1..Len(s) : j < k => s[j] < s[k], NEW n \in 1..Len(s)
  PROVE  Cardinality({j \in {s[k] : k \in 1..Len(s)} : j <= s[n]}) = n
<1> DEFINE S == {j \in {s[k] : k \in 1..Len(s)} : j <= s[n]}
           T == {s[k] : k \in 1..n}
<1>1. \A k \in 1..Len(s) : s[k] \in Nat /\ (s[k] <= s[n] <=> k <= n)
  OBVIOUS
<1>2. n \in Nat /\ \A k : k \in 1..n <=> k \in 1..Len(s) /\ k <= n
  OBVIOUS
<1>3. S = T
  BY <1>1, <1>2
<1>4. n \in 0..Len(s)
  OBVIOUS
<1> HIDE DEF S
<1>5. Cardinality(T) = n
  BY <1>4, IncreasingCount
<1>6. QED
  BY <1>3, <1>5 DEF S

(* What the rings say of the lists.                                        *)
LEMMA ListsSay ==
  ASSUME TypeOK, Sized, Filled, Lists
  PROVE  ListsFollowBuffer
<1> DEFINE A == Allocated
           Data(o) == <<o.desc, o.name, o.arg>>
<1> SUFFICES ASSUME call >= 3, mem # << >>, NEW i \in Indices
             PROVE  LET mine == SlotsOf(mem, op_count, i)
                        list == Forward(mem, opt(i))
                        Nth(k) == Cardinality({j \in mine : j <= k})
                    IN  IF mine = {} THEN ~ valid(mem, opt(i)) /\ count(mem, opt(i)) = 0
                        ELSE /\ Len(list) = Cardinality(mine)
                             /\ \A k \in mine : Data(mem[list[Nth(k)]]) = Data(mem[buf(k)])
                             /\ Backward(mem, opt(i)) = Reverse(list)
                             /\ \A k \in DOMAIN list :
                                   /\ first(mem, list[k]) = opt(i)
                                   /\ last(mem, list[k]) = list[Len(list)]
                                   /\ count(mem, list[k]) = Len(list)
  BY DEF ListsFollowBuffer
<1>1. /\ ListsIn(mem, op_count) /\ IsMemory(mem, A) /\ op_count \in Nat /\ op_count <= Room
      /\ InUse(mem, op_count) /\ Room \in Nat /\ call > 1
  <2>1. ~ (call <= 2 \/ (call = 3 /\ pc = "call"))
    BY DEF Filled
  <2>2. call \in 1..5
    BY DEF TypeOK
  <2>3. QED
    BY <2>1, <2>2, RoomIs DEF Filled, Lists
<1>2. PICK ring, at :
         /\ Linked(mem, A, ring, at)
         /\ \A j \in Indices : Follows(mem, op_count, j, ring[opt(j)])
  BY <1>1 DEF ListsIn
<1> DEFINE h == opt(i)
           l == ring[h]
           mine == SlotsOf(mem, op_count, i)
<1>3. h \in A /\ NULL \notin A /\ DOMAIN mem = A
  <2>1. i \in 0..options_max - 1
    BY <1>1 DEF Sized
  <2>2. h \in A
    BY <2>1 DEF Allocated
  <2>3. \A j : opt(j) # NULL /\ buf(j) # NULL
    BY DEF opt, buf, NULL
  <2>4. NULL \notin A
    BY <2>3 DEF Allocated
  <2>5. DOMAIN mem = A
    BY <1>1 DEF IsMemory
  <2>6. QED
    BY <2>2, <2>4, <2>5
<1>4. Follows(mem, op_count, i, l)
  BY <1>2
<1> HIDE DEF A, h
<1>5. l \in Seq(A) /\ Len(l) \in Nat /\ DOMAIN l = 1..Len(l) /\ 1 \in 1..Len(l)
  <2>1. l \in Seq(A)
    BY <1>2, <1>3 DEF Linked
  <2>2. at[h] \in Nat /\ at[h] >= 1 /\ at[h] <= Len(l) /\ Len(l) \in Nat
    BY <1>2, <1>3, StepBack
  <2> HIDE DEF l
  <2>3. Len(l) \in Nat /\ DOMAIN l = 1..Len(l)
    BY <2>1, LenProperties
  <2>4. QED
    BY <2>1, <2>2, <2>3
<1>6. l[1] = h /\ at[h] = 1
  <2>1. l[1] = h
    BY <1>4, FollowsHead DEF h
  <2>2. QED
    BY <1>2, <1>3, <1>5, <2>1, PlaceIs
<1>7. Forward(mem, h) = l
  BY <1>2, <1>3, <1>6, ForwardIs
<1>8. Backward(mem, h) = Reverse(l)
  BY <1>2, <1>3, BackwardIs
<1>9. ASSUME NEW k \in 1..Len(l)
      PROVE  /\ l[k] \in A /\ first(mem, l[k]) = h /\ last(mem, l[k]) = l[Len(l)]
             /\ IF valid(mem, l[k]) THEN count(mem, l[k]) = Len(l) ELSE count(mem, l[k]) = Len(l) - 1
  <2>1. l[k] \in A /\ ring[l[k]] = l
    BY <1>2, <1>3, PlaceIs
  <2>2. QED
    <3> DEFINE q == l[k]
    <3>1. q \in A /\ ring[q] = l
      BY <2>1
    <3> HIDE DEF q, l
    <3>2. first(mem, q) = ring[q][1]
      BY <1>2, <1>3, <3>1, FirstIs
    <3>3. last(mem, q) = ring[q][Len(ring[q])]
      BY <1>2, <1>3, <3>1, LastIs
    <3>4. IF valid(mem, q) THEN count(mem, q) = Len(ring[q]) ELSE count(mem, q) = Len(ring[q]) - 1
      BY <1>2, <1>3, <3>1, CountIs
    <3>5. QED
      BY <1>6, <3>1, <3>2, <3>3, <3>4 DEF q, l
<1> HIDE DEF l, mine
<1>10. CASE mine = {}
  <2>1. l = <<h>> /\ ~ valid(mem, h)
    BY <1>4, <1>10 DEF Follows, mine, h
  <2>2. Len(l) = 1 /\ l[1] = h
    BY <2>1
  <2>3. count(mem, h) = 0
    BY <1>5, <1>9, <2>1, <2>2
  <2>4. QED
    BY <1>10, <2>1, <2>3 DEF mine, h
<1>11. CASE mine # {}
  <2>1. PICK s \in Seq(Nat) :
               /\ Len(s) = Len(l) /\ Len(s) >= 1
               /\ \A j, k \in 1..Len(s) : j < k => s[j] < s[k]
               /\ mine = {s[k] : k \in 1..Len(s)}
               /\ l[1] = opt(i) /\ \A k \in 2..Len(s) : l[k] = buf(s[k])
               /\ SameOption(mem[opt(i)], mem[buf(s[1])])
    BY <1>4, <1>11 DEF Follows, mine
  <2>2. Len(l) = Cardinality(mine)
    <3>1. Len(s) \in 0..Len(s)
      BY <1>5, <2>1
    <3>2. Cardinality({s[k] : k \in 1..Len(s)}) = Len(s)
      BY <2>1, <3>1, IncreasingCount
    <3>3. QED
      BY <2>1, <3>2
  <2>3. ASSUME NEW k \in 1..Len(l)
        PROVE  SameOption(mem[l[k]], mem[buf(s[k])])
    <3>1. CASE k = 1
      BY <2>1, <3>1
    <3>2. CASE k # 1
      <4>1. k \in 2..Len(s)
        BY <1>5, <2>1, <3>2
      <4>2. QED
        BY <2>1, <4>1 DEF SameOption
    <3>3. QED
      BY <3>1, <3>2
  <2>4. ASSUME NEW k \in mine
        PROVE  Data(mem[l[Cardinality({j \in mine : j <= k})]]) = Data(mem[buf(k)])
    <3>1. PICK n \in 1..Len(s) : k = s[n]
      BY <2>1
    <3>2. Cardinality({j \in {s[m] : m \in 1..Len(s)} : j <= s[n]}) = n
      BY <2>1, PlaceInList
    <3>3. Cardinality({j \in mine : j <= k}) = n
      BY <2>1, <3>1, <3>2
    <3>4. SameOption(mem[l[n]], mem[buf(k)])
      BY <2>1, <2>3, <3>1
    <3>5. QED
      BY <3>3, <3>4 DEF SameOption
  <2>5. ASSUME NEW k \in 1..Len(l)
        PROVE  valid(mem, l[k])
    <3>1. s[k] \in mine
      BY <2>1
    <3>2. s[k] \in 0..op_count - 1
      BY <3>1 DEF mine, SlotsOf
    <3>3. s[k] \in 0..Room - 1 /\ s[k] < op_count
      BY <1>1, <3>2
    <3>4. valid(mem, buf(s[k]))
      BY <1>1, <3>3 DEF InUse
    <3>5. QED
      BY <2>3, <3>4 DEF valid, SameOption
  <2>6. ASSUME NEW k \in 1..Len(l)
        PROVE  /\ first(mem, l[k]) = h /\ last(mem, l[k]) = l[Len(l)]
               /\ count(mem, l[k]) = Len(l)
    BY <1>5, <1>9, <2>5
  <2>7. QED
    BY <1>5, <1>7, <1>8, <1>11, <2>2, <2>4, <2>6 DEF mine, h
<1>12. QED
  BY <1>10, <1>11

(* The lists that the program gets from a vector of options hold, for each *)
(* index, the options of the buffer that have it, in its order, and can be *)
(* walked and counted from any of their objects, whatever was parsed, how  *)
(* often and into how large a buffer.                                      *)
THEOREM ListsKept == Spec => []ListsFollowBuffer
<1> DEFINE IInv == Sized /\ Filled /\ AsGiven /\ Counted /\ Lists
<1>1. Init => IInv
  BY SizedInit, FilledInit, AsGivenInit, CountedInit, ListsInit
<1>2. TypeOK /\ TypeOK' /\ IInv /\ [Next]_vars => IInv'
  BY SizedNext, FilledNext, AsGivenNext, CountedNext, ListsNext
<1>3. TypeOK /\ IInv => ListsFollowBuffer
  BY ListsSay
<1> HIDE DEF IInv
<1>4. QED
  BY <1>1, <1>2, <1>3, Inductive, PTL DEF Spec

=============================================================================
