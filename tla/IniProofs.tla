------------------------------ MODULE IniProofs ------------------------------
(***************************************************************************)
(* The ini parser and INIReader, for files of any length and buffers of    *)
(* any size: what the handler is told on continuation lines, that it gets  *)
(* names and values stripped, and that INIReader answers with just what    *)
(* the file has.                                                           *)
(***************************************************************************)
EXTENDS INIReader, SequenceTheorems, WellFoundedInduction, TLAPS

USE ConstantsAssumption DEF ConstantsAssumption

-----------------------------------------------------------------------------
(* The smallest and the greatest element of a set of numbers.              *)
LEMMA Smallest ==
  ASSUME NEW S \in SUBSET Nat, S # {}
  PROVE  Min(S) \in S /\ \A y \in S : Min(S) <= y
<1> DEFINE R == {p \in Nat \X Nat : p[1] < p[2]}
<1>1. IsWellFoundedOn(R, Nat)
  BY NatLessThanWellFounded DEF OpToRel
<1>2. \A i, j \in Nat : i < j => <<i, j>> \in R
  OBVIOUS
<1> HIDE DEF R
<1>3. PICK x \in S : \A y \in S : ~ (<<y, x>> \in R)
  BY <1>1, WFMin
<1>4. ASSUME NEW y \in S PROVE x <= y
  <2>1. x \in Nat /\ y \in Nat /\ ~ (<<y, x>> \in R)
    BY <1>3
  <2>2. ~ (y < x)
    BY <1>2, <2>1
  <2>3. QED
    BY <2>1, <2>2
<1>5. QED
  BY <1>4 DEF Min

LEMMA Greatest ==
  ASSUME NEW n \in Nat, NEW S \in SUBSET (0..n), S # {}
  PROVE  Max(S) \in S /\ \A y \in S : y <= Max(S)
<1> DEFINE B == {m \in Nat : \A y \in S : y <= m}
           b == Min(B)
<1>1. b \in Nat /\ (\A y \in S : y <= b) /\ \A m \in Nat : (\A y \in S : y <= m) => b <= m
  <2>1. B \in SUBSET Nat /\ n \in B
    OBVIOUS
  <2>2. Min(B) \in B /\ \A m \in B : Min(B) <= m
    BY <2>1, Smallest
  <2>3. QED
    BY <2>2
<1> HIDE DEF B, b
<1>2. b \in S
  <2> SUFFICES ASSUME b \notin S PROVE FALSE
    OBVIOUS
  <2>1. \A y \in S : y \in Nat /\ y < b
    BY <1>1
  <2>2. b - 1 \in Nat
    <3>1. PICK y \in S : TRUE
      OBVIOUS
    <3>2. QED
      BY <1>1, <2>1, <3>1
  <2>3. \A y \in S : y <= b - 1
    BY <1>1, <2>1
  <2>4. QED
    BY <1>1, <2>2, <2>3
<1>3. \A y \in S : b >= y /\ y \in Nat
  BY <1>1
<1>4. QED
  BY <1>2, <1>3 DEF Max

(* A set of numbers with 0 and the next of each is all of them.            *)
LEMMA Induction ==
  ASSUME NEW T \in SUBSET Nat, 0 \in T, \A n \in T : n + 1 \in T
  PROVE  T = Nat
<1> DEFINE B == Nat \ T
           b == Min(B)
<1> SUFFICES ASSUME B # {} PROVE FALSE
  OBVIOUS
<1>1. b \in B /\ \A y \in B : b <= y
  BY Smallest
<1> HIDE DEF b
<1>2. b \in Nat /\ b # 0 /\ b - 1 \in Nat /\ b - 1 \notin B
  BY <1>1
<1>3. (b - 1) + 1 \in T
  BY <1>2
<1>4. QED
  BY <1>1, <1>2, <1>3

-----------------------------------------------------------------------------
(* A part of a text.                                                       *)
LEMMA PartIs ==
  ASSUME NEW s \in Seq(Characters), NEW m \in 1..Len(s) + 1, NEW n \in 0..Len(s), m <= n + 1
  PROVE  /\ SubSeq(s, m, n) \in Seq(Characters)
         /\ Len(SubSeq(s, m, n)) = n - m + 1
         /\ \A i \in 1..n - m + 1 : SubSeq(s, m, n)[i] = s[m + i - 1]
<1>1. m \in Int /\ n \in Int /\ \A i \in m..n : s[i] \in Characters
  OBVIOUS
<1>2. QED
  BY <1>1, SubSeqProperties

(* rstrip() leaves what comes up to the last character that is no space,   *)
(* lskip() what comes from the first.                                      *)
LEMMA RstripIs ==
  ASSUME NEW s \in Seq(Characters)
  PROVE  /\ rstrip(s) \in Seq(Characters) /\ Len(rstrip(s)) \in 0..Len(s)
         /\ \A i \in 1..Len(rstrip(s)) : rstrip(s)[i] = s[i]
         /\ Len(rstrip(s)) # 0 => s[Len(rstrip(s))] \notin Whitespace
         /\ \A i \in 1..Len(s) : i > Len(rstrip(s)) => s[i] \in Whitespace
<1> DEFINE T == Text(s) \cup {0}
           n == Max(T)
<1>1. /\ T \in SUBSET (0..Len(s)) /\ T # {} /\ Len(s) \in Nat
      /\ \A i \in 1..Len(s) : s[i] \notin Whitespace <=> i \in T
      /\ \A i \in T : i # 0 => s[i] \notin Whitespace
  BY DEF Text
<1>2. n \in T /\ \A y \in T : y <= n
  BY <1>1, Greatest
<1> HIDE DEF T, n
<1>3. n \in 0..Len(s)
  BY <1>1, <1>2
<1>4. /\ SubSeq(s, 1, n) \in Seq(Characters)
      /\ Len(SubSeq(s, 1, n)) = n
      /\ \A i \in 1..n : SubSeq(s, 1, n)[i] = s[i]
  BY <1>3, PartIs
<1>5. rstrip(s) = SubSeq(s, 1, n)
  BY DEF rstrip, n, T
<1>6. \A i \in 1..Len(s) : i > n => s[i] \in Whitespace
  BY <1>1, <1>2, <1>3
<1>7. QED
  BY <1>1, <1>2, <1>3, <1>4, <1>5, <1>6

LEMMA LskipIs ==
  ASSUME NEW s \in Seq(Characters)
  PROVE  /\ lskip(s) \in Seq(Characters)
         /\ \E m \in 0..Len(s) :
               /\ Len(lskip(s)) = Len(s) - m
               /\ \A i \in 1..Len(s) - m : lskip(s)[i] = s[m + i]
               /\ m < Len(s) => s[m + 1] \notin Whitespace
               /\ \A i \in 1..m : s[i] \in Whitespace
<1> DEFINE T == Text(s) \cup {Len(s) + 1}
           n == Min(T)
<1>1. /\ T \in SUBSET Nat /\ T # {} /\ Len(s) \in Nat /\ \A i \in T : i \in 1..Len(s) + 1
      /\ \A i \in 1..Len(s) : s[i] \notin Whitespace <=> i \in T
  BY DEF Text
<1>2. n \in T /\ \A y \in T : n <= y
  BY <1>1, Smallest
<1> HIDE DEF T, n
<1>3. n \in 1..Len(s) + 1
  BY <1>1, <1>2
<1>4. /\ SubSeq(s, n, Len(s)) \in Seq(Characters)
      /\ Len(SubSeq(s, n, Len(s))) = Len(s) - n + 1
      /\ \A i \in 1..Len(s) - n + 1 : SubSeq(s, n, Len(s))[i] = s[n + i - 1]
  BY <1>1, <1>3, PartIs
<1>5. lskip(s) = SubSeq(s, n, Len(s))
  BY DEF lskip, n, T
<1> DEFINE m == n - 1
<1>6. m \in 0..Len(s) /\ Len(s) - n + 1 = Len(s) - m /\ \A i \in Nat : n + i - 1 = m + i
  BY <1>1, <1>3
<1>7. m < Len(s) => s[m + 1] \notin Whitespace
  BY <1>1, <1>2, <1>3
<1>8. \A i \in 1..m : s[i] \in Whitespace
  BY <1>1, <1>2, <1>3
<1>9. Len(lskip(s)) = Len(s) - m /\ \A i \in 1..Len(s) - m : lskip(s)[i] = s[m + i]
  <2>1. ASSUME NEW i \in 1..Len(s) - m PROVE lskip(s)[i] = s[m + i]
    <3>1. i \in 1..Len(s) - n + 1 /\ n + i - 1 = m + i
      BY <1>3
    <3>2. QED
      BY <1>4, <1>5, <3>1
  <2>2. QED
    BY <1>4, <1>5, <1>6, <2>1
<1> HIDE DEF m
<1>10. QED
  BY <1>4, <1>5, <1>6, <1>7, <1>8, <1>9

(* A text is stripped if it is empty or begins and ends with no space.     *)
Bare(s) == s # << >> => s[1] \notin Whitespace /\ s[Len(s)] \notin Whitespace

LEMMA BareIsStripped ==
  ASSUME NEW s \in Seq(Characters), Bare(s)
  PROVE  s = Trim(s)
<1>1. rstrip(s) = s
  <2>1. Len(rstrip(s)) = Len(s)
    BY RstripIs DEF Bare
  <2>2. QED
    BY <2>1, RstripIs, SeqEqual
<1>2. lskip(s) = s
  <2>1. Len(lskip(s)) = Len(s) /\ \A i \in 1..Len(s) : lskip(s)[i] = s[i]
    <3>1. PICK m \in 0..Len(s) : /\ Len(lskip(s)) = Len(s) - m
                                 /\ \A i \in 1..Len(s) - m : lskip(s)[i] = s[m + i]
                                 /\ \A i \in 1..m : s[i] \in Whitespace
      BY LskipIs
    <3>2. m = 0
      BY <3>1 DEF Bare
    <3>3. QED
      BY <3>1, <3>2
  <2>2. QED
    BY <2>1, LskipIs, SeqEqual
<1>3. QED
  BY <1>1, <1>2 DEF Trim

(* Both orders of lskip() and rstrip() leave a stripped text.              *)
LEMMA StripsAreBare ==
  ASSUME NEW s \in Seq(Characters)
  PROVE  /\ lskip(rstrip(s)) \in Seq(Characters) /\ Bare(lskip(rstrip(s)))
         /\ rstrip(lskip(s)) \in Seq(Characters) /\ Bare(rstrip(lskip(s)))
<1>1. lskip(rstrip(s)) \in Seq(Characters) /\ Bare(lskip(rstrip(s)))
  <2> DEFINE r == rstrip(s)
  <2>1. r \in Seq(Characters) /\ (Len(r) # 0 => r[Len(r)] \notin Whitespace)
    BY RstripIs
  <2> HIDE DEF r
  <2>2. PICK m \in 0..Len(r) :
           /\ Len(lskip(r)) = Len(r) - m
           /\ \A i \in 1..Len(r) - m : lskip(r)[i] = r[m + i]
           /\ m < Len(r) => r[m + 1] \notin Whitespace
    BY <2>1, LskipIs
  <2>3. lskip(r) \in Seq(Characters)
    BY <2>1, LskipIs
  <2>4. ASSUME lskip(r) # << >>
        PROVE  lskip(r)[1] = r[m + 1] /\ lskip(r)[Len(lskip(r))] = r[Len(r)] /\ m < Len(r)
    <3>1. Len(lskip(r)) \in Nat /\ Len(lskip(r)) # 0 /\ Len(r) \in Nat
      BY <2>1, <2>3, <2>4
    <3>2. Len(r) - m \in 1..Len(r) - m /\ 1 \in 1..Len(r) - m /\ m + (Len(r) - m) = Len(r)
      BY <2>2, <3>1
    <3>3. lskip(r)[1] = r[m + 1] /\ lskip(r)[Len(r) - m] = r[m + (Len(r) - m)]
      BY <2>2, <3>2
    <3>4. m < Len(r)
      BY <2>2, <3>1
    <3>5. QED
      BY <2>2, <3>2, <3>3, <3>4
  <2>5. QED
    BY <2>1, <2>2, <2>3, <2>4 DEF Bare, r
<1>2. rstrip(lskip(s)) \in Seq(Characters) /\ Bare(rstrip(lskip(s)))
  <2> DEFINE l == lskip(s)
  <2>1. l \in Seq(Characters) /\ (l # << >> => l[1] \notin Whitespace)
    <3>1. l \in Seq(Characters)
      BY LskipIs
    <3>2. PICK m \in 0..Len(s) : /\ Len(lskip(s)) = Len(s) - m
                                 /\ \A i \in 1..Len(s) - m : lskip(s)[i] = s[m + i]
                                 /\ m < Len(s) => s[m + 1] \notin Whitespace
      BY LskipIs
    <3>3. l # << >> => m < Len(s) /\ l[1] = s[m + 1]
      BY <3>1, <3>2
    <3>4. QED
      BY <3>1, <3>2, <3>3
  <2> HIDE DEF l
  <2>2. QED
    BY <2>1, RstripIs DEF Bare, l
<1>3. QED
  BY <1>1, <1>2

-----------------------------------------------------------------------------
(* Where a line is cut in parts.                                           *)
LEMMA FindIs ==
  ASSUME NEW s \in Seq(Characters), NEW chars
  PROVE  LET end == find_chars_or_comment(s, chars)
         IN  /\ end \in 1..Len(s) + 1
             /\ \A i \in 1..end - 1 : s[i] \notin chars
<1> DEFINE C == {i \in DOMAIN s : \/ s[i] \in chars
                                  \/ s[i] = ";" /\ i > 1 /\ s[i - 1] \in Whitespace}
           S == {Len(s) + 1} \cup C
           end == Min(S)
<1>1. /\ S \in SUBSET Nat /\ S # {} /\ \A i \in S : i \in 1..Len(s) + 1
      /\ \A i \in 1..Len(s) : s[i] \in chars => i \in S
  <2>1. DOMAIN s = 1..Len(s) /\ Len(s) \in Nat
    OBVIOUS
  <2>2. C \subseteq DOMAIN s /\ \A i \in DOMAIN s : s[i] \in chars => i \in C
    OBVIOUS
  <2> HIDE DEF C
  <2>3. QED
    BY <2>1, <2>2
<1>2. find_chars_or_comment(s, chars) = end
  BY DEF find_chars_or_comment
<1> HIDE DEF S
<1>3. end \in S /\ \A y \in S : end <= y
  BY <1>1, Smallest
<1>4. end \in 1..Len(s) + 1
  BY <1>1, <1>3
<1>5. ASSUME NEW i \in 1..end - 1 PROVE s[i] \notin chars
  BY <1>1, <1>3, <1>4
<1>6. QED
  BY <1>2, <1>4, <1>5

LEMMA CutIs ==
  ASSUME NEW s \in Seq(Characters), NEW size \in Nat \ {0}
  PROVE  /\ strncpy0(s, size) \in Seq(Characters)
         /\ Len(strncpy0(s, size)) = IF Len(s) < size THEN Len(s) ELSE size - 1
         /\ Len(s) < size => strncpy0(s, size) = s
         /\ \A i \in 1..Len(strncpy0(s, size)) : strncpy0(s, size)[i] = s[i]
<1> DEFINE n == Min({Len(s), size - 1})
<1>1. n = (IF Len(s) < size THEN Len(s) ELSE size - 1) /\ n \in 0..Len(s)
  <2>1. {Len(s), size - 1} \in SUBSET Nat
    OBVIOUS
  <2>2. n \in {Len(s), size - 1} /\ \A y \in {Len(s), size - 1} : n <= y
    BY <2>1, Smallest
  <2>3. QED
    BY <2>1, <2>2
<1>2. strncpy0(s, size) = SubSeq(s, 1, n)
  BY DEF strncpy0
<1> HIDE DEF n
<1>3. /\ SubSeq(s, 1, n) \in Seq(Characters)
      /\ Len(SubSeq(s, 1, n)) = n
      /\ \A i \in 1..n : SubSeq(s, 1, n)[i] = s[i]
  BY <1>1, PartIs
<1>4. Len(s) < size => SubSeq(s, 1, n) = s
  BY <1>1, SubSeqFull
<1>5. QED
  BY <1>1, <1>2, <1>3, <1>4

-----------------------------------------------------------------------------
(* What one turn of the loop reads.                                        *)
LEMMA ChunkIs ==
  ASSUME TypeOK, unread # << >>
  PROVE  /\ Head(unread) \in Lines
         /\ Chunk \in Seq(Characters) /\ Chunk # << >>
         /\ Left \in Seq(Lines)
         /\ Len(Left) = IF Len(Head(unread)) < INI_MAX_LINE THEN Len(unread) - 1 ELSE Len(unread)
<1>1. unread \in Seq(Lines) /\ Head(unread) \in Lines /\ Tail(unread) \in Seq(Lines)
      /\ Len(Tail(unread)) = Len(unread) - 1 /\ Len(unread) \in Nat
  <2>1. unread \in Seq(Lines)
    BY DEF TypeOK
  <2>2. QED
    BY <2>1, HeadTailProperties
<1>2. Head(unread) \in Seq(Characters) /\ Len(Head(unread)) > 0
  BY <1>1 DEF Lines
<1>3. Chunk \in Seq(Characters) /\ Chunk # << >>
  <2> DEFINE c == strncpy0(Head(unread), INI_MAX_LINE)
  <2>1. c \in Seq(Characters) /\ Len(c) > 0
    BY <1>2, CutIs
  <2> HIDE DEF c
  <2>2. c # << >>
    BY <2>1
  <2>3. QED
    BY <2>1, <2>2 DEF Chunk, c
<1>4. CASE Len(Head(unread)) < INI_MAX_LINE
  BY <1>1, <1>4, <1>3 DEF Left
<1>5. CASE ~ (Len(Head(unread)) < INI_MAX_LINE)
  <2> DEFINE h == Head(unread)
             r == SubSeq(h, INI_MAX_LINE, Len(h))
  <2>1. r \in Seq(Characters) /\ Len(r) > 0
    BY <1>2, <1>5, PartIs
  <2> HIDE DEF r
  <2>2. r \in Lines
    BY <2>1 DEF Lines
  <2>3. <<r>> \in Seq(Lines) /\ Len(<<r>>) = 1
    BY <2>2
  <2>4. Left = <<r>> \o Tail(unread)
    BY <1>5 DEF Left, r
  <2>5. Left \in Seq(Lines) /\ Len(Left) = Len(unread)
    BY <1>1, <2>3, <2>4, ConcatProperties
  <2>6. QED
    BY <1>1, <1>3, <1>5, <2>5
<1>6. QED
  BY <1>4, <1>5

LEMMA StartIs ==
  ASSUME TypeOK, unread # << >>
  PROVE  Start \in Seq(Characters) /\ Bare(Start)
<1> DEFINE c == IF StartsWithBom THEN Tail(Chunk) ELSE Chunk
<1>1. c \in Seq(Characters)
  BY ChunkIs
<1>2. Start = lskip(rstrip(c))
  BY DEF Start
<1> HIDE DEF c
<1>3. QED
  BY <1>1, <1>2, StripsAreBare

-----------------------------------------------------------------------------
(* Every turn counts its chunk.                                            *)
LEMMA TurnCounts ==
  ASSUME TypeOK, unread # << >>, NEW bad \in BOOLEAN, Turn(bad)
  PROVE  unread' \in Seq(Lines) /\ {lineno', error'} \subseteq Nat
<1>1. unread' \in Seq(Lines)
  BY ChunkIs DEF Turn
<1>2. {lineno', error'} \subseteq Nat
  BY DEF TypeOK, Turn
<1>3. QED
  BY <1>1, <1>2

(* What the handler may be told next.                                      *)
Call == [section : Seq(Characters), name : Seq(Characters),
         value : Seq(Characters), continued : BOOLEAN]

Fits(c) ==
    /\ c \in Call
    /\ c.value = Trim(c.value)
    /\ c.continued \/ c.name = Trim(c.name)
    /\ \A i \in DOMAIN c.name : c.name[i] \notin {"=", ":"}
    /\ c.continued => /\ calls # << >>
                      /\ c.section = calls[Len(calls)].section
                      /\ c.name = Cut(calls[Len(calls)].name)

LEMMA CallAdded ==
  ASSUME IInv, NEW c, Fits(c), calls' = Append(calls, c)
  PROVE  /\ calls' \in Seq(Call) /\ calls' # << >> /\ calls'[Len(calls')] = c
         /\ ContinuesCall' /\ StrippedUnlessCut' /\ NoSignInName'
<1> DEFINE n == Len(calls)
<1>1. calls \in Seq(Call) /\ c \in Call
  BY DEF IInv, TypeOK, Fits, Call
<1>2. /\ n \in Nat /\ DOMAIN calls = 1..n /\ DOMAIN calls' = 1..n + 1
      /\ calls' \in Seq(Call) /\ calls' # << >> /\ Len(calls') = n + 1
      /\ calls'[n + 1] = c /\ \A k \in 1..n : calls'[k] = calls[k]
  <2> HIDE DEF Call
  <2>1. QED
    BY <1>1, AppendProperties
<1>3. ContinuesCall'
  <2> SUFFICES ASSUME NEW k \in 1..n + 1, calls'[k].continued
               PROVE  /\ k > 1
                      /\ calls'[k].section = calls'[k - 1].section
                      /\ calls'[k].name = Cut(calls'[k - 1].name)
    BY <1>2 DEF ContinuesCall, Cut, strncpy0
  <2>1. CASE k = n + 1
    <3>1. calls # << >> /\ c.section = calls[n].section /\ c.name = Cut(calls[n].name)
      BY <1>2, <2>1 DEF Fits
    <3>2. n \in 1..n /\ calls'[n] = calls[n]
      <4>1. n # 0
        BY <1>1, <3>1, EmptySeq
      <4>2. n \in 1..n
        BY <1>2, <4>1
      <4>3. QED
        BY <1>2, <4>2
    <3>3. k - 1 = n
      BY <1>2, <2>1
    <3>4. QED
      BY <1>2, <2>1, <3>1, <3>2, <3>3
  <2>2. CASE k # n + 1
    <3>1. k \in 1..n /\ calls'[k] = calls[k]
      BY <1>2, <2>2
    <3>2. /\ k > 1
          /\ calls[k].section = calls[k - 1].section
          /\ calls[k].name = Cut(calls[k - 1].name)
      BY <1>2, <3>1 DEF IInv, ContinuesCall
    <3>3. k - 1 \in 1..n /\ calls'[k - 1] = calls[k - 1]
      BY <1>2, <3>1, <3>2
    <3>4. QED
      BY <3>1, <3>2, <3>3
  <2>3. QED
    BY <2>1, <2>2
<1>4. ASSUME NEW k \in 1..n + 1
      PROVE  /\ calls'[k].value = Trim(calls'[k].value)
             /\ calls'[k].continued \/ calls'[k].name = Trim(calls'[k].name)
             /\ \A i \in DOMAIN calls'[k].name : calls'[k].name[i] \notin {"=", ":"}
  <2>1. CASE k = n + 1
    BY <1>2, <2>1 DEF Fits
  <2>2. CASE k # n + 1
    <3>1. k \in 1..n /\ calls'[k] = calls[k]
      BY <1>2, <2>2
    <3>2. QED
      BY <1>2, <3>1 DEF IInv, StrippedUnlessCut, NoSignInName
  <2>3. QED
    BY <2>1, <2>2
<1>5. StrippedUnlessCut' /\ NoSignInName'
  BY <1>2, <1>4, ZenonT(60) DEF StrippedUnlessCut, NoSignInName, Trim, lskip, rstrip, Text
<1>6. QED
  BY <1>2, <1>3, <1>5

(* What the handler is told on a continuation line.                        *)
LEMMA ContinuationFits ==
  ASSUME IInv, unread # << >>, NEW ok \in BOOLEAN, continuation(ok)
  PROVE  /\ calls' \in Seq(Call)
         /\ ContinuesLastCall' /\ ContinuesCall' /\ StrippedUnlessCut' /\ NoSignInName'
<1> DEFINE c == [section |-> section, name |-> prev_name, value |-> Start,
                 continued |-> IsContinuation]
<1>1. /\ prev_name # << >> /\ prev_name \in Seq(Characters) /\ section \in Seq(Characters)
      /\ Len(prev_name) < MAX_NAME /\ UNCHANGED <<section, prev_name>>
      /\ IsContinuation /\ calls' = Append(calls, c)
  BY DEF IInv, TypeOK, continuation, IsContinuation, HANDLER, bufferVars
<1>2. Start \in Seq(Characters) /\ Start = Trim(Start)
  BY StartIs, BareIsStripped DEF IInv
<1>3. /\ calls # << >> /\ section = calls[Len(calls)].section
      /\ prev_name = Cut(calls[Len(calls)].name)
  BY <1>1 DEF IInv, ContinuesLastCall
<1>4. Len(calls) \in DOMAIN calls /\ calls[Len(calls)] \in Call
  <2>1. calls \in Seq(Call)
    BY DEF IInv, TypeOK, Call
  <2> HIDE DEF Call
  <2>2. Len(calls) \in Nat \ {0}
    BY <1>3, <2>1, EmptySeq
  <2>3. QED
    BY <2>1, <2>2
<1>5. \A i \in DOMAIN prev_name : prev_name[i] \notin {"=", ":"}
  <2> DEFINE m == calls[Len(calls)].name
  <2>1. m \in Seq(Characters) /\ \A i \in DOMAIN m : m[i] \notin {"=", ":"}
    BY <1>4 DEF Call, IInv, NoSignInName
  <2> HIDE DEF m
  <2>2. prev_name = strncpy0(m, MAX_NAME)
    BY <1>3 DEF Cut, m
  <2>3. Len(prev_name) <= Len(m) /\ \A i \in 1..Len(prev_name) : prev_name[i] = m[i]
    BY <2>1, <2>2, CutIs
  <2>4. DOMAIN prev_name = 1..Len(prev_name) /\ DOMAIN m = 1..Len(m)
        /\ Len(prev_name) \in Nat /\ Len(m) \in Nat
    BY <1>1, <2>1
  <2>5. QED
    BY <2>1, <2>3, <2>4
<1>6. Fits(c)
  <2>1. c \in Call
    <3> DEFINE b == IsContinuation
    <3>1. b \in BOOLEAN
      BY <1>1
    <3> HIDE DEF b
    <3>2. [section |-> section, name |-> prev_name, value |-> Start, continued |-> b] \in Call
      BY <1>1, <1>2, <3>1 DEF Call
    <3>3. QED
      BY <3>2 DEF b
  <2>2. /\ c.value = Start /\ c.name = prev_name /\ c.section = section
        /\ (c.continued <=> IsContinuation)
    OBVIOUS
  <2> HIDE DEF c
  <2>3. QED
    BY <1>1, <1>2, <1>3, <1>5, <2>1, <2>2 DEF Fits
<1> HIDE DEF c
<1>7. /\ calls' \in Seq(Call) /\ calls' # << >> /\ calls'[Len(calls')] = c
      /\ ContinuesCall' /\ StrippedUnlessCut' /\ NoSignInName'
  BY <1>1, <1>6, CallAdded
<1>8. prev_name = Cut(prev_name)
  BY <1>1, CutIs DEF Cut
<1>9. c.section = section /\ c.name = prev_name
  BY DEF c
<1>10. ContinuesLastCall'
  BY <1>1, <1>7, <1>8, <1>9 DEF ContinuesLastCall, Cut, strncpy0
<1>11. QED
  BY <1>7, <1>10

(* What it is told of a name and a value.                                  *)
LEMMA NameIs ==
  ASSUME NEW s \in Seq(Characters), Bare(s),
         NEW end, end = find_chars_or_comment(s, {"=", ":"})
  PROVE  LET name == rstrip(SubSeq(s, 1, end - 1))
         IN  /\ name \in Seq(Characters) /\ name = Trim(name)
             /\ \A i \in DOMAIN name : name[i] \notin {"=", ":"}
<1> DEFINE p == SubSeq(s, 1, end - 1)
<1>1. end \in 1..Len(s) + 1 /\ \A i \in 1..end - 1 : s[i] \notin {"=", ":"}
  BY FindIs
<1>2. end - 1 \in 0..Len(s)
  BY <1>1
<1>3. p \in Seq(Characters) /\ Len(p) = end - 1 /\ \A i \in 1..end - 1 : p[i] = s[i]
  BY <1>2, PartIs
<1> HIDE DEF p
<1>4. /\ rstrip(p) \in Seq(Characters) /\ Len(rstrip(p)) \in 0..Len(p)
      /\ \A i \in 1..Len(rstrip(p)) : rstrip(p)[i] = p[i]
      /\ Len(rstrip(p)) # 0 => p[Len(rstrip(p))] \notin Whitespace
  BY <1>3, RstripIs
<1>5. Bare(rstrip(p))
  <2> SUFFICES ASSUME Len(rstrip(p)) # 0
               PROVE  /\ rstrip(p)[1] \notin Whitespace
                      /\ rstrip(p)[Len(rstrip(p))] \notin Whitespace
    BY <1>4, EmptySeq DEF Bare
  <2>1. rstrip(p)[1] = s[1] /\ s # << >>
    BY <1>1, <1>3, <1>4
  <2>2. s[1] \notin Whitespace
    BY <2>1 DEF Bare
  <2>3. QED
    BY <1>4, <2>1, <2>2
<1>6. \A i \in DOMAIN rstrip(p) : rstrip(p)[i] \notin {"=", ":"}
  BY <1>1, <1>3, <1>4
<1>7. QED
  BY <1>4, <1>5, <1>6, BareIsStripped DEF p

LEMMA ValueIs ==
  ASSUME NEW s \in Seq(Characters), NEW end \in DOMAIN s
  PROVE  LET right == SubSeq(s, end + 1, Len(s))
             value == rstrip(lskip(SubSeq(right, 1, find_chars_or_comment(right, {}) - 1)))
         IN  value \in Seq(Characters) /\ value = Trim(value)
<1> DEFINE right == SubSeq(s, end + 1, Len(s))
           part == SubSeq(right, 1, find_chars_or_comment(right, {}) - 1)
<1>1. right \in Seq(Characters)
  BY PartIs
<1> HIDE DEF right
<1>2. find_chars_or_comment(right, {}) - 1 \in 0..Len(right)
  BY <1>1, FindIs
<1>3. part \in Seq(Characters)
  BY <1>1, <1>2, PartIs
<1> HIDE DEF part
<1>4. rstrip(lskip(part)) \in Seq(Characters) /\ Bare(rstrip(lskip(part)))
  BY <1>3, StripsAreBare
<1>5. QED
  BY <1>4, BareIsStripped DEF part, right

(* A turn that makes no call keeps what is known of the calls.             *)
LEMMA NoCall ==
  ASSUME IInv, UNCHANGED calls, prev_name' \in {prev_name, << >>},
         prev_name' # << >> => section' = section
  PROVE  ContinuesLastCall' /\ ContinuesCall' /\ StrippedUnlessCut' /\ NoSignInName'
<1>1. ContinuesLastCall'
  BY DEF IInv, ContinuesLastCall, Cut, strncpy0
<1>2. ContinuesCall'
  BY DEF IInv, ContinuesCall, Cut, strncpy0
<1>3. StrippedUnlessCut'
  <2>1. ASSUME NEW k \in DOMAIN calls'
        PROVE  /\ calls'[k].value = Trim(calls'[k].value)
               /\ calls'[k].continued \/ calls'[k].name = Trim(calls'[k].name)
    BY DEF IInv, StrippedUnlessCut
  <2>2. QED
    BY <2>1 DEF StrippedUnlessCut, Trim, lskip, rstrip, Text
<1>4. NoSignInName'
  BY DEF IInv, NoSignInName
<1>5. QED
  BY <1>1, <1>2, <1>3, <1>4

LEMMA PairFits ==
  ASSUME IInv, unread # << >>, NEW ok \in BOOLEAN, pair(ok)
  PROVE  /\ calls' \in Seq(Call)
         /\ prev_name' \in Seq(Characters) /\ Len(prev_name') < MAX_NAME
         /\ ContinuesLastCall' /\ ContinuesCall' /\ StrippedUnlessCut' /\ NoSignInName'
<1> DEFINE end == find_chars_or_comment(Start, {"=", ":"})
           name == rstrip(SubSeq(Start, 1, end - 1))
           right == SubSeq(Start, end + 1, Len(Start))
           value == rstrip(lskip(SubSeq(right, 1, find_chars_or_comment(right, {}) - 1)))
           c == [section |-> section, name |-> name, value |-> value, continued |-> IsContinuation]
<1>1. Start \in Seq(Characters) /\ Bare(Start)
  BY StartIs DEF IInv
<1>2. \/ UNCHANGED <<bufferVars, calls>>
      \/ /\ Found(Start, end) \in {"=", ":"}
         /\ prev_name' = strncpy0(name, MAX_NAME)
         /\ calls' = Append(calls, c)
         /\ section' = section
  BY DEF pair, HANDLER
<1>3. CASE UNCHANGED <<bufferVars, calls>>
  BY <1>3, NoCall DEF IInv, TypeOK, Call, bufferVars
<1>4. CASE /\ Found(Start, end) \in {"=", ":"}
           /\ prev_name' = strncpy0(name, MAX_NAME)
           /\ calls' = Append(calls, c)
           /\ section' = section
  <2>1. end \in DOMAIN Start
    BY <1>4 DEF Found
  <2>2. name \in Seq(Characters) /\ name = Trim(name) /\ \A i \in DOMAIN name : name[i] \notin {"=", ":"}
    BY <1>1, NameIs
  <2>3. value \in Seq(Characters) /\ value = Trim(value)
    BY <1>1, <2>1, ValueIs
  <2> HIDE DEF end, name, right, value
  <2>4. ~ IsContinuation /\ section \in Seq(Characters)
    BY DEF pair, IsPair, IInv, TypeOK
  <2>5. Fits(c)
    <3>1. c \in Call
      <4> DEFINE b == IsContinuation
      <4>1. b \in BOOLEAN
        BY DEF IsContinuation
      <4> HIDE DEF b
      <4>2. [section |-> section, name |-> name, value |-> value, continued |-> b] \in Call
        BY <2>2, <2>3, <2>4, <4>1 DEF Call
      <4>3. QED
        BY <4>2 DEF b
    <3>2. c.value = value /\ c.name = name /\ ~ c.continued
      BY <2>4
    <3> HIDE DEF c
    <3>3. QED
      BY <2>2, <2>3, <3>1, <3>2 DEF Fits
  <2>6. c.section = section /\ c.name = name
    OBVIOUS
  <2> HIDE DEF c
  <2>7. /\ calls' \in Seq(Call) /\ calls' # << >> /\ calls'[Len(calls')] = c
        /\ ContinuesCall' /\ StrippedUnlessCut' /\ NoSignInName'
    BY <1>4, <2>5, CallAdded
  <2>8. prev_name' = strncpy0(name, MAX_NAME)
    BY <1>4
  <2>9. prev_name' \in Seq(Characters) /\ Len(prev_name') < MAX_NAME
    BY <2>2, <2>8, CutIs
  <2>10. ContinuesLastCall'
    BY <1>4, <2>6, <2>7, <2>8 DEF ContinuesLastCall, Cut, strncpy0
  <2>11. QED
    BY <2>7, <2>9, <2>10
<1>5. QED
  BY <1>2, <1>3, <1>4

(* A section line ends the name that may be continued.                     *)
LEMMA SectionKeeps ==
  ASSUME IInv, unread # << >>, section_line
  PROVE  /\ section' \in Seq(Characters) /\ Len(section') < MAX_SECTION
         /\ prev_name' \in {prev_name, << >>}
         /\ prev_name' # << >> => section' = section
<1> DEFINE name == Tail(Start)
           end  == find_chars_or_comment(name, {"]"})
           bad  == Found(name, end) # "]"
<1>1. Start \in Seq(Characters) /\ Start # << >>
  BY StartIs DEF IInv, section_line, IsSection
<1>2. name \in Seq(Characters)
  BY <1>1
<1>3. /\ section' = (IF bad THEN section ELSE strncpy0(SubSeq(name, 1, end - 1), MAX_SECTION))
      /\ prev_name' = (IF bad THEN prev_name ELSE << >>)
  BY DEF section_line
<1> HIDE DEF name
<1>4. end \in 1..Len(name) + 1
  BY <1>2, FindIs
<1>5. SubSeq(name, 1, end - 1) \in Seq(Characters)
  <2>1. end - 1 \in 0..Len(name)
    BY <1>2, <1>4
  <2>2. QED
    BY <1>2, <2>1, PartIs
<1>6. /\ strncpy0(SubSeq(name, 1, end - 1), MAX_SECTION) \in Seq(Characters)
      /\ Len(strncpy0(SubSeq(name, 1, end - 1), MAX_SECTION)) < MAX_SECTION
  <2> DEFINE p == SubSeq(name, 1, end - 1)
  <2>1. p \in Seq(Characters) /\ Len(p) \in Nat /\ MAX_SECTION \in Nat \ {0}
    BY <1>5
  <2> HIDE DEF p
  <2>2. strncpy0(p, MAX_SECTION) \in Seq(Characters) /\ Len(strncpy0(p, MAX_SECTION)) < MAX_SECTION
    BY <2>1, CutIs
  <2>3. QED
    BY <2>2 DEF p
<1>7. section \in Seq(Characters) /\ Len(section) < MAX_SECTION
  BY DEF IInv, TypeOK
<1>8. QED
  BY <1>3, <1>6, <1>7

-----------------------------------------------------------------------------
(* Nothing is read yet.                                                    *)
LEMMA InitInv == Init => IInv
<1> SUFFICES ASSUME Init PROVE IInv
  OBVIOUS
<1>1. unread \in Seq(Lines)
  BY DEF Init
<1>2. << >> \in Seq(Characters) /\ << >> \in Seq(Call) /\ Len(<< >>) = 0
  BY EmptySeq
<1>3. TypeOK
  BY <1>1, <1>2 DEF Init, TypeOK, Call
<1>4. QED
  BY <1>3 DEF Init, IInv, ContinuesLastCall, ContinuesCall, StrippedUnlessCut, NoSignInName

(* Every turn of the loop keeps it, by its branches.                       *)
LEMMA InvStep == IInv /\ [Next]_vars => IInv'
<1> SUFFICES ASSUME IInv, [Next]_vars PROVE IInv'
  OBVIOUS
<1>1. CASE UNCHANGED vars
  <2>1. TypeOK'
    BY <1>1 DEF IInv, TypeOK, vars, bufferVars
  <2>2. QED
    BY <1>1, <2>1, NoCall DEF IInv, vars, bufferVars
<1>2. ASSUME NEW ok \in BOOLEAN, Parse(ok) PROVE IInv'
  <2>1. unread # << >>
    BY <1>2 DEF Parse
  <2>2. PICK bad \in BOOLEAN : Turn(bad)
    <3>1. CASE skip \/ continuation(ok)
      BY <3>1 DEF skip, continuation
    <3>2. CASE section_line
      <4> DEFINE b == Found(Tail(Start), find_chars_or_comment(Tail(Start), {"]"})) # "]"
      <4>1. Turn(b)
        BY <3>2 DEF section_line
      <4>2. QED
        BY <4>1
    <3>3. CASE pair(ok)
      BY <3>3 DEF pair
    <3>4. QED
      BY <1>2, <3>1, <3>2, <3>3 DEF Parse
  <2>3. unread' \in Seq(Lines) /\ {lineno', error'} \subseteq Nat
    BY <2>1, <2>2, TurnCounts DEF IInv
  <2>4. /\ section \in Seq(Characters) /\ Len(section) < MAX_SECTION
        /\ prev_name \in Seq(Characters) /\ Len(prev_name) < MAX_NAME
        /\ calls \in Seq(Call)
        /\ << >> \in Seq(Characters) /\ Len(<< >>) < MAX_NAME
    BY EmptySeq DEF IInv, TypeOK, Call
  <2>5. /\ section' \in Seq(Characters) /\ Len(section') < MAX_SECTION
        /\ prev_name' \in Seq(Characters) /\ Len(prev_name') < MAX_NAME
        /\ calls' \in Seq(Call)
        /\ ContinuesLastCall' /\ ContinuesCall' /\ StrippedUnlessCut' /\ NoSignInName'
    <3>1. CASE skip
      BY <2>4, <3>1, NoCall DEF skip, bufferVars
    <3>2. CASE section_line
      <4>1. /\ section' \in Seq(Characters) /\ Len(section') < MAX_SECTION
            /\ prev_name' \in {prev_name, << >>}
            /\ prev_name' # << >> => section' = section
        BY <2>1, <3>2, SectionKeeps
      <4>2. calls' = calls
        BY <3>2 DEF section_line
      <4>3. QED
        BY <2>4, <4>1, <4>2, NoCall
    <3>3. CASE continuation(ok)
      BY <2>1, <2>4, <3>3, ContinuationFits DEF continuation, bufferVars
    <3>4. CASE pair(ok)
      <4>1. section' = section
        BY <3>4 DEF pair, bufferVars
      <4>2. QED
        BY <2>1, <2>4, <3>4, <4>1, PairFits
    <3>5. QED
      BY <1>2, <3>1, <3>2, <3>3, <3>4 DEF Parse
  <2>6. QED
    BY <2>3, <2>5 DEF IInv, TypeOK, Call
<1>3. QED
  BY <1>1, <1>2 DEF Next, Returned

(* IInv holds in every reachable state.                                    *)
THEOREM Inductive == Spec => []IInv
<1>1. QED
  BY InitInv, InvStep, PTL DEF Spec

-----------------------------------------------------------------------------
(* The names that the handler was told fit the buffer for the last name.   *)
NamesFit == \A k \in DOMAIN calls : Len(calls[k].name) < MAX_NAME

(* Lines 63-64 of ini.h are kept as long as no name is longer than its     *)
(* buffer (line 160 of ini.c cuts it): a continuation line is then         *)
(* reported under the section and the name of the call before it.          *)
THEOREM SameNameOnContinuation == Spec => [](NamesFit => ContinuationKeepsName)
<1>1. ASSUME IInv, NamesFit PROVE ContinuationKeepsName
  <2> SUFFICES ASSUME NEW k \in DOMAIN calls, calls[k].continued
               PROVE  /\ k > 1
                      /\ calls[k].section = calls[k - 1].section
                      /\ calls[k].name = calls[k - 1].name
    BY DEF ContinuationKeepsName
  <2>1. /\ k > 1
        /\ calls[k].section = calls[k - 1].section
        /\ calls[k].name = Cut(calls[k - 1].name)
    BY <1>1 DEF IInv, ContinuesCall
  <2>2. k - 1 \in DOMAIN calls /\ calls[k - 1].name \in Seq(Characters)
    <3>1. calls \in Seq(Call)
      BY <1>1 DEF IInv, TypeOK, Call
    <3>2. k - 1 \in DOMAIN calls
      BY <2>1, <3>1
    <3>3. calls[k - 1] \in Call
      BY <3>1, <3>2
    <3>4. QED
      BY <3>2, <3>3 DEF Call
  <2>3. Cut(calls[k - 1].name) = calls[k - 1].name
    BY <1>1, <2>2, CutIs DEF NamesFit, Cut
  <2>4. QED
    BY <2>1, <2>3
<1>2. QED
  BY Inductive, <1>1, PTL

(* So long no name and no value begins or ends with a space, either (line  *)
(* 39 of ini.h): only a name that was cut, and is continued, can.          *)
THEOREM StrippedIfNamesFit == Spec => [](NamesFit => Stripped)
<1>1. ASSUME IInv, NamesFit PROVE Stripped
  <2> DEFINE B == {k \in DOMAIN calls : calls[k].name # Trim(calls[k].name)}
             b == Min(B)
  <2>1. calls \in Seq(Call)
    BY <1>1 DEF IInv, TypeOK, Call
  <2>2. B \in SUBSET Nat
    BY <2>1
  <2>3. ASSUME B # {} PROVE FALSE
    <3>1. b \in B /\ \A k \in B : b <= k
      BY <2>2, <2>3, Smallest
    <3> HIDE DEF b
    <3>2. b \in DOMAIN calls /\ calls[b].name # Trim(calls[b].name)
      BY <3>1
    <3>3. calls[b].continued
      BY <1>1, <3>2 DEF IInv, StrippedUnlessCut
    <3>4. b > 1 /\ calls[b].name = Cut(calls[b - 1].name)
      BY <1>1, <3>2, <3>3 DEF IInv, ContinuesCall
    <3>5. b - 1 \in DOMAIN calls /\ b \in Nat
      BY <2>1, <3>2, <3>4
    <3>6. calls[b - 1].name \in Seq(Characters)
      <4>1. calls[b - 1] \in Call
        BY <2>1, <3>5
      <4>2. QED
        BY <4>1 DEF Call
    <3>7. calls[b].name = calls[b - 1].name
      BY <1>1, <3>4, <3>5, <3>6, CutIs DEF NamesFit, Cut
    <3>8. b - 1 \in B
      BY <3>2, <3>5, <3>7
    <3>9. QED
      BY <3>1, <3>5, <3>8
  <2>4. QED
    BY <1>1, <2>3 DEF Stripped, IInv, StrippedUnlessCut
<1>2. QED
  BY Inductive, <1>1, PTL

-----------------------------------------------------------------------------
(* The first n calls of cs, folded for the entry e: F has the result of    *)
(* each set of calls.                                                      *)
Folded(e, cs, n, F) ==
    F = [s \in SUBSET (1..n) |->
            IF s = {} THEN << >> ELSE Join(e, F[s \ {Max(s)}], cs[Max(s)])]

(* Such an F exists, for any number of calls.                              *)
LEMMA FoldExists ==
  ASSUME NEW e, NEW cs, NEW m \in Nat
  PROVE  \E F : Folded(e, cs, m, F)
<1> DEFINE T == {n \in Nat : \E F : Folded(e, cs, n, F)}
<1>1. 0 \in T
  <2> DEFINE F == [s \in SUBSET (1..0) |-> << >>]
  <2>1. \A s \in SUBSET (1..0) : s = {}
    OBVIOUS
  <2>2. F = [s \in SUBSET (1..0) |->
                IF s = {} THEN << >> ELSE Join(e, F[s \ {Max(s)}], cs[Max(s)])]
    BY <2>1, Zenon
  <2> HIDE DEF F
  <2>3. Folded(e, cs, 0, F)
    BY <2>2 DEF Folded
  <2>4. QED
    BY <2>3
<1>2. ASSUME NEW n \in T PROVE n + 1 \in T
  <2>1. n \in Nat
    OBVIOUS
  <2>2. PICK F : Folded(e, cs, n, F)
    OBVIOUS
  <2> DEFINE G == [s \in SUBSET (1..n + 1) |->
                      IF n + 1 \in s THEN Join(e, F[s \ {n + 1}], cs[n + 1]) ELSE F[s]]
             H == [s \in SUBSET (1..n + 1) |->
                      IF s = {} THEN << >> ELSE Join(e, G[s \ {Max(s)}], cs[Max(s)])]
  <2>3. \A s \in SUBSET (1..n) :
           F[s] = IF s = {} THEN << >> ELSE Join(e, F[s \ {Max(s)}], cs[Max(s)])
    BY <2>2, Zenon DEF Folded
  <2>4. ASSUME NEW s \in SUBSET (1..n + 1) PROVE G[s] = H[s]
    <3>1. CASE n + 1 \in s
      <4>1. s \in SUBSET (0..n + 1) /\ n + 1 \in Nat /\ s # {}
        BY <2>1, <3>1
      <4>2. Max(s) \in s /\ \A y \in s : y <= Max(s)
        BY <4>1, Greatest
      <4>3. Max(s) = n + 1
        <5> HIDE DEF G, H
        <5>1. Max(s) \in 1..n + 1 /\ n + 1 <= Max(s)
          BY <3>1, <4>2
        <5>2. QED
          BY <2>1, <5>1
      <4>4. s \ {n + 1} \in SUBSET (1..n + 1) /\ n + 1 \notin s \ {n + 1}
        OBVIOUS
      <4>5. G[s \ {n + 1}] = F[s \ {n + 1}]
        BY <4>4, Zenon
      <4>6. G[s] = Join(e, F[s \ {n + 1}], cs[n + 1])
        BY <3>1, Zenon
      <4>7. H[s] = Join(e, G[s \ {n + 1}], cs[n + 1])
        BY <4>1, <4>3, Zenon
      <4>8. QED
        BY <4>5, <4>6, <4>7, Zenon
    <3>2. CASE n + 1 \notin s
      <4>1. s \in SUBSET (1..n)
        BY <2>1, <3>2
      <4>2. G[s] = F[s]
        BY <3>2, Zenon
      <4>3. CASE s = {}
        BY <2>3, <4>1, <4>2, <4>3, Zenon
      <4>4. CASE s # {}
        <5>1. s \ {Max(s)} \in SUBSET (1..n + 1) /\ n + 1 \notin s \ {Max(s)}
          BY <3>2
        <5>2. G[s \ {Max(s)}] = F[s \ {Max(s)}]
          BY <5>1, Zenon
        <5>3. F[s] = Join(e, F[s \ {Max(s)}], cs[Max(s)])
          BY <2>3, <4>1, <4>4, Zenon
        <5>4. H[s] = Join(e, G[s \ {Max(s)}], cs[Max(s)])
          BY <4>4, Zenon
        <5>5. QED
          BY <4>2, <5>2, <5>3, <5>4, Zenon
      <4>5. QED
        BY <4>3, <4>4
    <3>3. QED
      BY <3>1, <3>2
  <2>5. G = H
    <3>1. DOMAIN G = SUBSET (1..n + 1) /\ DOMAIN H = SUBSET (1..n + 1)
      OBVIOUS
    <3>2. G = [s \in SUBSET (1..n + 1) |-> G[s]] /\ H = [s \in SUBSET (1..n + 1) |-> H[s]]
      BY Zenon
    <3> HIDE DEF G, H
    <3>3. QED
      BY <2>4, <3>2, Zenon
  <2> HIDE DEF G
  <2>6. Folded(e, cs, n + 1, G)
    BY <2>5 DEF Folded
  <2>7. QED
    BY <2>1, <2>6
<1>3. T \in SUBSET Nat
  OBVIOUS
<1> HIDE DEF T
<1>4. m \in T
  BY <1>1, <1>2, <1>3, Induction
<1>5. QED
  BY <1>4 DEF T

(* The fold of the calls in front does not look at those behind.           *)
LEMMA FoldAgrees ==
  ASSUME NEW e, NEW cs, NEW ds, NEW n \in Nat, NEW m \in Nat, n <= m,
         \A i \in 1..n : cs[i] = ds[i],
         NEW F, Folded(e, cs, n, F), NEW G, Folded(e, ds, m, G)
  PROVE  F[1..n] = G[1..n]
<1> DEFINE T == {k \in Nat : k <= n => F[1..k] = G[1..k]}
<1>1. \A s \in SUBSET (1..n) :
         F[s] = IF s = {} THEN << >> ELSE Join(e, F[s \ {Max(s)}], cs[Max(s)])
  BY Zenon DEF Folded
<1>2. \A s \in SUBSET (1..m) :
         G[s] = IF s = {} THEN << >> ELSE Join(e, G[s \ {Max(s)}], ds[Max(s)])
  BY Zenon DEF Folded
<1>3. 0 \in T
  <2>1. 1..0 \in SUBSET (1..n) /\ 1..0 \in SUBSET (1..m) /\ 1..0 = {}
    OBVIOUS
  <2>2. F[1..0] = << >> /\ G[1..0] = << >>
    BY <1>1, <1>2, <2>1, Zenon
  <2>3. QED
    BY <2>2
<1>4. ASSUME NEW k \in T, k + 1 <= n PROVE F[1..k + 1] = G[1..k + 1]
  <2>1. k \in Nat /\ k <= n /\ F[1..k] = G[1..k]
    <3>1. k \in Nat /\ k <= n
      BY <1>4
    <3>2. QED
      BY <3>1
  <2> DEFINE s == 1..k + 1
  <2>2. /\ s \in SUBSET (1..n) /\ s \in SUBSET (1..m) /\ s # {}
        /\ s \in SUBSET (0..k + 1) /\ k + 1 \in s /\ k + 1 \in Nat
        /\ s \ {k + 1} = 1..k /\ \A y \in s : y <= k + 1
    <3> HIDE DEF T
    <3>1. s \in SUBSET (1..n) /\ s \in SUBSET (1..m) /\ s \in SUBSET (0..k + 1)
      BY <1>4, <2>1
    <3>2. k + 1 \in s /\ k + 1 \in Nat /\ \A y \in s : y <= k + 1
      BY <2>1
    <3>3. s \ {k + 1} = 1..k
      BY <2>1
    <3>4. QED
      BY <3>1, <3>2, <3>3
  <2> HIDE DEF s
  <2>3. Max(s) \in s /\ \A y \in s : y <= Max(s)
    BY <2>2, Greatest
  <2>4. Max(s) = k + 1
    BY <2>2, <2>3
  <2>5. F[s] = Join(e, F[1..k], cs[k + 1])
    BY <1>1, <2>2, <2>4, Zenon
  <2>6. G[s] = Join(e, G[1..k], ds[k + 1])
    BY <1>2, <2>2, <2>4, Zenon
  <2>7. cs[k + 1] = ds[k + 1]
    BY <1>4, <2>1
  <2>8. QED
    BY <2>1, <2>5, <2>6, <2>7 DEF s
<1>5. T \in SUBSET Nat /\ \A k \in T : k + 1 \in T
  BY <1>4
<1> HIDE DEF T
<1>6. n \in T
  BY <1>3, <1>5, Induction
<1>7. QED
  BY <1>6 DEF T

(* What a file has for an entry: nothing at first, and of one more call    *)
(* what Join() makes of it.                                                *)
LEMMA InFileIs ==
  ASSUME NEW e, NEW cs \in Seq(Call), NEW c \in Call
  PROVE  /\ InFile(e, << >>) = << >>
         /\ InFile(e, Append(cs, c)) = Join(e, InFile(e, cs), c)
<1> DEFINE Fold(ds) == CHOOSE F : Folded(e, ds, Len(ds), F)
<1>1. ASSUME NEW ds \in Seq(Call)
      PROVE  Folded(e, ds, Len(ds), Fold(ds)) /\ InFile(e, ds) = Fold(ds)[1..Len(ds)]
  <2>1. Len(ds) \in Nat /\ DOMAIN ds = 1..Len(ds)
    OBVIOUS
  <2>2. \E F : Folded(e, ds, Len(ds), F)
    BY <2>1, FoldExists
  <2>3. InFile(e, ds) = Fold(ds)[1..Len(ds)]
    BY <2>1 DEF InFile, FoldLeft, MapThenFoldSet, Folded
  <2>4. QED
    BY <2>2, <2>3
<1>2. InFile(e, << >>) = << >>
  <2>1. << >> \in Seq(Call) /\ Len(<< >>) = 0
    OBVIOUS
  <2>2. Folded(e, << >>, 0, Fold(<< >>)) /\ InFile(e, << >>) = Fold(<< >>)[1..0]
    BY <1>1, <2>1
  <2>3. PICK F : F = Fold(<< >>)
    OBVIOUS
  <2>4. \A s \in SUBSET (1..0) : s = {} => F[s] = << >>
    BY <2>2, <2>3, Zenon DEF Folded
  <2>5. 1..0 \in SUBSET (1..0) /\ 1..0 = {}
    OBVIOUS
  <2>6. QED
    BY <2>2, <2>3, <2>4, <2>5
<1>3. InFile(e, Append(cs, c)) = Join(e, InFile(e, cs), c)
  <2> DEFINE ds == Append(cs, c)
             n == Len(cs)
             s == 1..n + 1
  <2>1. /\ n \in Nat /\ ds \in Seq(Call) /\ Len(ds) = n + 1
        /\ ds[n + 1] = c /\ \A i \in 1..n : cs[i] = ds[i]
    OBVIOUS
  <2>2. Folded(e, cs, n, Fold(cs)) /\ InFile(e, cs) = Fold(cs)[1..n]
    BY <1>1
  <2> HIDE DEF ds, n
  <2>3. Folded(e, ds, n + 1, Fold(ds)) /\ InFile(e, ds) = Fold(ds)[1..n + 1]
    BY <1>1, <2>1
  <2> HIDE DEF Fold
  <2>4. PICK F, G : F = Fold(cs) /\ G = Fold(ds)
    OBVIOUS
  <2>5. Folded(e, cs, n, F) /\ Folded(e, ds, n + 1, G)
    BY <2>2, <2>3, <2>4
  <2>6. F[1..n] = G[1..n]
    <3>1. n + 1 \in Nat /\ n <= n + 1
      BY <2>1
    <3>2. QED
      BY <2>1, <2>5, <3>1, FoldAgrees
  <2>7. /\ s \in SUBSET (0..n + 1) /\ s # {} /\ n + 1 \in s
        /\ n + 1 \in Nat /\ \A y \in s : y \in Nat /\ y <= n + 1
    <3>1. n \in Nat
      BY <2>1
    <3>2. n + 1 \in s /\ n + 1 \in Nat /\ \A y \in s : y \in Nat /\ y <= n + 1
      BY <3>1
    <3>3. s \in SUBSET (0..n + 1)
      BY <3>1
    <3>4. QED
      BY <3>2, <3>3
  <2>8. s \ {n + 1} = 1..n
    BY <2>1
  <2>9. s \in SUBSET (1..n + 1)
    OBVIOUS
  <2> HIDE DEF s
  <2>10. Max(s) \in s /\ \A y \in s : y <= Max(s)
    BY <2>7, Greatest
  <2>11. Max(s) = n + 1
    <3>1. Max(s) \in Nat /\ Max(s) <= n + 1 /\ n + 1 <= Max(s) /\ n + 1 \in Nat
      BY <2>7, <2>10
    <3>2. QED
      BY <3>1
  <2>12. G[s] = Join(e, G[s \ {Max(s)}], ds[Max(s)])
    BY <2>5, <2>7, <2>9, Zenon DEF Folded
  <2>13. G[s] = Join(e, G[1..n], c)
    BY <2>1, <2>8, <2>11, <2>12
  <2>14. InFile(e, ds) = Join(e, InFile(e, cs), c)
    BY <2>2, <2>3, <2>4, <2>6, <2>13 DEF s
  <2>15. QED
    BY <2>14 DEF ds
<1>4. QED
  BY <1>2, <1>3

(* A name without the sign that joins it to its section.                   *)
NoSign(name) == \A i \in DOMAIN name : name[i] # "="

(* No two entries share a key: the last sign of a key is the one that      *)
(* MakeKey() put there.                                                    *)
LEMMA KeysDiffer ==
  ASSUME LowerAssumption,
         NEW a \in Call, NEW b \in Call, NoSign(a.name), NoSign(b.name)
  PROVE  MakeKey(a.section, a.name) = MakeKey(b.section, b.name) <=> SameEntry(a, b)
<1>1. /\ a.section \in Seq(Characters) /\ a.name \in Seq(Characters)
      /\ b.section \in Seq(Characters) /\ b.name \in Seq(Characters)
  BY DEF Call
<1>2. ASSUME NEW s \in Seq(Characters), NEW t \in Seq(Characters)
      PROVE  /\ DOMAIN MakeKey(s, t) = 1..Len(s) + 1 + Len(t)
             /\ \A i \in 1..Len(s) : MakeKey(s, t)[i] = Lower(s[i])
             /\ MakeKey(s, t)[Len(s) + 1] = Lower("=")
             /\ \A i \in 1..Len(t) : MakeKey(s, t)[Len(s) + 1 + i] = Lower(t[i])
  <2> DEFINE D == Characters \cup {"="}
             u == s \o <<"=">>
             key == u \o t
  <2>1. s \in Seq(D) /\ t \in Seq(D) /\ <<"=">> \in Seq(D) /\ Len(<<"=">>) = 1 /\ <<"=">>[1] = "="
    OBVIOUS
  <2>2. /\ u \in Seq(D) /\ Len(u) = Len(s) + 1
        /\ u[Len(s) + 1] = "=" /\ \A i \in 1..Len(s) : u[i] = s[i]
    BY <2>1, ConcatProperties
  <2> HIDE DEF u, D
  <2>3. /\ key \in Seq(D) /\ Len(key) = Len(u) + Len(t)
        /\ \A i \in 1..Len(u) : key[i] = u[i]
        /\ \A i \in 1..Len(t) : key[Len(u) + i] = t[i]
    <3>1. /\ key \in Seq(D) /\ Len(key) = Len(u) + Len(t)
          /\ \A i \in 1..Len(u) + Len(t) :
                key[i] = IF i <= Len(u) THEN u[i] ELSE t[i - Len(u)]
      <4>1. u \in Seq(D) /\ t \in Seq(D)
        BY <2>1, <2>2
      <4>2. QED
        BY <4>1, ConcatProperties, Zenon
    <3>2. Len(u) \in Nat /\ Len(t) \in Nat
      BY <2>1, <2>2
    <3> HIDE DEF key
    <3>3. ASSUME NEW i \in 1..Len(u) PROVE key[i] = u[i]
      <4>1. i \in 1..Len(u) + Len(t) /\ i <= Len(u)
        BY <3>2
      <4>2. QED
        BY <3>1, <4>1
    <3>4. ASSUME NEW i \in 1..Len(t) PROVE key[Len(u) + i] = t[i]
      <4>1. /\ Len(u) + i \in 1..Len(u) + Len(t) /\ ~ (Len(u) + i <= Len(u))
            /\ Len(u) + i - Len(u) = i
        BY <3>2
      <4>2. QED
        BY <3>1, <4>1
    <3>5. QED
      BY <3>1, <3>3, <3>4
  <2>4. MakeKey(s, t) = [i \in DOMAIN key |-> Lower(key[i])]
    BY DEF MakeKey, u
  <2> HIDE DEF key
  <2>5. DOMAIN key = 1..Len(s) + 1 + Len(t) /\ Len(s) \in Nat /\ Len(t) \in Nat
    BY <2>2, <2>3
  <2>6. /\ \A i \in 1..Len(s) : key[i] = s[i] /\ i \in DOMAIN key
        /\ key[Len(s) + 1] = "=" /\ Len(s) + 1 \in DOMAIN key
        /\ \A i \in 1..Len(t) : key[Len(s) + 1 + i] = t[i] /\ Len(s) + 1 + i \in DOMAIN key
    BY <2>2, <2>3, <2>5
  <2>7. QED
    BY <2>4, <2>5, <2>6
<1>3. ASSUME NEW p \in Call, NEW q \in Call, NoSign(p.name), NoSign(q.name),
             MakeKey(p.section, p.name) = MakeKey(q.section, q.name)
      PROVE  Len(p.section) >= Len(q.section)
  <2>1. /\ p.section \in Seq(Characters) /\ p.name \in Seq(Characters)
        /\ q.section \in Seq(Characters) /\ q.name \in Seq(Characters)
    BY DEF Call
  <2> DEFINE m == Len(p.section)
             n == Len(q.section)
             i == n - m
  <2> SUFFICES ASSUME m < n PROVE FALSE
    BY <2>1
  <2>2. /\ DOMAIN MakeKey(p.section, p.name) = 1..m + 1 + Len(p.name)
        /\ DOMAIN MakeKey(q.section, q.name) = 1..n + 1 + Len(q.name)
        /\ MakeKey(q.section, q.name)[n + 1] = "="
        /\ \A j \in 1..Len(p.name) :
              MakeKey(p.section, p.name)[m + 1 + j] = Lower(p.name[j])
    BY <1>2, <2>1, LowerAssumption DEF LowerAssumption
  <2>3. n + 1 \in 1..m + 1 + Len(p.name) /\ Len(p.name) \in Nat /\ m \in Nat /\ n \in Nat
    <3>1. m \in Nat /\ n \in Nat /\ Len(p.name) \in Nat /\ Len(q.name) \in Nat
      BY <2>1
    <3>2. 1..m + 1 + Len(p.name) = 1..n + 1 + Len(q.name)
      BY <1>3, <2>2
    <3> HIDE DEF m, n
    <3>3. n + 1 \in 1..n + 1 + Len(q.name)
      <4>1. PICK l : l = Len(q.name)
        OBVIOUS
      <4>2. l \in Nat
        BY <3>1, <4>1
      <4>3. n + 1 \in 1..n + 1 + l
        BY <3>1, <4>2
      <4>4. QED
        BY <4>1, <4>3
    <3>4. QED
      BY <3>1, <3>2, <3>3
  <2>4. i \in 1..Len(p.name) /\ m + 1 + i = n + 1
    <3>1. PICK l : l = Len(p.name)
      OBVIOUS
    <3>2. m < n
      OBVIOUS
    <3> HIDE DEF m, n
    <3>3. m \in Nat /\ n \in Nat /\ l \in Nat /\ n + 1 \in 1..m + 1 + l
      BY <2>3, <3>1, Zenon
    <3>4. i \in 1..l /\ m + 1 + i = n + 1
      BY <3>2, <3>3
    <3>5. QED
      BY <3>1, <3>4
  <2>5. Lower(p.name[i]) = "="
    BY <1>3, <2>2, <2>4
  <2>6. p.name[i] \in Characters /\ p.name[i] # "="
    <3> HIDE DEF i
    <3>1. QED
      BY <1>3, <2>1, <2>4 DEF NoSign
  <2>7. QED
    BY <2>5, <2>6, LowerAssumption DEF LowerAssumption
<1>4. ASSUME MakeKey(a.section, a.name) = MakeKey(b.section, b.name)
      PROVE  SameEntry(a, b)
  <2>1. Len(a.section) = Len(b.section)
    <3>1. Len(a.section) >= Len(b.section) /\ Len(b.section) >= Len(a.section)
      BY <1>3, <1>4
    <3>2. QED
      BY <1>1, <3>1
  <2>2. /\ DOMAIN MakeKey(a.section, a.name) = 1..Len(a.section) + 1 + Len(a.name)
        /\ DOMAIN MakeKey(b.section, b.name) = 1..Len(b.section) + 1 + Len(b.name)
    BY <1>1, <1>2
  <2>3. Len(a.name) = Len(b.name)
    <3>1. PICK m, n, k : m = Len(a.section) /\ n = Len(a.name) /\ k = Len(b.name)
      OBVIOUS
    <3>2. m \in Nat /\ n \in Nat /\ k \in Nat
      BY <1>1, <3>1
    <3>3. 1..m + 1 + n = 1..m + 1 + k
      BY <1>4, <2>1, <2>2, <3>1
    <3>4. m + 1 + n \in 1..m + 1 + k /\ m + 1 + k \in 1..m + 1 + n
      BY <3>2, <3>3
    <3>5. QED
      BY <3>1, <3>2, <3>4
  <2>4. /\ \A i \in 1..Len(a.section) :
              MakeKey(a.section, a.name)[i] = Lower(a.section[i])
        /\ \A i \in 1..Len(a.name) :
              MakeKey(a.section, a.name)[Len(a.section) + 1 + i] = Lower(a.name[i])
    BY <1>1, <1>2
  <2>5. /\ \A i \in 1..Len(b.section) :
              MakeKey(b.section, b.name)[i] = Lower(b.section[i])
        /\ \A i \in 1..Len(b.name) :
              MakeKey(b.section, b.name)[Len(b.section) + 1 + i] = Lower(b.name[i])
    BY <1>1, <1>2
  <2>6. \A i \in 1..Len(a.section) : Lower(a.section[i]) = Lower(b.section[i])
    BY <1>4, <2>1, <2>4, <2>5, ZenonT(60)
  <2>7. \A i \in 1..Len(a.name) : Lower(a.name[i]) = Lower(b.name[i])
    BY <1>4, <2>1, <2>3, <2>4, <2>5, Zenon
  <2>8. DOMAIN a.section = 1..Len(a.section) /\ DOMAIN a.name = 1..Len(a.name)
    BY <1>1
  <2>9. QED
    BY <2>1, <2>3, <2>6, <2>7, <2>8, Zenon DEF SameEntry
<1>5. ASSUME SameEntry(a, b)
      PROVE  MakeKey(a.section, a.name) = MakeKey(b.section, b.name)
  <2> DEFINE K == MakeKey(a.section, a.name)
             L == MakeKey(b.section, b.name)
             m == Len(a.section)
             n == Len(a.name)
  <2>1. /\ m \in Nat /\ n \in Nat /\ Len(b.section) = m /\ Len(b.name) = n
        /\ \A i \in 1..m : Lower(a.section[i]) = Lower(b.section[i])
        /\ \A i \in 1..n : Lower(a.name[i]) = Lower(b.name[i])
    BY <1>1, <1>5 DEF SameEntry
  <2>2. /\ DOMAIN K = 1..m + 1 + n
        /\ \A i \in 1..m : K[i] = Lower(a.section[i])
        /\ K[m + 1] = Lower("=")
        /\ \A i \in 1..n : K[m + 1 + i] = Lower(a.name[i])
    BY <1>1, <1>2
  <2>3. /\ DOMAIN L = 1..m + 1 + n
        /\ \A i \in 1..m : L[i] = Lower(b.section[i])
        /\ L[m + 1] = Lower("=")
        /\ \A i \in 1..n : L[m + 1 + i] = Lower(b.name[i])
    <3>1. /\ DOMAIN L = 1..Len(b.section) + 1 + Len(b.name)
          /\ \A i \in 1..Len(b.section) : L[i] = Lower(b.section[i])
          /\ L[Len(b.section) + 1] = Lower("=")
          /\ \A i \in 1..Len(b.name) : L[Len(b.section) + 1 + i] = Lower(b.name[i])
      BY <1>1, <1>2
    <3> HIDE DEF L, m, n
    <3>2. QED
      BY <2>1, <3>1, Zenon
  <2>4. K = [i \in DOMAIN K |-> K[i]] /\ L = [i \in DOMAIN L |-> L[i]]
    BY DEF MakeKey
  <2> HIDE DEF K, L, m, n
  <2>5. ASSUME NEW i \in 1..m + 1 + n PROVE K[i] = L[i]
    <3>1. i \in 1..m \/ i = m + 1 \/ (i - m - 1 \in 1..n /\ m + 1 + (i - m - 1) = i)
      BY <2>1
    <3>2. CASE i \in 1..m \/ i = m + 1
      <4>1. CASE i = m + 1
        BY <2>2, <2>3, <4>1
      <4>2. CASE i \in 1..m
        <5>1. K[i] = Lower(a.section[i]) /\ L[i] = Lower(b.section[i])
          BY <2>2, <2>3, <4>2
        <5>2. Lower(a.section[i]) = Lower(b.section[i])
          BY <2>1, <4>2
        <5>3. QED
          BY <5>1, <5>2
      <4>3. QED
        BY <3>2, <4>1, <4>2
    <3>3. CASE i - m - 1 \in 1..n /\ m + 1 + (i - m - 1) = i
      <4>1. PICK j \in 1..n : m + 1 + j = i
        BY <3>3
      <4>2. K[m + 1 + j] = Lower(a.name[j]) /\ L[m + 1 + j] = Lower(b.name[j])
        BY <2>2, <2>3, <4>1
      <4>3. Lower(a.name[j]) = Lower(b.name[j])
        BY <2>1, <4>1
      <4>4. QED
        BY <4>1, <4>2, <4>3
    <3>4. QED
      BY <3>1, <3>2, <3>3
  <2>6. K = L
    BY <2>2, <2>3, <2>4, <2>5, ZenonT(60)
  <2>7. QED
    BY <2>6 DEF K, L
<1>6. QED
  BY <1>4, <1>5

-----------------------------------------------------------------------------
(* The map has for every entry what the file had for it so far.            *)
Collected ==
    \A e \in Call : NoSign(e.name) =>
        Stored(MakeKey(e.section, e.name)) = InFile(e, calls)

(* The handler collects the call that a turn of the parser makes.          *)
LEMMA CollectStep ==
  ASSUME LowerAssumption, IInv, IInv', Collected, Construct
  PROVE  Collected'
<1>1. calls \in Seq(Call) /\ calls' \in Seq(Call)
  BY DEF IInv, TypeOK, Call
<1>2. calls' = calls \/ \E c \in Call : calls' = Append(calls, c)
  <2>1. PICK c : calls' = calls \/ calls' = Append(calls, c)
    BY DEF Construct, Parse, skip, section_line, continuation, pair, HANDLER
  <2>2. CASE calls' = Append(calls, c)
    <3>1. /\ calls'[Len(calls')] = c /\ Len(calls') \in DOMAIN calls'
      BY <1>1, <2>2
    <3>2. c \in Call
      BY <1>1, <3>1
    <3>3. QED
      BY <2>2, <3>2
  <2>3. QED
    BY <2>1, <2>2
<1>3. CASE calls' = calls
  <2>1. UNCHANGED _values
    BY <1>1, <1>3 DEF Construct
  <2>2. QED
    BY <1>3, <2>1 DEF Collected, Stored
<1>4. ASSUME NEW c \in Call, calls' = Append(calls, c) PROVE Collected'
  <2>1. Len(calls') > Len(calls) /\ calls'[Len(calls')] = c /\ Len(calls') \in DOMAIN calls'
    BY <1>1, <1>4
  <2> DEFINE key == MakeKey(c.section, c.name)
             old == Stored(key)
  <2>2. _values' = [k \in DOMAIN _values \cup {key} |->
                      IF k = key THEN Extended(old, c.value) ELSE _values[k]]
    BY <2>1 DEF Construct, ValueHandler
  <2>3. NoSign(c.name) /\ c.value \in Seq(Characters)
    <3>1. NoSign(c.name)
      BY <2>1 DEF IInv, NoSignInName, NoSign
    <3>2. QED
      BY <3>1 DEF Call
  <2> SUFFICES ASSUME NEW e \in Call, NoSign(e.name)
               PROVE  Stored(MakeKey(e.section, e.name))' = InFile(e, calls')
    BY DEF Collected
  <2> DEFINE k == MakeKey(e.section, e.name)
  <2>4. Stored(k) = InFile(e, calls)
    BY DEF Collected
  <2>5. InFile(e, calls') = Join(e, InFile(e, calls), c)
    BY <1>1, <1>4, InFileIs
  <2>6. k = key <=> SameEntry(c, e)
    BY <2>3, KeysDiffer
  <2>7. Stored(k)' = IF k = key THEN Extended(old, c.value) ELSE Stored(k)
    <3>1. Stored(k)' = IF k \in DOMAIN _values' THEN _values'[k] ELSE << >>
      BY DEF Stored
    <3> HIDE DEF k, key, old
    <3>2. QED
      BY <2>2, <3>1 DEF Stored
  <2>8. << >> \o c.value = c.value
    BY <2>3, ConcatEmptySeq
  <2>9. CASE k = key
    <3>1. old = InFile(e, calls)
      BY <2>4, <2>9
    <3>2. Extended(old, c.value) = Join(e, old, c)
      BY <2>6, <2>8, <2>9 DEF Extended, Join
    <3>3. QED
      BY <2>5, <2>7, <2>9, <3>1, <3>2
  <2>10. CASE k # key
    <3>1. Join(e, InFile(e, calls), c) = InFile(e, calls)
      BY <2>6, <2>10 DEF Join
    <3>2. QED
      BY <2>4, <2>5, <2>7, <2>10, <3>1
  <2>11. QED
    BY <2>9, <2>10
<1>5. QED
  BY <1>2, <1>3, <1>4

(* INIReader answers with the values that the file has for an entry, all   *)
(* of them in their order, and with none of another entry (lines 61-81 of  *)
(* INIReader.cpp), whatever the file, the sections and the names.          *)
THEOREM AnswersFile == ReaderSpec => []GetAnswersFile
<1> USE LowerAssumption
<1>1. ReaderInit => IInv /\ Collected
  <2> SUFFICES ASSUME ReaderInit PROVE Collected
    BY InitInv DEF ReaderInit
  <2>1. calls = << >> /\ _values = << >>
    BY DEF ReaderInit, Init
  <2>2. ASSUME NEW e \in Call
        PROVE  Stored(MakeKey(e.section, e.name)) = InFile(e, calls)
    <3>1. InFile(e, << >>) = << >>
      <4>1. << >> \in Seq(Call)
        OBVIOUS
      <4>2. QED
        BY <4>1, InFileIs
    <3>2. DOMAIN _values = {}
      BY <2>1
    <3>3. QED
      BY <2>1, <3>1, <3>2 DEF Stored
  <2>3. QED
    BY <2>2 DEF Collected
<1>2. IInv /\ Collected /\ [Construct \/ Constructed]_readerVars => (IInv /\ Collected)'
  <2> SUFFICES ASSUME IInv, Collected, [Construct \/ Constructed]_readerVars
               PROVE  IInv' /\ Collected'
    OBVIOUS
  <2>1. [Next]_vars
    BY DEF Construct, Constructed, Next, readerVars
  <2>2. IInv'
    BY <2>1, InvStep
  <2>3. CASE Construct
    BY <2>2, <2>3, CollectStep
  <2>4. ASSUME UNCHANGED <<calls, _values>> PROVE Collected'
    BY <2>4 DEF Collected, Stored
  <2>5. CASE Constructed
    BY <2>2, <2>4, <2>5 DEF Constructed, Returned, vars
  <2>6. CASE UNCHANGED readerVars
    BY <2>2, <2>4, <2>6 DEF readerVars, vars
  <2>7. QED
    BY <2>2, <2>3, <2>5, <2>6
<1>3. IInv /\ Collected => GetAnswersFile
  <2> SUFFICES ASSUME IInv, Collected, NEW k \in DOMAIN calls
               PROVE  Get(calls[k].section, calls[k].name, << >>) = InFile(calls[k], calls)
    BY DEF GetAnswersFile
  <2>1. calls \in Seq(Call)
    BY DEF IInv, TypeOK, Call
  <2>2. calls[k] \in Call /\ NoSign(calls[k].name)
    BY <2>1 DEF IInv, NoSignInName, NoSign
  <2>3. QED
    BY <2>2 DEF Collected, Get, Stored
<1>4. QED
  BY <1>1, <1>2, <1>3, PTL DEF ReaderSpec

=============================================================================
