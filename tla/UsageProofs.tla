---------------------------- MODULE UsageProofs ----------------------------
(***************************************************************************)
(* Proofs about the printing of a usage array.                             *)
(*                                                                         *)
(* The ring buffer of a LineWrapper is a queue, for buffers of every size: *)
(* it holds bufmask lines, one slot staying unused, gives them back in the *)
(* order in which they were stored, and tells empty from full.             *)
(*                                                                         *)
(* The iterator stays inside the help text that it goes through, and the   *)
(* loop of its next() ends.  From that, and from what a buffer does, it    *)
(* follows that printUsage() keeps to the queues in every step, and that   *)
(* its search for column widths comes to an end.                           *)
(*                                                                         *)
(* The pass that prints meets the parts that the search for widths has met,*)
(* and so a part that the widths do not fit is wider than all of them: the *)
(* cursor is at its tab stop wherever a part begins.                       *)
(*                                                                         *)
(* The iterator goes through the cells of a row in the order of their      *)
(* lines: what it keeps of a row, its column, its line and the depth of    *)
(* the cells it has seen, is right at every part.                          *)
(***************************************************************************)
EXTENDS UsagePrinter, SequenceTheorems, FiniteSetTheorems, WellFoundedInduction, TLAPS

Text == Seq(Nat)

(* What the constructor and the four operations keep.                      *)
Buffer(w) ==
    w \in [buf : [0..bufmask -> Text], x : Int, width : Int, head : 0..bufmask,
           tail : 0..bufmask, wrote_something : BOOLEAN]

Count(w) == IF w.head > w.tail THEN w.head - w.tail - 1 ELSE w.head - w.tail + bufmask

LEMMA SlotType ==
  ASSUME NEW w, Buffer(w), NEW i \in 1..bufmask
  PROVE  Slot(w, i) \in 0..bufmask
BY BufmaskAssumption DEF Slot, Buffer

LEMMA WaitingType ==
  ASSUME NEW w, Buffer(w)
  PROVE  /\ Count(w) \in 0..bufmask
         /\ Waiting(w) \in Seq(Text) /\ Len(Waiting(w)) = Count(w)
         /\ \A i \in 1..Count(w) : Waiting(w)[i] = w.buf[Slot(w, i)]
<1>1. Count(w) \in 0..bufmask
  BY BufmaskAssumption DEF Count, Buffer
<1>2. Waiting(w) = [i \in 1..Count(w) |-> w.buf[Slot(w, i)]]
  BY DEF Waiting, Count
<1>3. \A i \in 1..Count(w) : w.buf[Slot(w, i)] \in Text
  <2> SUFFICES ASSUME NEW i \in 1..Count(w) PROVE w.buf[Slot(w, i)] \in Text
    OBVIOUS
  <2>1. i \in 1..bufmask
    BY <1>1, BufmaskAssumption
  <2>2. Slot(w, i) \in 0..bufmask
    BY <2>1, SlotType
  <2>3. QED
    BY <2>2 DEF Buffer
<1>4. QED
  BY <1>1, <1>2, <1>3

-----------------------------------------------------------------------------
(* buf_empty() and buf_full() tell how many lines wait.                    *)
THEOREM EmptyAndFull ==
  ASSUME NEW w, Buffer(w)
  PROVE  /\ buf_empty(w) <=> Waiting(w) = << >>
         /\ buf_full(w) <=> Len(Waiting(w)) = bufmask
<1>1. Len(Waiting(w)) = Count(w) /\ Waiting(w) \in Seq(Text)
  BY WaitingType
<1>2. buf_empty(w) <=> Count(w) = 0
  BY BufmaskAssumption DEF buf_empty, After, Count, Buffer
<1>3. buf_full(w) <=> Count(w) = bufmask
  BY BufmaskAssumption DEF buf_full, Count, Buffer
<1>4. Waiting(w) = << >> <=> Count(w) = 0
  BY <1>1, EmptySeq
<1>5. QED
  BY <1>1, <1>2, <1>3, <1>4

(* buf_store() puts a line behind those that wait, if there is room.       *)
THEOREM StorePuts ==
  ASSUME NEW w, Buffer(w), ~ buf_full(w), NEW text \in Text
  PROVE  /\ Buffer(buf_store(w, text))
         /\ Waiting(buf_store(w, text)) = Append(Waiting(w), text)
<1> DEFINE v == buf_store(w, text)
           n == Count(w)
<1>1. /\ v.buf = [w.buf EXCEPT ![w.head] = text] /\ v.head = After(w.head) /\ v.tail = w.tail
      /\ Buffer(v)
  <2>1. After(w.head) \in 0..bufmask
    BY BufmaskAssumption DEF Buffer, After
  <2>2. [w.buf EXCEPT ![w.head] = text] \in [0..bufmask -> Text]
    BY DEF Buffer
  <2>3. v = [w EXCEPT !.buf = [w.buf EXCEPT ![w.head] = text], !.head = After(w.head)]
    BY DEF buf_store, Buffer
  <2>4. QED
    BY <2>1, <2>2, <2>3 DEF Buffer
<1>0. /\ w.head \in 0..bufmask /\ w.tail \in 0..bufmask /\ v.tail = w.tail /\ bufmask \in Nat \ {0}
      /\ w.head # w.tail /\ v.head = After(w.head)
  BY <1>1, BufmaskAssumption DEF Buffer, buf_full
<1>2. n \in 0..bufmask - 1 /\ Count(v) = n + 1
  <2>1. n \in 0..bufmask - 1
    BY <1>0 DEF Count
  <2>2. Count(v) = n + 1
    BY <1>0 DEF Count, After
  <2>3. QED
    BY <2>1, <2>2
<1>3. Slot(v, n + 1) = w.head
  BY <1>0 DEF Slot, Count
<1>4. ASSUME NEW i \in 1..n
      PROVE  Slot(v, i) = Slot(w, i) /\ Slot(w, i) # w.head /\ Slot(w, i) \in 0..bufmask
  BY <1>0 DEF Slot, Count
<1>5. v.buf[w.head] = text /\ \A i \in 1..n : v.buf[Slot(v, i)] = w.buf[Slot(w, i)]
  BY <1>1, <1>4 DEF Buffer
<1>6. /\ Waiting(w) \in Seq(Text) /\ Len(Waiting(w)) = n
      /\ \A i \in 1..n : Waiting(w)[i] = w.buf[Slot(w, i)]
      /\ Waiting(v) \in Seq(Text) /\ Len(Waiting(v)) = n + 1
      /\ \A i \in 1..n + 1 : Waiting(v)[i] = v.buf[Slot(v, i)]
  BY <1>1, <1>2, WaitingType
<1>7. /\ Append(Waiting(w), text) \in Seq(Text) /\ Len(Append(Waiting(w), text)) = n + 1
      /\ \A i \in 1..n : Append(Waiting(w), text)[i] = Waiting(w)[i]
      /\ Append(Waiting(w), text)[n + 1] = text
  BY <1>6, AppendProperties
<1> HIDE DEF v, n
<1>8. \A i \in 1..n + 1 : Waiting(v)[i] = Append(Waiting(w), text)[i]
  <2> SUFFICES ASSUME NEW i \in 1..n + 1 PROVE Waiting(v)[i] = Append(Waiting(w), text)[i]
    OBVIOUS
  <2>1. CASE i = n + 1
    BY <1>3, <1>5, <1>6, <1>7, <2>1
  <2>2. CASE i # n + 1
    <3>1. i \in 1..n
      BY <1>2, <2>2
    <3>2. QED
      BY <1>5, <1>6, <1>7, <3>1
  <2>3. QED
    BY <2>1, <2>2
<1>9. Waiting(v) = Append(Waiting(w), text)
  BY <1>6, <1>7, <1>8, SeqEqual
<1>10. QED
  BY <1>1, <1>9 DEF v

(* buf_next() takes the first of the lines that wait.                      *)
THEOREM NextTakes ==
  ASSUME NEW w, Buffer(w), ~ buf_empty(w)
  PROVE  /\ Buffer(buf_next(w))
         /\ w.buf[After(w.tail)] = Head(Waiting(w))
         /\ Waiting(buf_next(w)) = Tail(Waiting(w))
<1> DEFINE v == buf_next(w)
           n == Count(w)
<1>1. /\ v.buf = w.buf /\ v.head = w.head /\ v.tail = After(w.tail) /\ Buffer(v)
  <2>1. After(w.tail) \in 0..bufmask
    BY BufmaskAssumption DEF Buffer, After
  <2>2. QED
    BY <2>1 DEF buf_next, Buffer
<1>0. /\ w.head \in 0..bufmask /\ w.tail \in 0..bufmask /\ bufmask \in Nat \ {0}
      /\ After(w.tail) # w.head /\ v.head = w.head /\ v.tail = After(w.tail)
  BY <1>1, BufmaskAssumption DEF Buffer, buf_empty
<1>2. n \in 1..bufmask /\ Count(v) = n - 1
  <2>1. n \in 1..bufmask
    BY <1>0 DEF Count, After
  <2>2. Count(v) = n - 1
    BY <1>0 DEF Count, After
  <2>3. QED
    BY <2>1, <2>2
<1>3. Slot(w, 1) = After(w.tail)
  BY BufmaskAssumption DEF Slot, After, Buffer
<1>4. \A i \in 1..n - 1 : Slot(v, i) = Slot(w, i + 1)
  BY <1>0, <1>2 DEF Slot, After
<1>5. /\ Waiting(w) \in Seq(Text) /\ Len(Waiting(w)) = n
      /\ \A i \in 1..n : Waiting(w)[i] = w.buf[Slot(w, i)]
      /\ Waiting(v) \in Seq(Text) /\ Len(Waiting(v)) = n - 1
      /\ \A i \in 1..n - 1 : Waiting(v)[i] = v.buf[Slot(v, i)]
  BY <1>1, <1>2, WaitingType
<1>6. Waiting(w) # << >>
  BY <1>2, <1>5, EmptySeq
<1>7. /\ Tail(Waiting(w)) \in Seq(Text) /\ Len(Tail(Waiting(w))) = n - 1
      /\ \A i \in 1..n - 1 : Tail(Waiting(w))[i] = Waiting(w)[i + 1]
  BY <1>5, <1>6, HeadTailProperties
<1>8. Head(Waiting(w)) = Waiting(w)[1]
  BY <1>5, <1>6
<1> HIDE DEF v, n
<1>9. \A i \in 1..n - 1 : Waiting(v)[i] = Tail(Waiting(w))[i]
  <2> SUFFICES ASSUME NEW i \in 1..n - 1 PROVE Waiting(v)[i] = Tail(Waiting(w))[i]
    OBVIOUS
  <2>1. i + 1 \in 1..n
    BY <1>2
  <2>2. QED
    BY <1>1, <1>4, <1>5, <1>7, <2>1
<1>10. Waiting(v) = Tail(Waiting(w))
  BY <1>5, <1>7, <1>9, SeqEqual
<1>11. w.buf[After(w.tail)] = Head(Waiting(w))
  BY <1>2, <1>3, <1>5, <1>8
<1>12. QED
  BY <1>1, <1>10, <1>11 DEF v

(* output() of a line keeps every line: the first is written if all slots  *)
(* but one are taken, and then there is room.                              *)
THEOREM OutputKeepsLines ==
  ASSUME NEW w, Buffer(w), NEW text \in Text
  PROVE  IF buf_full(w)
         THEN /\ one_line(w) = line_break(w) \o Head(Waiting(w))
              /\ Waiting(buf_store(line_written(w), text)) = Append(Tail(Waiting(w)), text)
         ELSE Waiting(buf_store(w, text)) = Append(Waiting(w), text)
<1>1. CASE ~ buf_full(w)
  BY <1>1, StorePuts
<1>2. CASE buf_full(w)
  <2> DEFINE v == line_written(w)
  <2>1. ~ buf_empty(w)
    BY <1>2, BufmaskAssumption DEF buf_full, buf_empty, After, Buffer
  <2>2. v = [buf_next(w) EXCEPT !.wrote_something = TRUE]
    BY <2>1 DEF line_written
  <2>3. Buffer(buf_next(w)) /\ Waiting(buf_next(w)) = Tail(Waiting(w))
    BY <2>1, NextTakes
  <2>4. /\ v.buf = buf_next(w).buf /\ v.head = buf_next(w).head /\ v.tail = buf_next(w).tail
        /\ Buffer(v)
    BY <2>2, <2>3 DEF Buffer
  <2>5. Waiting(v) = Tail(Waiting(w))
    BY <2>3, <2>4 DEF Waiting, Slot
  <2>6. ~ buf_full(v)
    <3>1. v.head = w.head /\ v.tail = After(w.tail)
      BY <2>4 DEF buf_next, Buffer
    <3>2. QED
      BY <1>2, <3>1, BufmaskAssumption DEF buf_full, After, Buffer
  <2> HIDE DEF v
  <2>7. Waiting(buf_store(v, text)) = Append(Tail(Waiting(w)), text)
    BY <2>4, <2>5, <2>6, StorePuts
  <2>8. one_line(w) = line_break(w) \o Head(Waiting(w))
    BY <2>1, NextTakes DEF one_line
  <2>9. QED
    BY <1>2, <2>7, <2>8 DEF v
<1>3. QED
  BY <1>1, <1>2

-----------------------------------------------------------------------------
(***************************************************************************)
(* Least numbers, and recursion that ends.                                 *)
(***************************************************************************)

LEMMA MinIs ==
  ASSUME NEW S \in SUBSET Nat, S # {}
  PROVE  Min(S) \in S /\ \A y \in S : Min(S) <= y
<1> DEFINE R == {p \in Nat \X Nat : p[1] < p[2]}
<1>1. IsWellFoundedOn(R, Nat)
  BY NatLessThanWellFounded DEF OpToRel
<1>2. \A i, j \in Nat : i < j => <<i, j>> \in R
  OBVIOUS
<1> HIDE DEF R
<1>3. PICK m \in S : \A y \in S : ~ (<<y, m>> \in R)
  BY <1>1, WFMin
<1>4. ASSUME NEW y \in S PROVE m <= y
  <2>1. m \in Nat /\ y \in Nat /\ ~ (<<y, m>> \in R)
    BY <1>3
  <2>2. ~ (y < m)
    BY <1>2, <2>1
  <2>3. QED
    BY <2>1, <2>2
<1>5. QED
  BY <1>4 DEF Min

LEMMA MaxIs ==
  ASSUME NEW S \in SUBSET Nat, S # {}, NEW b \in Nat, \A y \in S : y <= b
  PROVE  Max(S) \in S /\ \A y \in S : Max(S) >= y
<1> DEFINE R == {b - y : y \in S}
           m == Min(R)
<1>1. R \in SUBSET Nat /\ R # {}
  <2>1. \A y \in S : b - y \in Nat
    OBVIOUS
  <2>2. QED
    BY <2>1
<1>2. m \in R /\ \A y \in R : m <= y
  BY <1>1, MinIs
<1> HIDE DEF m
<1>3. PICK n \in S : m = b - n
  BY <1>2
<1>4. \A y \in S : n >= y
  <2> TAKE y \in S
  <2>1. m <= b - y
    BY <1>2
  <2>2. QED
    BY <1>3, <2>1
<1>5. QED
  BY <1>4 DEF Max

(* What holds of an element if it holds of all with a lower number, holds  *)
(* of all.                                                                 *)
LEMMA Descent ==
  ASSUME NEW A, NEW m, \A q \in A : m[q] \in Nat, NEW T,
         \A q \in A : (\A r \in A : m[r] < m[q] => r \in T) => q \in T
  PROVE  \A q \in A : q \in T
<1> DEFINE S == {m[q] : q \in A \ T}
<1>1. S \in SUBSET Nat
  OBVIOUS
<1>2. CASE S # {}
  <2>1. Min(S) \in S /\ \A y \in S : Min(S) <= y
    BY <1>1, <1>2, MinIs
  <2>2. PICK q \in A \ T : m[q] = Min(S)
    BY <2>1
  <2>3. \A r \in A : m[r] < m[q] => r \in T
    <3> SUFFICES ASSUME NEW r \in A, m[r] < m[q], r \notin T
                 PROVE  FALSE
      OBVIOUS
    <3>1. m[r] \in S
      OBVIOUS
    <3> HIDE DEF S
    <3>2. m[q] <= m[r]
      BY <2>1, <2>2, <3>1
    <3>3. m[q] \in Nat /\ m[r] \in Nat
      OBVIOUS
    <3>4. QED
      BY <3>2, <3>3
  <2>4. QED
    BY <2>2, <2>3
<1>3. CASE S = {}
  BY <1>3
<1>4. QED
  BY <1>2, <1>3

(* A loop has a result everywhere: that of the place where it stops, or,   *)
(* if there is none, any.                                                  *)
Loops(D, S, step, res, f) == f = [i \in D |-> IF i \in S THEN res[i] ELSE f[step[i]]]

LEMMA LoopExists ==
  ASSUME NEW D, NEW S, NEW step, NEW res, \A i \in D : i \notin S => step[i] \in D
  PROVE  \E f : Loops(D, S, step, res, f)
<1> DEFINE Closed(C) == \A k \in C : k \notin S => step[k] \in C
           Reached == [i \in D |-> {j \in D : \A C \in SUBSET D : i \in C /\ Closed(C) => j \in C}]
           Ends == [i \in D |-> {j \in Reached[i] : j \in S}]
           f == [i \in D |-> IF i \in S THEN res[i] ELSE res[CHOOSE j : j \in Ends[i]]]
<1>1. ASSUME NEW i \in D, i \in S
      PROVE  Ends[i] = {i}
  <2>1. {i} \in SUBSET D /\ Closed({i})
    BY <1>1
  <2>2. i \in Reached[i]
    OBVIOUS
  <2>3. \A j \in Reached[i] : j = i
    BY <2>1
  <2>4. QED
    BY <1>1, <2>2, <2>3
<1>2. ASSUME NEW i \in D, i \notin S
      PROVE  Ends[i] = Ends[step[i]]
  <2>1. step[i] \in D
    BY <1>2
  <2>2. ASSUME NEW j \in Reached[step[i]]
        PROVE  j \in Reached[i]
    <3>1. \A C \in SUBSET D : i \in C /\ Closed(C) => step[i] \in C
      BY <1>2
    <3>2. \A C \in SUBSET D : step[i] \in C /\ Closed(C) => j \in C
      BY <2>1
    <3>3. j \in D
      BY <2>1
    <3>4. QED
      BY <3>1, <3>2, <3>3
  <2>3. ASSUME NEW j \in Reached[i], j \in S
        PROVE  j \in Reached[step[i]]
    <3> SUFFICES ASSUME NEW C \in SUBSET D, step[i] \in C, Closed(C)
                 PROVE  j \in C
      BY <2>1
    <3>1. C \cup {i} \in SUBSET D /\ i \in C \cup {i} /\ Closed(C \cup {i})
      OBVIOUS
    <3>2. j \in C \cup {i}
      BY <3>1
    <3>3. QED
      BY <1>2, <2>3, <3>2
  <2>4. QED
    BY <2>1, <2>2, <2>3
<1> HIDE DEF Ends
<1>3. ASSUME NEW i \in D, i \notin S
      PROVE  f[i] = f[step[i]]
  <2>1. step[i] \in D
    BY <1>3
  <2>2. f[i] = res[CHOOSE j : j \in Ends[i]]
    BY <1>3
  <2>3. CASE step[i] \in S
    <3>1. Ends[i] = {step[i]}
      BY <1>1, <1>2, <1>3, <2>1, <2>3
    <3>2. (CHOOSE j : j \in {step[i]}) = step[i]
      OBVIOUS
    <3>3. QED
      BY <2>1, <2>2, <2>3, <3>1, <3>2
  <2>4. CASE step[i] \notin S
    BY <1>2, <1>3, <2>1, <2>2, <2>4
  <2>5. QED
    BY <2>3, <2>4
<1>4. \A i \in D : f[i] = IF i \in S THEN res[i] ELSE f[step[i]]
  BY <1>3
<1> HIDE DEF f
<1>5. f = [i \in D |-> IF i \in S THEN res[i] ELSE f[step[i]]]
  <2>1. f = [i \in D |-> f[i]]
    BY DEF f
  <2>2. QED
    BY <1>4, <2>1
<1>6. QED
  BY <1>5 DEF Loops

-----------------------------------------------------------------------------
(***************************************************************************)
(* The iterator stays inside the help text that it goes through.           *)
(***************************************************************************)

Helps == Seq(Seq(Nat))

LEMMA HelpIs ==
  ASSUME NEW u \in Helps, NEW d
  PROVE  help(u, d) \in Seq(Nat) /\ Len(help(u, d)) \in Nat
<1>1. NoHelp \in Seq(Nat)
  BY DEF NoHelp, NUL
<1>2. \A i \in DOMAIN u : u[i] \in Seq(Nat)
  BY DEF Helps
<1>3. help(u, d) \in Seq(Nat)
  BY <1>1, <1>2 DEF help
<1>4. QED
  BY <1>3

Long(u, it) == Len(help(u, it.rowdesc))

LEMMA FindIs ==
  ASSUME NEW u \in Helps, NEW it, NEW i \in Nat, NEW chars
  PROVE  LET e == Find(u, it, i, chars)
             n == Long(u, it)
         IN  /\ e \in Nat /\ n \in Nat /\ e <= n + 1 /\ (i <= n + 1 => i <= e)
             /\ e <= n => help(u, it.rowdesc)[e] \in chars
             /\ \A j \in i..n : help(u, it.rowdesc)[j] \in chars => e <= j
<1> DEFINE h == help(u, it.rowdesc)
           n == Len(h)
           S == {j \in i..n : h[j] \in chars} \cup {n + 1}
           e == Min(S)
<1>1. h \in Seq(Nat) /\ n \in Nat
  BY HelpIs
<1>2. Find(u, it, i, chars) = e
  BY DEF Find
<1> HIDE DEF h, n
<1>3. S \in SUBSET Nat /\ S # {}
  BY <1>1
<1>4. e \in S /\ \A y \in S : e <= y
  BY <1>3, MinIs
<1> HIDE DEF e
<1>5. e \in Nat /\ e <= n + 1 /\ (i <= n + 1 => i <= e) /\ (e <= n => h[e] \in chars)
  BY <1>1, <1>4
<1>6. \A j \in i..n : h[j] \in chars => e <= j
  BY <1>4
<1>7. QED
  BY <1>1, <1>2, <1>5, <1>6 DEF Long, h, n

LEMMA ColumnsIs ==
  ASSUME NEW s \in Seq(Nat)
  PROVE  Columns(s) \in Nat
<1> DEFINE S == {i \in DOMAIN s : isWideChar(s[i])}
<1>1. DOMAIN s = 1..Len(s) /\ Len(s) \in Nat
  BY LenProperties
<1>2. IsFiniteSet(1..Len(s))
  BY <1>1, FS_Interval
<1>3. S \subseteq 1..Len(s)
  BY <1>1
<1>4. IsFiniteSet(S)
  BY <1>2, <1>3, FS_Subset
<1>5. Cardinality(S) \in Nat
  BY <1>4, FS_CardinalityType
<1>6. Columns(s) = Len(s) + Cardinality(S)
  BY DEF Columns
<1> HIDE DEF S
<1>7. QED
  BY <1>1, <1>5, <1>6

(* In the middle of a row; and at a part of it.                            *)
Inside(u, it) ==
    /\ it \in Iterator
    /\ it.ptr \in 1..Long(u, it) + 1 /\ it.rowstart \in 1..Long(u, it) + 1
    /\ it.line_in_block < it.ptr /\ it.max_line_in_block <= Long(u, it) + 1

AtPart(u, it) ==
    /\ Inside(u, it) /\ it.hit_target_line
    /\ it.len = Find(u, it, it.ptr, Separators) - it.ptr
    /\ it.screenlen = Columns(data(u, it))

LEMMA DataIs ==
  ASSUME NEW u \in Helps, NEW it, it.ptr \in 1..Long(u, it) + 1, it.len \in Nat,
         it.ptr + it.len <= Long(u, it) + 1
  PROVE  data(u, it) \in Seq(Nat) /\ Len(data(u, it)) = it.len
<1> DEFINE h == help(u, it.rowdesc)
           a == it.ptr
           b == it.ptr + it.len - 1
<1>1. h \in Seq(Nat) /\ Len(h) \in Nat /\ Long(u, it) = Len(h)
  BY HelpIs DEF Long
<1>2. a \in 1..Len(h) + 1 /\ b \in a - 1..Len(h)
  BY <1>1
<1>3. data(u, it) = SubSeq(h, a, b)
  BY DEF data
<1>4. a \in Int /\ b \in Int /\ it.len = (IF a <= b THEN b - a + 1 ELSE 0)
  <2>1. a \in Nat /\ it.len \in Nat /\ b = (a + it.len) - 1
    BY <1>1
  <2> HIDE DEF h, a, b
  <2>2. b \in Int /\ (it.len = 0 => ~ (a <= b)) /\ (it.len # 0 => a <= b) /\ b - a + 1 = it.len
    BY ONLY <2>1
  <2>3. QED
    BY ONLY <2>1, <2>2
<1> HIDE DEF h, a, b
<1>5. \A i \in a..b : h[i] \in Nat
  <2>1. \A i \in a..b : i \in 1..Len(h)
    BY <1>1, <1>2
  <2>2. QED
    BY <1>1, <2>1
<1>6. SubSeq(h, a, b) \in Seq(Nat) /\ Len(SubSeq(h, a, b)) = IF a <= b THEN b - a + 1 ELSE 0
  BY ONLY <1>4, <1>5, SubSeqProperties
<1>7. QED
  BY <1>3, <1>4, <1>6

(* update_length() finds the end of the part.                              *)
LEMMA UpdateIs ==
  ASSUME NEW u \in Helps, NEW it, Inside(u, it)
  PROVE  LET i == update_length(u, it)
         IN  /\ Inside(u, i) /\ (it.hit_target_line => AtPart(u, i))
             /\ i = [it EXCEPT !.len = i.len, !.screenlen = i.screenlen]
             /\ i.ptr + i.len <= Long(u, i) + 1
<1> DEFINE e == Find(u, it, it.ptr, Separators)
           l == e - it.ptr
           j == [it EXCEPT !.len = l]
           c == Columns(data(u, j))
           i == [j EXCEPT !.screenlen = c]
<1>1. update_length(u, it) = i
  BY DEF update_length
<1>2. it \in Iterator /\ it.ptr \in 1..Long(u, it) + 1 /\ it.ptr \in Nat
  BY DEF Inside, Iterator
<1>3. e \in Nat /\ Long(u, it) \in Nat /\ e <= Long(u, it) + 1 /\ it.ptr <= e
  BY <1>2, FindIs
<1> HIDE DEF e
<1>4. l \in Nat /\ it.ptr + l <= Long(u, it) + 1
  BY <1>2, <1>3
<1> HIDE DEF l
<1>5. j \in Iterator /\ j.ptr = it.ptr /\ j.rowdesc = it.rowdesc /\ j.len = l
  BY <1>2, <1>4 DEF Iterator
<1>6. Long(u, j) = Long(u, it)
  BY <1>5 DEF Long
<1> HIDE DEF j
<1>7. data(u, j) \in Seq(Nat)
  BY <1>2, <1>4, <1>5, <1>6, DataIs
<1>8. c \in Nat
  BY <1>7, ColumnsIs
<1> HIDE DEF c
<1>9. /\ i = [it EXCEPT !.len = l, !.screenlen = c] /\ i \in Iterator
      /\ i.ptr = it.ptr /\ i.rowdesc = it.rowdesc /\ i.len = l /\ i.screenlen = c
      /\ i.rowstart = it.rowstart /\ i.line_in_block = it.line_in_block
      /\ i.max_line_in_block = it.max_line_in_block /\ i.hit_target_line = it.hit_target_line
  BY <1>2, <1>4, <1>8 DEF j, Iterator
<1> HIDE DEF i
<1>10. data(u, i) = data(u, j) /\ Long(u, i) = Long(u, it)
  BY <1>5, <1>9 DEF data, Long
<1>11. Inside(u, i)
  BY <1>9, <1>10 DEF Inside
<1>12. Find(u, i, i.ptr, Separators) = Find(u, it, it.ptr, Separators)
  BY <1>9 DEF Find
<1>13. it.hit_target_line => AtPart(u, i)
  BY <1>9, <1>10, <1>11, <1>12 DEF AtPart, c, l, e
<1>14. QED
  BY <1>1, <1>4, <1>9, <1>10, <1>11, <1>13

-----------------------------------------------------------------------------
(* A turn of the loop of next(): the separator it looks at, whether it is  *)
(* the last one, what it returns then, and where it goes on.               *)
Ahead(u, i) == [i EXCEPT !.ptr = Find(u, i, i.ptr, Separators)]
Mark(u, i)  == Char(u, Ahead(u, i), Ahead(u, i).ptr)
Behind(u, i) == IF Mark(u, i) = VT THEN Down(Ahead(u, i)) ELSE Right(Ahead(u, i))
Onward(u, i) == IF Mark(u, i) \in {VT, TAB} THEN Behind(u, i) ELSE Again(Ahead(u, i))

Here(u, i)  == Mark(u, i) # VT /\ ~ i.hit_target_line
There(u, i) == Mark(u, i) \in {VT, TAB} /\ Behind(u, i).line_in_block = Behind(u, i).target_line_in_block
Over(u, i)  == Mark(u, i) \notin {VT, TAB} /\ ~ (i.target_line_in_block < i.max_line_in_block)

Stops(u, i) == Here(u, i) \/ There(u, i) \/ Over(u, i)

Returned(u, i) ==
    IF Here(u, i) THEN Found(u, Ahead(u, i))
    ELSE IF There(u, i) THEN Found(u, Behind(u, i))
    ELSE [ok |-> FALSE,
          it |-> update_length(u, [Ahead(u, i) EXCEPT !.target_line_in_block = @ + 1])]

LEMMA AheadIs ==
  ASSUME NEW u \in Helps, NEW i \in Iterator
  PROVE  LET j == Ahead(u, i)
         IN  /\ j \in Iterator /\ j = [i EXCEPT !.ptr = j.ptr] /\ j.ptr = Find(u, i, i.ptr, Separators)
             /\ Mark(u, i) \in {VT, TAB} => j.ptr <= Long(u, i)
             /\ Inside(u, i) => Inside(u, j) /\ i.ptr <= j.ptr
<1> DEFINE e == Find(u, i, i.ptr, Separators)
           j == [i EXCEPT !.ptr = e]
<1>1. i.ptr \in Nat
  BY DEF Iterator
<1>2. e \in Nat /\ Long(u, i) \in Nat /\ e <= Long(u, i) + 1 /\ (i.ptr <= Long(u, i) + 1 => i.ptr <= e)
  BY <1>1, FindIs
<1>3. Ahead(u, i) = j /\ e = Find(u, i, i.ptr, Separators)
  BY DEF Ahead
<1> HIDE DEF e
<1>4. /\ j \in Iterator /\ j.ptr = e /\ j.rowdesc = i.rowdesc /\ j.rowstart = i.rowstart
      /\ j.line_in_block = i.line_in_block /\ j.max_line_in_block = i.max_line_in_block
  BY <1>2 DEF Iterator
<1> HIDE DEF j
<1>5. Mark(u, i) \in {VT, TAB} => e <= Long(u, i)
  <2>1. Mark(u, i) = IF e > Long(u, i) THEN NUL ELSE help(u, i.rowdesc)[e]
    BY <1>3, <1>4 DEF Mark, Char, Long
  <2>2. NUL \notin {VT, TAB}
    BY DEF NUL, VT, TAB
  <2>3. QED
    BY <1>2, <2>1, <2>2
<1>6. Inside(u, i) => Inside(u, j) /\ i.ptr <= e
  <2> SUFFICES ASSUME Inside(u, i) PROVE Inside(u, j) /\ i.ptr <= e
    OBVIOUS
  <2>1. Long(u, j) = Long(u, i)
    BY <1>4 DEF Long
  <2>2. i.ptr <= e /\ 1 <= i.ptr /\ i.line_in_block < i.ptr /\ i.line_in_block \in Nat
    BY <1>2 DEF Inside, Iterator
  <2>3. j.ptr \in 1..Long(u, i) + 1 /\ j.line_in_block < j.ptr
    BY <1>1, <1>2, <1>4, <2>2
  <2>4. QED
    BY <1>4, <2>1, <2>2, <2>3 DEF Inside
<1>7. j = [i EXCEPT !.ptr = j.ptr]
  BY <1>4 DEF j
<1>8. QED
  BY <1>3, <1>4, <1>5, <1>6, <1>7

LEMMA BehindIs ==
  ASSUME NEW u \in Helps, NEW i \in Iterator
  PROVE  LET j == Ahead(u, i)
             d == Behind(u, i)
         IN  /\ d \in Iterator /\ d.ptr = j.ptr + 1
             /\ d.rowdesc = i.rowdesc /\ d.rowstart = i.rowstart /\ d.tablestart = i.tablestart
             /\ d.target_line_in_block = i.target_line_in_block /\ d.len = i.len
             /\ d.col = (IF Mark(u, i) = VT THEN i.col ELSE i.col + 1)
             /\ d.hit_target_line = (IF Mark(u, i) = VT THEN i.hit_target_line ELSE FALSE)
             /\ d.line_in_block = (IF Mark(u, i) = VT THEN i.line_in_block + 1 ELSE 0)
             /\ Inside(u, i) /\ Mark(u, i) \in {VT, TAB} => Inside(u, d) /\ i.ptr < d.ptr
<1> DEFINE j == Ahead(u, i)
           d == Behind(u, i)
<1>1. /\ j \in Iterator /\ j = [i EXCEPT !.ptr = j.ptr]
      /\ Mark(u, i) \in {VT, TAB} => j.ptr <= Long(u, i)
      /\ Inside(u, i) => Inside(u, j) /\ i.ptr <= j.ptr
  BY AheadIs
<1>2. d = IF Mark(u, i) = VT THEN Down(j) ELSE Right(j)
  BY DEF Behind
<1> HIDE DEF j, d
<1>3. /\ j.rowdesc = i.rowdesc /\ j.rowstart = i.rowstart /\ j.tablestart = i.tablestart
      /\ j.target_line_in_block = i.target_line_in_block /\ j.len = i.len /\ j.col = i.col
      /\ j.hit_target_line = i.hit_target_line /\ j.line_in_block = i.line_in_block
      /\ j.max_line_in_block = i.max_line_in_block
  BY <1>1 DEF Iterator
<1>4. /\ j.ptr \in Nat /\ j.line_in_block \in Nat /\ j.max_line_in_block \in Nat /\ j.col \in Int
      /\ j.target_line_in_block \in Nat
  BY <1>1 DEF Iterator
<1>5. upmax(j.max_line_in_block, j.line_in_block + 1) \in {j.max_line_in_block, j.line_in_block + 1}
  BY DEF upmax
<1>6. /\ d \in Iterator /\ d.ptr = j.ptr + 1
      /\ d.rowdesc = j.rowdesc /\ d.rowstart = j.rowstart /\ d.tablestart = j.tablestart
      /\ d.target_line_in_block = j.target_line_in_block /\ d.len = j.len
      /\ d.col = (IF Mark(u, i) = VT THEN j.col ELSE j.col + 1)
      /\ d.hit_target_line = (IF Mark(u, i) = VT THEN j.hit_target_line ELSE FALSE)
      /\ d.line_in_block = (IF Mark(u, i) = VT THEN j.line_in_block + 1 ELSE 0)
      /\ d.max_line_in_block \in {j.max_line_in_block, j.line_in_block + 1}
  <2>1. CASE Mark(u, i) = VT
    <3> DEFINE m == upmax(j.max_line_in_block, j.line_in_block + 1)
    <3>1. m \in Nat /\ m \in {j.max_line_in_block, j.line_in_block + 1}
      BY <1>4, <1>5
    <3>2. d = [j EXCEPT !.line_in_block = @ + 1, !.ptr = @ + 1, !.max_line_in_block = m]
      BY <1>2, <2>1 DEF Down
    <3> HIDE DEF m
    <3>3. d \in Iterator
      <4> DEFINE a == j.line_in_block + 1
                 b == j.ptr + 1
      <4>1. a \in Nat /\ b \in Nat
        BY <1>4
      <4>2. d = [j EXCEPT !.line_in_block = a, !.ptr = b, !.max_line_in_block = m]
        BY <3>2
      <4> HIDE DEF a, b
      <4>3. QED
        BY <1>1, <3>1, <4>1, <4>2 DEF Iterator
    <3>4. /\ d.ptr = j.ptr + 1 /\ d.rowdesc = j.rowdesc /\ d.rowstart = j.rowstart
          /\ d.tablestart = j.tablestart /\ d.target_line_in_block = j.target_line_in_block
          /\ d.len = j.len /\ d.col = j.col /\ d.hit_target_line = j.hit_target_line
          /\ d.line_in_block = j.line_in_block + 1 /\ d.max_line_in_block = m
      BY <1>1, <3>2 DEF Iterator
    <3>5. QED
      BY <2>1, <3>1, <3>3, <3>4
  <2>2. CASE Mark(u, i) # VT
    <3>1. d = [j EXCEPT !.hit_target_line = FALSE, !.line_in_block = 0, !.col = @ + 1, !.ptr = @ + 1]
      BY <1>2, <2>2 DEF Right
    <3>2. d \in Iterator
      <4> DEFINE a == j.col + 1
                 b == j.ptr + 1
      <4>1. a \in Int /\ b \in Nat
        BY <1>4
      <4>2. d = [j EXCEPT !.hit_target_line = FALSE, !.line_in_block = 0, !.col = a, !.ptr = b]
        BY <3>1
      <4> HIDE DEF a, b
      <4>3. QED
        BY <1>1, <4>1, <4>2 DEF Iterator
    <3>3. /\ d.ptr = j.ptr + 1 /\ d.rowdesc = j.rowdesc /\ d.rowstart = j.rowstart
          /\ d.tablestart = j.tablestart /\ d.target_line_in_block = j.target_line_in_block
          /\ d.len = j.len /\ d.col = j.col + 1 /\ d.hit_target_line = FALSE
          /\ d.line_in_block = 0 /\ d.max_line_in_block = j.max_line_in_block
      BY <1>1, <3>1 DEF Iterator
    <3>4. QED
      BY <2>2, <3>2, <3>3
  <2>3. QED
    BY <2>1, <2>2
<1>7. Inside(u, i) /\ Mark(u, i) \in {VT, TAB} => Inside(u, d) /\ i.ptr < d.ptr
  <2> SUFFICES ASSUME Inside(u, i), Mark(u, i) \in {VT, TAB}
               PROVE  Inside(u, d) /\ i.ptr < d.ptr
    OBVIOUS
  <2>1. Long(u, d) = Long(u, i) /\ Long(u, j) = Long(u, i) /\ Long(u, i) \in Nat
    BY <1>3, <1>6, HelpIs DEF Long
  <2>2. j.ptr <= Long(u, i) /\ i.ptr <= j.ptr /\ 1 <= i.ptr /\ i.ptr \in Nat
    BY <1>1 DEF Inside, Iterator
  <2>3. j.line_in_block < j.ptr /\ j.max_line_in_block <= Long(u, i) + 1 /\ j.rowstart \in 1..Long(u, i) + 1
    BY <1>1, <2>1 DEF Inside
  <2>4. d.ptr \in 1..Long(u, i) + 1 /\ d.line_in_block < d.ptr /\ d.max_line_in_block <= Long(u, i) + 1
        /\ i.ptr < d.ptr
    BY <1>4, <1>6, <2>1, <2>2, <2>3
  <2>5. QED
    BY <1>6, <2>1, <2>3, <2>4 DEF Inside
<1>8. QED
  BY <1>3, <1>6, <1>7 DEF j, d

LEMMA AgainIs ==
  ASSUME NEW j \in Iterator
  PROVE  LET a == Again(j)
         IN  /\ a \in Iterator /\ a.ptr = j.rowstart /\ a.rowdesc = j.rowdesc /\ a.rowstart = j.rowstart
             /\ a.tablestart = j.tablestart /\ a.len = j.len
             /\ a.target_line_in_block = j.target_line_in_block + 1 /\ a.line_in_block = 0
             /\ a.max_line_in_block = j.max_line_in_block /\ a.col = 0 /\ a.hit_target_line = FALSE
<1> DEFINE t == j.target_line_in_block + 1
           r == j.rowstart
           a == [j EXCEPT !.target_line_in_block = t, !.hit_target_line = FALSE, !.line_in_block = 0,
                          !.col = 0, !.ptr = r]
<1>1. t \in Nat /\ r \in Nat
  BY DEF Iterator
<1>2. Again(j) = a
  BY DEF Again
<1> HIDE DEF t, r
<1>3. a \in Iterator
  <2> DEFINE b == [j EXCEPT !.target_line_in_block = t, !.hit_target_line = FALSE, !.line_in_block = 0]
             c == [b EXCEPT !.col = 0]
  <2>1. b \in Iterator
    BY <1>1 DEF Iterator
  <2>2. a = [c EXCEPT !.ptr = r]
    OBVIOUS
  <2> HIDE DEF a, b
  <2>3. c \in Iterator
    BY <2>1 DEF Iterator
  <2> HIDE DEF c
  <2>4. QED
    BY <1>1, <2>2, <2>3 DEF Iterator
<1>4. /\ a.ptr = r /\ a.rowdesc = j.rowdesc /\ a.rowstart = j.rowstart
      /\ a.tablestart = j.tablestart /\ a.len = j.len
      /\ a.target_line_in_block = t /\ a.line_in_block = 0
      /\ a.max_line_in_block = j.max_line_in_block /\ a.col = 0 /\ a.hit_target_line = FALSE
  BY DEF Iterator
<1> HIDE DEF a
<1>5. QED
  BY <1>2, <1>3, <1>4 DEF t, r

(* How far the loop is from its end: turns left to go through the row, and *)
(* characters in this one.                                                 *)
Rounds(u, i) ==
    IF i.target_line_in_block > Long(u, i) + 1 THEN 0 ELSE Long(u, i) + 1 - i.target_line_in_block
Left(u, i) == Rounds(u, i) * (Long(u, i) + 2) + (Long(u, i) + 1 - i.ptr)

LEMMA LeftIs ==
  ASSUME NEW u \in Helps, NEW i, Inside(u, i)
  PROVE  /\ Left(u, i) \in Nat
         /\ \A j : Inside(u, j) /\ Long(u, j) = Long(u, i)
                   /\ (Rounds(u, j) < Rounds(u, i) \/ (Rounds(u, j) = Rounds(u, i) /\ i.ptr < j.ptr))
                   => Left(u, j) < Left(u, i)
<1> DEFINE n == Long(u, i)
           k == n + 2
<1>1. n \in Nat
  BY HelpIs DEF Long
<1>2. ASSUME NEW j, Inside(u, j), Long(u, j) = n
      PROVE  /\ Rounds(u, j) \in Nat /\ n + 1 - j.ptr \in 0..n /\ j.ptr \in Nat
             /\ Left(u, j) = Rounds(u, j) * k + (n + 1 - j.ptr)
  <2>1. j.target_line_in_block \in Nat /\ j.ptr \in 1..n + 1
    BY <1>2 DEF Inside, Iterator
  <2>2. Rounds(u, j) \in Nat
    BY <1>1, <1>2, <2>1 DEF Rounds
  <2>3. QED
    BY <1>1, <1>2, <2>1, <2>2 DEF Left
<1> HIDE DEF n
<1>3. \A a, b \in Nat, v, w \in 0..n : a < b => a * k + v < b * k + w
  <2> TAKE a, b \in Nat, v, w \in 0..n
  <2> SUFFICES ASSUME a < b PROVE a * k + v < b * k + w
    OBVIOUS
  <2>1. PICK c \in Nat : b = a + 1 + c
    <3>1. b - a - 1 \in Nat /\ b = a + 1 + (b - a - 1)
      OBVIOUS
    <3>2. QED
      BY <3>1
  <2>2. (a + 1 + c) * k = a * k + k + c * k
    BY <1>1
  <2>3. a * k \in Nat /\ c * k \in Nat
    BY <1>1
  <2> DEFINE ak == a * k
             ck == c * k
  <2>4. b * k = ak + k + ck /\ ak \in Nat /\ ck \in Nat
    BY <2>1, <2>2, <2>3
  <2> HIDE DEF ak, ck
  <2>5. ak + v < b * k + w
    BY <1>1, <2>4
  <2>6. QED
    BY <2>5 DEF ak
<1>4. \A a \in Nat, v \in 0..n : a * k + v \in Nat
  BY <1>1
<1> HIDE DEF k
<1>5. ASSUME NEW j, Inside(u, j), Long(u, j) = n,
             Rounds(u, j) < Rounds(u, i) \/ (Rounds(u, j) = Rounds(u, i) /\ i.ptr < j.ptr)
      PROVE  Left(u, j) < Left(u, i)
  <2> DEFINE a == Rounds(u, j)
             b == Rounds(u, i)
             v == n + 1 - j.ptr
             w == n + 1 - i.ptr
  <2>1. /\ a \in Nat /\ b \in Nat /\ v \in 0..n /\ w \in 0..n /\ j.ptr \in Nat /\ i.ptr \in Nat
        /\ Left(u, j) = a * k + v /\ Left(u, i) = b * k + w
    BY <1>2, <1>5 DEF n
  <2>2. a < b \/ (a = b /\ v < w)
    BY <1>1, <1>5, <2>1
  <2>3. a * k \in Nat /\ b * k \in Nat
    BY <1>1, <2>1 DEF k
  <2> HIDE DEF a, b, v, w
  <2>4. CASE a < b
    BY <1>3, <2>1, <2>4
  <2>5. CASE a = b /\ v < w
    <3> DEFINE ak == a * k
    <3>1. Left(u, j) = ak + v /\ Left(u, i) = ak + w /\ ak \in Nat
      BY <2>1, <2>3, <2>5
    <3> HIDE DEF ak
    <3>2. QED
      BY <1>1, <2>1, <2>5, <3>1
  <2>6. QED
    BY <2>2, <2>4, <2>5
<1>6. Left(u, i) \in Nat
  <2>1. /\ Rounds(u, i) \in Nat /\ n + 1 - i.ptr \in 0..n
        /\ Left(u, i) = Rounds(u, i) * k + (n + 1 - i.ptr)
    BY <1>2 DEF n
  <2>2. QED
    BY <1>4, <2>1
<1>7. QED
  BY <1>5, <1>6 DEF n

LEMMA OnwardIs ==
  ASSUME NEW u \in Helps, NEW i \in Iterator
  PROVE  LET o == Onward(u, i)
         IN  /\ o \in Iterator
             /\ o.rowdesc = i.rowdesc /\ o.rowstart = i.rowstart /\ o.tablestart = i.tablestart
             /\ Inside(u, i) /\ ~ Stops(u, i) => Inside(u, o) /\ Left(u, o) < Left(u, i)
<1> DEFINE j == Ahead(u, i)
           o == Onward(u, i)
           n == Long(u, i)
<1>1. /\ j \in Iterator /\ j = [i EXCEPT !.ptr = j.ptr]
      /\ Inside(u, i) => Inside(u, j) /\ i.ptr <= j.ptr
  BY AheadIs
<1>2. /\ j.rowdesc = i.rowdesc /\ j.rowstart = i.rowstart /\ j.tablestart = i.tablestart
      /\ j.target_line_in_block = i.target_line_in_block
      /\ j.max_line_in_block = i.max_line_in_block
  BY <1>1 DEF Iterator
<1>3. /\ i.target_line_in_block \in Nat /\ i.max_line_in_block \in Nat /\ i.ptr \in Nat /\ n \in Nat
      /\ i.rowstart \in Nat
  BY HelpIs DEF Iterator, Long
<1>4. CASE Mark(u, i) \in {VT, TAB}
  <2>1. o = Behind(u, i)
    BY <1>4 DEF Onward
  <2>2. /\ o \in Iterator
        /\ o.rowdesc = i.rowdesc /\ o.rowstart = i.rowstart /\ o.tablestart = i.tablestart
        /\ o.target_line_in_block = i.target_line_in_block
        /\ Inside(u, i) => Inside(u, o) /\ i.ptr < o.ptr
    <3> DEFINE d == Behind(u, i)
    <3>1. /\ d \in Iterator
          /\ d.rowdesc = i.rowdesc /\ d.rowstart = i.rowstart /\ d.tablestart = i.tablestart
          /\ d.target_line_in_block = i.target_line_in_block
      BY BehindIs
    <3>2. Inside(u, i) /\ Mark(u, i) \in {VT, TAB} => Inside(u, d) /\ i.ptr < d.ptr
      BY BehindIs
    <3> HIDE DEF d
    <3>3. o = d
      BY <2>1 DEF d
    <3> HIDE DEF o
    <3>4. QED
      BY <1>4, <3>1, <3>2, <3>3
  <2> HIDE DEF o
  <2>3. Long(u, o) = n /\ Rounds(u, o) = Rounds(u, i)
    BY <2>2 DEF Long, Rounds
  <2>4. Inside(u, i) => Left(u, o) < Left(u, i)
    BY <2>2, <2>3, LeftIs
  <2>5. QED
    BY <2>2, <2>4 DEF o
<1>5. CASE Mark(u, i) \notin {VT, TAB}
  <2>1. o = Again(j)
    BY <1>5 DEF Onward
  <2> HIDE DEF j
  <2>2. /\ o \in Iterator /\ o.ptr = j.rowstart /\ o.rowdesc = j.rowdesc /\ o.rowstart = j.rowstart
        /\ o.tablestart = j.tablestart
        /\ o.target_line_in_block = j.target_line_in_block + 1 /\ o.line_in_block = 0
        /\ o.max_line_in_block = j.max_line_in_block
    <3>1. j \in Iterator
      BY <1>1
    <3> HIDE DEF o
    <3>2. QED
      BY ONLY <2>1, <3>1, AgainIs
  <2> HIDE DEF o
  <2>3. Long(u, o) = n
    BY <1>2, <2>2 DEF Long
  <2>4. ASSUME Inside(u, i), ~ Stops(u, i)
        PROVE  Inside(u, o) /\ Left(u, o) < Left(u, i)
    <3>1. i.target_line_in_block < i.max_line_in_block
      BY <1>5, <2>4 DEF Stops, Over
    <3>2. i.rowstart \in 1..n + 1 /\ i.max_line_in_block <= n + 1
      BY <2>4 DEF Inside
    <3>3. Inside(u, o)
      BY <1>2, <1>3, <2>2, <2>3, <3>2 DEF Inside
    <3>4. Rounds(u, o) < Rounds(u, i)
      BY <1>2, <1>3, <2>2, <2>3, <3>1, <3>2 DEF Rounds
    <3>5. QED
      BY <2>3, <2>4, <3>3, <3>4, LeftIs
  <2>5. QED
    BY <1>2, <2>2, <2>4 DEF o
<1>6. QED
  BY <1>4, <1>5

(* Loop() returns what the turn returns that it stops with, and what holds *)
(* of all the places that it comes to holds of this one.                   *)
LEMMA LoopIs ==
  ASSUME NEW u \in Helps, NEW G, \A i \in G : Inside(u, i) /\ (~ Stops(u, i) => Onward(u, i) \in G),
         NEW p \in G
  PROVE  \E k \in G : Stops(u, k) /\ Loop(u, p) = Returned(u, k)
<1> DEFINE Is(f) == f = [i \in Iterator |->
                LET j  == [i EXCEPT !.ptr = Find(u, i, i.ptr, Separators)]
                    ch == Char(u, j, j.ptr)
                    d  == IF ch = VT THEN Down(j) ELSE Right(j)
                IN  IF ch # VT /\ ~ j.hit_target_line THEN Found(u, j)
                    ELSE IF ch \in {VT, TAB}
                    THEN IF d.line_in_block = d.target_line_in_block THEN Found(u, d) ELSE f[d]
                    ELSE IF j.target_line_in_block < j.max_line_in_block THEN f[Again(j)]
                    ELSE [ok |-> FALSE,
                          it |-> update_length(u, [j EXCEPT !.target_line_in_block = @ + 1])]]
           F == CHOOSE f : Is(f)
           S == {i \in Iterator : Stops(u, i)}
           step == [i \in Iterator |-> Onward(u, i)]
           res == [i \in Iterator |-> Returned(u, i)]
           Turns(f) == f = [i \in Iterator |-> IF i \in S THEN res[i] ELSE f[step[i]]]
<1>1. Loop(u, p) = F[p]
  BY DEF Loop
<1>2. ASSUME NEW f
      PROVE  Is(f) <=> Turns(f)
  <2>1. ASSUME NEW i \in Iterator
        PROVE  (LET j  == [i EXCEPT !.ptr = Find(u, i, i.ptr, Separators)]
                    ch == Char(u, j, j.ptr)
                    d  == IF ch = VT THEN Down(j) ELSE Right(j)
                IN  IF ch # VT /\ ~ j.hit_target_line THEN Found(u, j)
                    ELSE IF ch \in {VT, TAB}
                    THEN IF d.line_in_block = d.target_line_in_block THEN Found(u, d) ELSE f[d]
                    ELSE IF j.target_line_in_block < j.max_line_in_block THEN f[Again(j)]
                    ELSE [ok |-> FALSE,
                          it |-> update_length(u, [j EXCEPT !.target_line_in_block = @ + 1])])
               = IF i \in S THEN res[i] ELSE f[step[i]]
    <3> DEFINE j == Ahead(u, i)
    <3>1. /\ j = [i EXCEPT !.ptr = Find(u, i, i.ptr, Separators)] /\ Mark(u, i) = Char(u, j, j.ptr)
          /\ Behind(u, i) = (IF Mark(u, i) = VT THEN Down(j) ELSE Right(j))
          /\ Onward(u, i) = (IF Mark(u, i) \in {VT, TAB} THEN Behind(u, i) ELSE Again(j))
      BY DEF Ahead, Mark, Behind, Onward
    <3>2. /\ j.hit_target_line = i.hit_target_line
          /\ j.target_line_in_block = i.target_line_in_block
          /\ j.max_line_in_block = i.max_line_in_block
      BY <3>1 DEF Iterator
    <3>3. i \in S <=> Stops(u, i)
      BY <2>1
    <3>4. res[i] = Returned(u, i) /\ step[i] = Onward(u, i)
      BY <2>1
    <3>5. Returned(u, i) = IF Here(u, i) THEN Found(u, j)
                           ELSE IF There(u, i) THEN Found(u, Behind(u, i))
                           ELSE [ok |-> FALSE,
                                 it |-> update_length(u, [j EXCEPT !.target_line_in_block = @ + 1])]
      BY DEF Returned
    <3> HIDE DEF j, S, step, res
    <3>6. QED
      BY <3>1, <3>2, <3>3, <3>4, <3>5 DEF Stops, Here, There, Over
  <2> DEFINE B(i) == (LET j  == [i EXCEPT !.ptr = Find(u, i, i.ptr, Separators)]
                          ch == Char(u, j, j.ptr)
                          d  == IF ch = VT THEN Down(j) ELSE Right(j)
                      IN  IF ch # VT /\ ~ j.hit_target_line THEN Found(u, j)
                          ELSE IF ch \in {VT, TAB}
                          THEN IF d.line_in_block = d.target_line_in_block THEN Found(u, d) ELSE f[d]
                          ELSE IF j.target_line_in_block < j.max_line_in_block THEN f[Again(j)]
                          ELSE [ok |-> FALSE,
                                it |-> update_length(u, [j EXCEPT !.target_line_in_block = @ + 1])])
             C(i) == IF i \in S THEN res[i] ELSE f[step[i]]
  <2>2. \A i \in Iterator : B(i) = C(i)
    BY <2>1
  <2>3. Is(f) <=> f = [i \in Iterator |-> B(i)]
    OBVIOUS
  <2>4. Turns(f) <=> f = [i \in Iterator |-> C(i)]
    OBVIOUS
  <2> HIDE DEF B, C, Is, Turns
  <2>5. [i \in Iterator |-> B(i)] = [i \in Iterator |-> C(i)]
    BY <2>2
  <2>6. QED
    BY <2>3, <2>4, <2>5
<1> HIDE DEF Is
<1>3. \A i \in Iterator : i \notin S => step[i] \in Iterator
  BY OnwardIs
<1>4. \E f : Turns(f)
  <2> HIDE DEF S, step, res
  <2>1. PICK f : Loops(Iterator, S, step, res, f)
    BY <1>3, LoopExists
  <2>2. QED
    BY <2>1 DEF Loops
<1>5. Is(F)
  BY <1>2, <1>4
<1>6. Turns(F)
  BY <1>2, <1>5
<1> HIDE DEF F
<1>7. \A i \in Iterator : F[i] = IF Stops(u, i) THEN Returned(u, i) ELSE F[Onward(u, i)]
  BY <1>6
<1> DEFINE m == [i \in G |-> Left(u, i)]
           T == {i \in G : \E k \in G : Stops(u, k) /\ F[i] = Returned(u, k)}
<1>8. \A i \in G : m[i] \in Nat /\ i \in Iterator
  <2> TAKE i \in G
  <2>1. Inside(u, i)
    OBVIOUS
  <2>2. QED
    BY <2>1, LeftIs DEF Inside
<1>9. ASSUME NEW i \in G, \A r \in G : m[r] < m[i] => r \in T
      PROVE  i \in T
  <2>1. Inside(u, i) /\ i \in Iterator
    BY <1>8
  <2>2. CASE Stops(u, i)
    BY <1>7, <2>1, <2>2
  <2>3. CASE ~ Stops(u, i)
    <3> DEFINE o == Onward(u, i)
    <3>1. o \in G /\ Left(u, o) < Left(u, i)
      BY <2>1, <2>3, OnwardIs
    <3>2. F[i] = F[o]
      BY <1>7, <2>1, <2>3
    <3> HIDE DEF o
    <3>3. o \in T
      BY <1>9, <3>1
    <3>4. QED
      BY <3>2, <3>3
  <2>4. QED
    BY <2>2, <2>3
<1> HIDE DEF T, m
<1>10. p \in T
  BY <1>8, <1>9, Descent
<1>11. QED
  BY <1>1, <1>10 DEF T

(* Where an iterator may be: in a row or in front of the first, and at a   *)
(* part of a row, or in front of its first part.                           *)
Placed(u, it) ==
    /\ it \in Iterator /\ it.rowstart <= Long(u, it) + 1
    /\ it.ptr # 0 => Inside(u, it)

AtText(u, it) == Inside(u, it) /\ it.col >= -1 /\ it.ptr + it.len <= Long(u, it) + 1

LEMMA FoundIs ==
  ASSUME NEW u \in Helps, NEW k, Inside(u, k), k.col >= 0
  PROVE  Found(u, k).ok /\ AtText(u, Found(u, k).it) /\ Found(u, k).it.col >= 0
<1> DEFINE i == update_length(u, k)
           f == [i EXCEPT !.hit_target_line = TRUE]
<1>1. /\ Inside(u, i) /\ i = [k EXCEPT !.len = i.len, !.screenlen = i.screenlen]
      /\ i.ptr + i.len <= Long(u, i) + 1
  BY UpdateIs
<1>2. k \in Iterator
  BY DEF Inside
<1>3. i.col = k.col
  BY <1>1, <1>2 DEF Iterator
<1>4. Found(u, k).ok /\ Found(u, k).it = f
  BY DEF Found
<1> HIDE DEF i
<1>5. i \in Iterator
  BY <1>1 DEF Inside
<1>6. /\ f \in Iterator /\ f.ptr = i.ptr /\ f.len = i.len /\ f.rowdesc = i.rowdesc /\ f.col = i.col
      /\ f.rowstart = i.rowstart /\ f.line_in_block = i.line_in_block
      /\ f.max_line_in_block = i.max_line_in_block
  BY <1>5 DEF Iterator
<1> HIDE DEF f
<1>7. Long(u, f) = Long(u, i)
  BY <1>6 DEF Long
<1>8. Inside(u, f)
  BY <1>1, <1>6, <1>7 DEF Inside
<1>9. k.col \in Int
  BY <1>2 DEF Iterator
<1>10. QED
  BY <1>1, <1>3, <1>4, <1>6, <1>7, <1>8, <1>9 DEF AtText

(* next() ends, at a part of the row.                                      *)
LEMMA NextIs ==
  ASSUME NEW u \in Helps, NEW it, AtText(u, it)
  PROVE  /\ next(u, it).ok \in BOOLEAN
         /\ AtText(u, next(u, it).it) /\ next(u, it).it.col >= 0
<1>1. /\ it \in Iterator /\ it.ptr \in 1..Long(u, it) + 1 /\ it.ptr # 0 /\ it.ptr \in Nat /\ it.len \in Nat
      /\ it.col \in Int /\ it.line_in_block \in Nat /\ Long(u, it) \in Nat
      /\ it.line_in_block < it.ptr
  BY HelpIs DEF AtText, Inside, Iterator, Long
<1>2. CASE it.col = -1
  <2> DEFINE j == [it EXCEPT !.col = 0]
             i == update_length(u, j)
  <2>1. next(u, it) = [ok |-> TRUE, it |-> i]
    BY <1>1, <1>2 DEF next
  <2>2. /\ j \in Iterator /\ j.ptr = it.ptr /\ j.rowdesc = it.rowdesc /\ j.rowstart = it.rowstart
        /\ j.line_in_block = it.line_in_block /\ j.max_line_in_block = it.max_line_in_block
        /\ j.col = 0
    BY <1>1 DEF Iterator
  <2> HIDE DEF j
  <2>3. Long(u, j) = Long(u, it)
    BY <2>2 DEF Long
  <2>4. Inside(u, j)
    BY <2>2, <2>3 DEF Inside, AtText
  <2>5. /\ Inside(u, i) /\ i = [j EXCEPT !.len = i.len, !.screenlen = i.screenlen]
        /\ i.ptr + i.len <= Long(u, i) + 1
    BY <2>4, UpdateIs
  <2>6. i.col = 0
    BY <2>2, <2>5 DEF Iterator
  <2> HIDE DEF i
  <2>7. QED
    BY <2>1, <2>5, <2>6 DEF AtText
<1>3. CASE it.col # -1
  <2> DEFINE p == it.ptr + it.len
             j == [it EXCEPT !.ptr = p]
             G == {i \in Iterator : Inside(u, i) /\ i.col >= 0}
  <2>1. next(u, it) = Loop(u, j)
    BY <1>1, <1>3 DEF next
  <2>2. it.col >= 0 /\ p \in 1..Long(u, it) + 1 /\ it.line_in_block < p
    BY <1>1, <1>3 DEF AtText
  <2>3. /\ j \in Iterator /\ j.ptr = p /\ j.rowdesc = it.rowdesc /\ j.rowstart = it.rowstart
        /\ j.line_in_block = it.line_in_block /\ j.max_line_in_block = it.max_line_in_block
        /\ j.col = it.col
    BY <1>1, <2>2 DEF Iterator
  <2> HIDE DEF j, p
  <2>4. Long(u, j) = Long(u, it)
    BY <2>3 DEF Long
  <2>5. Inside(u, j)
    BY <2>2, <2>3, <2>4 DEF Inside, AtText
  <2>6. j \in G
    BY <2>2, <2>3, <2>5
  <2>7. ASSUME NEW i \in G
        PROVE  /\ Ahead(u, i).col = i.col /\ Inside(u, Ahead(u, i))
               /\ Mark(u, i) \in {VT, TAB} => Inside(u, Behind(u, i)) /\ Behind(u, i).col >= 0
    <3>1. Inside(u, i) /\ i \in Iterator /\ i.col >= 0 /\ i.col \in Int
      BY DEF Iterator
    <3>2. /\ Ahead(u, i) \in Iterator /\ Ahead(u, i) = [i EXCEPT !.ptr = Ahead(u, i).ptr]
          /\ Inside(u, i) => Inside(u, Ahead(u, i))
      BY AheadIs
    <3>3. Ahead(u, i).col = i.col
      BY <3>2 DEF Iterator
    <3>4. /\ Behind(u, i).col = (IF Mark(u, i) = VT THEN i.col ELSE i.col + 1)
          /\ Inside(u, i) /\ Mark(u, i) \in {VT, TAB} => Inside(u, Behind(u, i))
      BY BehindIs
    <3>5. QED
      BY <3>1, <3>2, <3>3, <3>4
  <2>8. ASSUME NEW i \in G
        PROVE  Inside(u, i) /\ (~ Stops(u, i) => Onward(u, i) \in G)
    <3> SUFFICES ASSUME ~ Stops(u, i) PROVE Onward(u, i) \in G
      OBVIOUS
    <3>1. Onward(u, i) \in Iterator /\ Inside(u, Onward(u, i))
      BY OnwardIs
    <3>2. Onward(u, i).col >= 0
      <4>1. CASE Mark(u, i) \in {VT, TAB}
        BY <2>7, <4>1 DEF Onward
      <4>2. CASE Mark(u, i) \notin {VT, TAB}
        <5>1. Ahead(u, i) \in Iterator
          BY AheadIs
        <5>2. Again(Ahead(u, i)).col = 0
          BY <5>1, AgainIs
        <5>3. QED
          BY <4>2, <5>2 DEF Onward
      <4>3. QED
        BY <4>1, <4>2
    <3>3. QED
      BY <3>1, <3>2
  <2>9. PICK k \in G : Stops(u, k) /\ Loop(u, j) = Returned(u, k)
    BY <2>6, <2>8, LoopIs
  <2> HIDE DEF G
  <2>10. /\ k.col >= 0 /\ k \in Iterator /\ Ahead(u, k).col = k.col /\ Inside(u, Ahead(u, k))
         /\ Mark(u, k) \in {VT, TAB} => Inside(u, Behind(u, k)) /\ Behind(u, k).col >= 0
    BY <2>7 DEF G
  <2>11. CASE Here(u, k)
    BY <2>1, <2>9, <2>10, <2>11, FoundIs DEF Returned
  <2>12. CASE ~ Here(u, k) /\ There(u, k)
    BY <2>1, <2>9, <2>10, <2>12, FoundIs DEF Returned, There
  <2>13. CASE ~ Here(u, k) /\ ~ There(u, k)
    <3> DEFINE a == Ahead(u, k)
               t == a.target_line_in_block + 1
               b == [a EXCEPT !.target_line_in_block = t]
               i == update_length(u, b)
    <3>1. next(u, it) = [ok |-> FALSE, it |-> i]
      BY <2>1, <2>9, <2>13 DEF Returned
    <3> HIDE DEF a
    <3>2. a \in Iterator /\ Inside(u, a) /\ a.col >= 0
      BY <2>10 DEF a, Inside
    <3>3. t \in Nat
      BY <3>2 DEF Iterator
    <3> HIDE DEF t
    <3>4. /\ b \in Iterator /\ b.ptr = a.ptr /\ b.rowdesc = a.rowdesc /\ b.rowstart = a.rowstart
          /\ b.line_in_block = a.line_in_block /\ b.max_line_in_block = a.max_line_in_block
          /\ b.col = a.col
      BY <3>2, <3>3 DEF Iterator
    <3> HIDE DEF b
    <3>5. Long(u, b) = Long(u, a)
      BY <3>4 DEF Long
    <3>6. Inside(u, b)
      BY <3>2, <3>4, <3>5 DEF Inside
    <3>7. /\ Inside(u, i) /\ i = [b EXCEPT !.len = i.len, !.screenlen = i.screenlen]
          /\ i.ptr + i.len <= Long(u, i) + 1
      BY <3>6, UpdateIs
    <3>8. i.col = a.col /\ a.col \in Int
      BY <3>2, <3>4, <3>7 DEF Iterator
    <3> HIDE DEF i
    <3>9. QED
      BY <3>1, <3>2, <3>7, <3>8 DEF AtText
  <2>14. QED
    BY <2>11, <2>12, <2>13
<1>4. QED
  BY <1>2, <1>3

(* The operations that go to a table or a row.                             *)
LEMMA RestartTableIs ==
  ASSUME NEW u \in Helps, NEW it \in Iterator
  PROVE  Placed(u, restartTable(u, it)) /\ restartTable(u, it).col = it.col
<1> DEFINE r == IF help(u, it.tablestart) = NoHelp THEN 0 ELSE 1
           t == it.tablestart
           i == restartTable(u, it)
<1>1. i = [it EXCEPT !.rowdesc = t, !.ptr = 0, !.rowstart = r]
  BY DEF restartTable
<1>2. r \in {0, 1} /\ r \in Nat /\ t \in Nat
  BY DEF Iterator
<1> HIDE DEF r, t, i
<1>3. i \in Iterator /\ i.ptr = 0 /\ i.rowstart = r /\ i.col = it.col
  <2> DEFINE j == [it EXCEPT !.rowdesc = t, !.ptr = 0]
  <2>1. j \in Iterator /\ j.ptr = 0 /\ j.col = it.col
    BY <1>2 DEF Iterator
  <2>2. i = [j EXCEPT !.rowstart = r]
    BY <1>1
  <2> HIDE DEF j
  <2>3. QED
    BY <1>2, <2>1, <2>2 DEF Iterator
<1>4. Long(u, i) \in Nat
  BY HelpIs DEF Long
<1>5. QED
  BY <1>2, <1>3, <1>4 DEF Placed, i

LEMMA NextTableIs ==
  ASSUME NEW u \in Helps, NEW it \in Iterator
  PROVE  nextTable(u, it).ok \in BOOLEAN /\ Placed(u, nextTable(u, it).it)
<1> DEFINE From(d, S) == Min({e \in d..Len(u) + 1 : e \in S} \cup {Len(u) + 1})
           breaks == {e \in DOMAIN u : u[e] = NoHelp}
           d == IF it.rowdesc # 0 THEN From(it.tablestart, breaks) ELSE it.tablestart
           t == From(d, DOMAIN u \ breaks)
           j == [it EXCEPT !.tablestart = t]
           i == restartTable(u, j)
<1>1. nextTable(u, it) = [ok |-> i.rowstart # 0, it |-> i]
  BY DEF nextTable
<1>2. Len(u) \in Nat /\ it.tablestart \in Nat
  BY DEF Helps, Iterator
<1>3. ASSUME NEW c \in Nat, NEW S
      PROVE  From(c, S) \in Nat
  <2> DEFINE R == {e \in c..Len(u) + 1 : e \in S} \cup {Len(u) + 1}
  <2>1. R \in SUBSET Nat /\ R # {}
    BY <1>2
  <2>2. Min(R) \in R
    BY <2>1, MinIs
  <2>3. From(c, S) = Min(R)
    OBVIOUS
  <2> HIDE DEF R, From
  <2>4. QED
    BY <2>1, <2>2, <2>3
<1> HIDE DEF From
<1>4. d \in Nat
  BY <1>2, <1>3
<1> HIDE DEF d
<1>5. t \in Nat
  BY <1>3, <1>4
<1> HIDE DEF t
<1>6. j \in Iterator
  BY <1>5 DEF Iterator
<1> HIDE DEF j
<1>7. Placed(u, i)
  BY <1>6, RestartTableIs
<1> HIDE DEF i
<1>8. QED
  BY <1>1, <1>7

LEMMA RestartRowIs ==
  ASSUME NEW u \in Helps, NEW it \in Iterator, it.rowstart <= Long(u, it) + 1
  PROVE  /\ Placed(u, restartRow(it))
         /\ it.rowstart # 0 => AtText(u, restartRow(it))
<1> DEFINE i == restartRow(it)
           s == it.rowstart
           a == [it EXCEPT !.ptr = s, !.col = -1, !.len = 0, !.screenlen = 0]
           b == [a EXCEPT !.max_line_in_block = 0, !.line_in_block = 0,
                          !.target_line_in_block = 0, !.hit_target_line = TRUE]
<1>1. i = b
  BY DEF restartRow
<1>2. s \in Nat /\ Long(u, it) \in Nat
  BY HelpIs DEF Iterator, Long
<1> HIDE DEF s
<1>3. a \in Iterator /\ a.ptr = s /\ a.col = -1 /\ a.len = 0 /\ a.rowstart = it.rowstart /\ a.rowdesc = it.rowdesc
  <2> DEFINE c == -1
             a1 == [it EXCEPT !.ptr = s, !.col = c]
  <2>0. c \in Int /\ c = -1
    OBVIOUS
  <2>2. a = [a1 EXCEPT !.len = 0, !.screenlen = 0]
    OBVIOUS
  <2> HIDE DEF c
  <2>1. a1 \in Iterator /\ a1.ptr = s /\ a1.col = -1 /\ a1.rowstart = it.rowstart /\ a1.rowdesc = it.rowdesc
    BY <1>2, <2>0 DEF Iterator
  <2> HIDE DEF a, a1
  <2>3. QED
    BY <2>1, <2>2 DEF Iterator
<1> HIDE DEF a
<1>4. /\ b \in Iterator /\ b.ptr = s /\ b.col = -1 /\ b.len = 0 /\ b.rowstart = it.rowstart
      /\ b.rowdesc = it.rowdesc /\ b.line_in_block = 0 /\ b.max_line_in_block = 0
  <2> DEFINE b1 == [a EXCEPT !.max_line_in_block = 0, !.line_in_block = 0]
  <2>1. /\ b1 \in Iterator /\ b1.ptr = s /\ b1.col = -1 /\ b1.len = 0 /\ b1.rowstart = it.rowstart
        /\ b1.rowdesc = it.rowdesc /\ b1.line_in_block = 0 /\ b1.max_line_in_block = 0
    BY <1>3 DEF Iterator
  <2>2. b = [b1 EXCEPT !.target_line_in_block = 0, !.hit_target_line = TRUE]
    OBVIOUS
  <2> HIDE DEF b, b1
  <2>3. QED
    BY <2>1, <2>2 DEF Iterator
<1> HIDE DEF b, i
<1>5. Long(u, b) = Long(u, it)
  BY <1>4 DEF Long
<1>6. s # 0 => Inside(u, b)
  BY <1>2, <1>4, <1>5 DEF Inside, s
<1>7. QED
  BY <1>1, <1>2, <1>4, <1>5, <1>6 DEF Placed, AtText, i, s

LEMMA NextRowIs ==
  ASSUME NEW u \in Helps, NEW it, Placed(u, it)
  PROVE  /\ nextRow(u, it).ok \in BOOLEAN
         /\ Placed(u, nextRow(u, it).it)
         /\ nextRow(u, it).ok => AtText(u, nextRow(u, it).it)
<1> DEFINE e == Find(u, it, it.ptr, {NUL, NL})
           r == nextRow(u, it)
<1>1. it \in Iterator /\ it.ptr \in Nat /\ it.rowstart \in Nat
  BY DEF Placed, Iterator
<1>2. e \in Nat /\ Long(u, it) \in Nat /\ e <= Long(u, it) + 1 /\ (it.ptr <= Long(u, it) + 1 => it.ptr <= e)
  BY <1>1, FindIs
<1>3. CASE it.ptr = 0
  <2>1. r = [ok |-> it.rowstart # 0, it |-> restartRow(it)]
    BY <1>3 DEF nextRow
  <2>2. Placed(u, restartRow(it)) /\ (it.rowstart # 0 => AtText(u, restartRow(it)))
    BY RestartRowIs DEF Placed
  <2>3. r.ok = (it.rowstart # 0) /\ r.it = restartRow(it)
    BY <2>1
  <2> HIDE DEF r
  <2>4. r.ok \in BOOLEAN /\ Placed(u, r.it) /\ (r.ok => AtText(u, r.it))
    BY <2>2, <2>3
  <2>5. QED
    BY <2>4 DEF r
<1>4. CASE it.ptr # 0
  <2>1. Inside(u, it) /\ it.ptr \in 1..Long(u, it) + 1
    BY <1>4 DEF Placed, Inside
  <2>2. CASE Char(u, it, e) = NL
    <3> DEFINE s == e + 1
               j == [it EXCEPT !.rowstart = s]
    <3>1. r = [ok |-> TRUE, it |-> restartRow(j)]
      BY <1>4, <2>2 DEF nextRow
    <3>2. s \in Nat \ {0} /\ s <= Long(u, it) + 1
      BY <1>2, <2>2 DEF Char, Long, NL, NUL
    <3> HIDE DEF s
    <3>3. j \in Iterator /\ j.rowstart = s /\ j.rowdesc = it.rowdesc
      BY <1>1, <3>2 DEF Iterator
    <3> HIDE DEF j, r
    <3>4. Long(u, j) = Long(u, it)
      BY <3>3 DEF Long
    <3>5. Placed(u, restartRow(j)) /\ AtText(u, restartRow(j))
      BY <3>2, <3>3, <3>4, RestartRowIs
    <3>6. QED
      BY <3>1, <3>5 DEF r
  <2>3. CASE Char(u, it, e) # NL /\ help(u, it.rowdesc + 1) = NoHelp
    <3> DEFINE j == [it EXCEPT !.ptr = e]
    <3>1. r = [ok |-> FALSE, it |-> j]
      BY <1>4, <2>3 DEF nextRow
    <3> HIDE DEF e
    <3>2. /\ j \in Iterator /\ j.ptr = e /\ j.rowdesc = it.rowdesc /\ j.rowstart = it.rowstart
          /\ j.line_in_block = it.line_in_block /\ j.max_line_in_block = it.max_line_in_block
      BY <1>1, <1>2 DEF Iterator
    <3> HIDE DEF j, r
    <3>3. Long(u, j) = Long(u, it)
      BY <3>2 DEF Long
    <3>4. it.line_in_block < it.ptr /\ it.line_in_block \in Nat
      BY <1>1, <2>1 DEF Inside, Iterator
    <3>5. j.ptr \in 1..Long(u, j) + 1 /\ j.line_in_block < j.ptr
      BY <1>1, <1>2, <2>1, <3>2, <3>3, <3>4
    <3>6. Inside(u, j)
      BY <2>1, <3>2, <3>3, <3>5 DEF Inside
    <3>7. QED
      BY <3>1, <3>2, <3>3, <3>6 DEF Placed, Inside, r
  <2>4. CASE Char(u, it, e) # NL /\ help(u, it.rowdesc + 1) # NoHelp
    <3> DEFINE d == it.rowdesc + 1
               j == [it EXCEPT !.rowdesc = d, !.rowstart = 1]
    <3>1. r = [ok |-> TRUE, it |-> restartRow(j)]
      BY <1>4, <2>4 DEF nextRow
    <3>2. d \in Nat
      BY <1>1 DEF Iterator
    <3> HIDE DEF d
    <3>3. j \in Iterator /\ j.rowstart = 1
      BY <1>1, <3>2 DEF Iterator
    <3> HIDE DEF j, r
    <3>4. Long(u, j) \in Nat
      BY HelpIs DEF Long
    <3>5. Placed(u, restartRow(j)) /\ AtText(u, restartRow(j))
      BY <3>3, <3>4, RestartRowIs
    <3>6. QED
      BY <3>1, <3>5 DEF r
  <2>5. QED
    BY <2>2, <2>3, <2>4
<1>5. QED
  BY <1>3, <1>4

-----------------------------------------------------------------------------
(***************************************************************************)
(* Text that is written.                                                   *)
(***************************************************************************)

Blanks(s) == s \in Text /\ \A i \in 1..Len(s) : s[i] \in {NL, SPACE}

LEMMA SpacesAre ==
  ASSUME NEW n \in Int
  PROVE  Blanks(Spaces(n)) /\ Len(Spaces(n)) = IF n > 0 THEN n ELSE 0
<1>1. SPACE \in Nat /\ SPACE \in {NL, SPACE}
  BY DEF SPACE
<1>2. CASE n > 0
  <2>1. n \in Nat /\ Spaces(n) = [i \in 1..n |-> SPACE]
    BY <1>2 DEF Spaces
  <2>2. Spaces(n) \in Seq(Nat) /\ Len(Spaces(n)) = n
    BY <1>1, <2>1
  <2>3. QED
    BY <1>1, <1>2, <2>1, <2>2 DEF Blanks, Text
<1>3. CASE ~ (n > 0)
  <2>1. 1..n = {} /\ 1..0 = {}
    BY <1>3
  <2>2. Spaces(n) = [i \in 1..0 |-> SPACE]
    BY <2>1 DEF Spaces
  <2>3. Spaces(n) \in Seq(Nat) /\ Len(Spaces(n)) = 0
    BY <1>1, <2>2
  <2>4. QED
    BY <1>3, <2>3 DEF Blanks, Text
<1>4. QED
  BY <1>2, <1>3

LEMMA NewLineIs == Blanks(<<NL>>) /\ Blanks(<< >>)
BY DEF Blanks, Text, NL

LEMMA BlanksJoined ==
  ASSUME NEW s, Blanks(s), NEW t, Blanks(t)
  PROVE  Blanks(s \o t)
<1>1. s \in Text /\ t \in Text /\ Len(s) \in Nat /\ Len(t) \in Nat
  BY DEF Blanks, Text
<1>2. /\ s \o t \in Text /\ Len(s \o t) = Len(s) + Len(t)
      /\ \A i \in 1..Len(s) + Len(t) : (s \o t)[i] = IF i <= Len(s) THEN s[i] ELSE t[i - Len(s)]
  BY <1>1, ConcatProperties DEF Text
<1>3. \A i \in 1..Len(s) + Len(t) : (s \o t)[i] \in {NL, SPACE}
  <2> TAKE i \in 1..Len(s) + Len(t)
  <2>1. CASE i <= Len(s)
    BY <1>1, <1>2, <2>1 DEF Blanks
  <2>2. CASE ~ (i <= Len(s))
    <3>1. i - Len(s) \in 1..Len(t)
      BY <1>1, <2>2
    <3>2. QED
      BY <1>2, <2>2, <3>1 DEF Blanks
  <2>3. QED
    BY <2>1, <2>2
<1>4. QED
  BY <1>2, <1>3 DEF Blanks

LEMMA IndentationIs ==
  ASSUME NEW a \in Int, NEW b \in Int
  PROVE  Blanks(indentation(a, b)) /\ indented(a, b) \in Int
<1>1. Blanks(Spaces(b)) /\ Blanks(Spaces(b - a))
  BY SpacesAre
<1>2. Blanks(<<NL>> \o Spaces(b))
  BY <1>1, NewLineIs, BlanksJoined
<1>3. Blanks(indentation(a, b))
  BY <1>1, <1>2 DEF indentation
<1>4. indented(a, b) \in Int
  BY DEF indented
<1>5. QED
  BY <1>3, <1>4

-----------------------------------------------------------------------------
(* A piece of the text fits on every line, and is taken from it.           *)
LEMMA FittingIs ==
  ASSUME NEW s \in Text, NEW n \in Int, n >= 0
  PROVE  LET k == Fitting(s, n)
         IN  /\ k \in 0..Len(s) /\ Columns(SubSeq(s, 1, k)) <= n
             /\ k < Len(s) => Columns(SubSeq(s, 1, k + 1)) > n
<1> DEFINE Good(k) == k \in 0..Len(s) /\ Columns(SubSeq(s, 1, k)) <= n
           S == {k \in 0..Len(s) : Good(k)}
           m == Max(S)
<1>1. Len(s) \in Nat
  BY DEF Text
<1>2. Good(0)
  <2>1. SubSeq(s, 1, 0) = << >>
    BY DEF Text
  <2>2. Columns(<< >>) = 0
    <3>1. {i \in DOMAIN << >> : isWideChar(<< >>[i])} = {}
      OBVIOUS
    <3>2. Cardinality({i \in DOMAIN << >> : isWideChar(<< >>[i])}) = 0
      BY <3>1, FS_EmptySet
    <3>3. Len(<< >>) = 0
      OBVIOUS
    <3>4. QED
      BY <3>2, <3>3 DEF Columns
  <2>3. Columns(SubSeq(s, 1, 0)) = 0
    BY <2>1, <2>2
  <2>4. 0 \in 0..Len(s) /\ 0 <= n
    BY <1>1
  <2>5. QED
    BY <2>3, <2>4
<1>3. S \in SUBSET Nat /\ S # {} /\ \A k \in S : k <= Len(s)
  BY <1>1, <1>2
<1>4. m \in S /\ \A k \in S : m >= k
  BY <1>1, <1>3, MaxIs
<1> HIDE DEF m
<1>5. ASSUME m < Len(s)
      PROVE  Columns(SubSeq(s, 1, m + 1)) > n
  <2>1. m + 1 \in 0..Len(s) /\ m \in Nat
    BY <1>1, <1>4, <1>5
  <2>2. m + 1 \notin S
    BY <1>4, <2>1
  <2>3. ~ (Columns(SubSeq(s, 1, m + 1)) <= n)
    BY <2>1, <2>2
  <2>4. SubSeq(s, 1, m + 1) \in Seq(Nat)
    BY <1>1, <2>1 DEF Text
  <2>5. Columns(SubSeq(s, 1, m + 1)) \in Nat
    BY <2>4, ColumnsIs
  <2>6. QED
    BY <2>3, <2>5
<1>6. \E k \in 0..Len(s) : /\ Columns(SubSeq(s, 1, k)) <= n
                           /\ k < Len(s) => Columns(SubSeq(s, 1, k + 1)) > n
  BY <1>4, <1>5
<1>7. QED
  BY <1>6 DEF Fitting

LEMMA SplitIs ==
  ASSUME NEW s \in Text, NEW n \in Int, n >= 0
  PROVE  Split(s, n).line \in Text /\ Split(s, n).rest \in Text
<1> DEFINE maxi == Fitting(s, n)
           spaces == {i \in 1..maxi + 1 : s[i] = SPACE}
<1>1. Len(s) \in Nat /\ maxi \in 0..Len(s)
  BY FittingIs DEF Text
<1>2. \A a \in 1..Len(s) + 1, b \in 0..Len(s) : SubSeq(s, a, b) \in Text
  BY <1>1 DEF Text
<1>3. << >> \in Text
  BY DEF Text
<1>4. CASE Bytes(s) <= n \/ maxi = Len(s)
  BY <1>3, <1>4 DEF Split
<1>5. CASE ~ (Bytes(s) <= n \/ maxi = Len(s)) /\ spaces # {}
  <2> DEFINE m == Max(spaces)
  <2>1. spaces \in SUBSET Nat /\ (\A k \in spaces : k <= maxi + 1) /\ maxi + 1 \in Nat
    BY <1>1
  <2>2. m \in spaces
    BY <1>5, <2>1, MaxIs
  <2>3. m \in 1..maxi + 1 /\ maxi < Len(s)
    BY <1>1, <1>5, <2>2
  <2>4. Split(s, n) = [line |-> SubSeq(s, 1, m - 1), rest |-> SubSeq(s, m + 1, Len(s))]
    BY <1>5 DEF Split
  <2> HIDE DEF m
  <2>5. m - 1 \in 0..Len(s) /\ m + 1 \in 1..Len(s) + 1 /\ 1 \in 1..Len(s) + 1 /\ Len(s) \in 0..Len(s)
    BY <1>1, <2>3
  <2>6. QED
    BY <1>2, <2>4, <2>5
<1>6. CASE ~ (Bytes(s) <= n \/ maxi = Len(s)) /\ spaces = {}
  <2>1. Split(s, n) = [line |-> SubSeq(s, 1, maxi), rest |-> SubSeq(s, maxi + 1, Len(s))]
    BY <1>6 DEF Split
  <2> HIDE DEF maxi
  <2>2. maxi + 1 \in 1..Len(s) + 1 /\ 1 \in 1..Len(s) + 1 /\ Len(s) \in 0..Len(s)
    BY <1>1
  <2>3. QED
    BY <1>1, <1>2, <2>1, <2>2
<1>7. QED
  BY <1>4, <1>5, <1>6

-----------------------------------------------------------------------------
(* The tab stops are sums of widths, and not zero behind a width only.     *)
Sums(c, i, f) == f = [n \in 0..i |-> IF n = 0 THEN 0 ELSE f[n - 1] + c[n - 1]]

LEMMA SumsExist ==
  ASSUME NEW m \in Nat, NEW c \in [0..m - 1 -> Nat]
  PROVE  \A i \in 0..m : \E f \in [0..i -> Nat] : Sums(c, i, f)
<1> DEFINE T == {i \in 0..m : \E f \in [0..i -> Nat] : Sums(c, i, f)}
           id == [i \in 0..m |-> i]
<1>1. ASSUME NEW i \in 0..m, \A r \in 0..m : id[r] < id[i] => r \in T
      PROVE  i \in T
  <2>1. CASE i = 0
    <3> DEFINE f == [n \in 0..0 |-> 0]
    <3>1. f \in [0..0 -> Nat] /\ \A n \in 0..0 : n = 0
      OBVIOUS
    <3>2. f = [n \in 0..0 |-> IF n = 0 THEN 0 ELSE f[n - 1] + c[n - 1]]
      BY <3>1
    <3> HIDE DEF f
    <3>3. QED
      BY <2>1, <3>1, <3>2 DEF Sums
  <2>2. CASE i # 0
    <3>1. i - 1 \in 0..m /\ i - 1 < i /\ i \in Nat /\ i - 1 \in 0..m - 1 /\ i - 1 \in Nat
      BY <2>2
    <3>2. PICK f \in [0..i - 1 -> Nat] : Sums(c, i - 1, f)
      BY <1>1, <3>1
    <3>3. \A n \in 0..i - 1 : f[n] = IF n = 0 THEN 0 ELSE f[n - 1] + c[n - 1]
      <4> DEFINE v(n) == IF n = 0 THEN 0 ELSE f[n - 1] + c[n - 1]
      <4>1. f = [n \in 0..i - 1 |-> v(n)]
        BY <3>2 DEF Sums
      <4> HIDE DEF v
      <4>2. \A n \in 0..i - 1 : f[n] = v(n)
        BY <4>1
      <4>3. QED
        BY <4>2 DEF v
    <3> DEFINE g == [n \in 0..i |-> IF n = i THEN f[i - 1] + c[i - 1] ELSE f[n]]
    <3>4. g \in [0..i -> Nat]
      <4>1. f[i - 1] \in Nat /\ c[i - 1] \in Nat
        BY <3>1
      <4>2. \A n \in 0..i : n # i => f[n] \in Nat
        BY <3>1
      <4>3. QED
        BY <4>1, <4>2
    <3>5. ASSUME NEW n \in 0..i
          PROVE  g[n] = IF n = 0 THEN 0 ELSE g[n - 1] + c[n - 1]
      <4>1. CASE n = i
        <5>1. i - 1 \in 0..i /\ i - 1 # i
          BY <3>1
        <5>2. g[i - 1] = f[i - 1]
          BY <5>1
        <5>3. QED
          BY <2>2, <4>1, <5>2
      <4>2. CASE n # i /\ n = 0
        <5>1. g[n] = f[n] /\ n \in 0..i - 1
          BY <3>1, <4>2
        <5>2. QED
          BY <3>3, <4>2, <5>1
      <4>3. CASE n # i /\ n # 0
        <5>1. g[n] = f[n] /\ n \in 0..i - 1 /\ n - 1 \in 0..i /\ n - 1 # i
          BY <3>1, <4>3
        <5>2. g[n - 1] = f[n - 1]
          BY <5>1
        <5>3. QED
          BY <3>3, <4>3, <5>1, <5>2
      <4>4. QED
        BY <4>1, <4>2, <4>3
    <3>6. Sums(c, i, g)
      <4> DEFINE v(n) == IF n = 0 THEN 0 ELSE g[n - 1] + c[n - 1]
      <4> HIDE DEF g
      <4>1. \A n \in 0..i : g[n] = v(n)
        BY <3>5
      <4>2. g = [n \in 0..i |-> g[n]]
        BY <3>4
      <4>3. Sums(c, i, g) <=> g = [n \in 0..i |-> v(n)]
        BY DEF Sums
      <4> HIDE DEF v
      <4>4. QED
        BY <4>1, <4>2, <4>3
    <3> HIDE DEF g
    <3>7. QED
      BY <3>4, <3>6
  <2>3. QED
    BY <2>1, <2>2
<1>2. \A i \in 0..m : id[i] \in Nat
  OBVIOUS
<1> DEFINE D == 0..m
<1>3. /\ \A i \in D : id[i] \in Nat
      /\ \A i \in D : (\A r \in D : id[r] < id[i] => r \in T) => i \in T
  BY <1>1, <1>2
<1> HIDE DEF T, id, D
<1>4. \A i \in D : i \in T
  BY <1>3, Descent
<1>5. QED
  BY <1>4 DEF T, D

LEMMA SumsAre ==
  ASSUME NEW m \in Nat, NEW c \in [0..m - 1 -> Nat], NEW i \in 0..m, NEW f, Sums(c, i, f)
  PROVE  f[i] \in Nat /\ (f[i] > 0 => \E j \in 0..i - 1 : c[j] > 0)
<1> DEFINE T == {n \in 0..i : f[n] \in Nat /\ (f[n] > 0 => \E j \in 0..n - 1 : c[j] > 0)}
           id == [n \in 0..i |-> n]
<1>1. \A n \in 0..i : f[n] = IF n = 0 THEN 0 ELSE f[n - 1] + c[n - 1]
  <2> DEFINE v(n) == IF n = 0 THEN 0 ELSE f[n - 1] + c[n - 1]
  <2>1. f = [n \in 0..i |-> v(n)]
    BY DEF Sums
  <2> HIDE DEF v
  <2>2. \A n \in 0..i : f[n] = v(n)
    BY <2>1
  <2>3. QED
    BY <2>2 DEF v
<1>2. ASSUME NEW n \in 0..i, \A r \in 0..i : id[r] < id[n] => r \in T
      PROVE  n \in T
  <2>1. CASE n = 0
    BY <1>1, <2>1
  <2>2. CASE n # 0
    <3>1. n - 1 \in 0..i /\ id[n - 1] < id[n] /\ n - 1 \in 0..m - 1
      BY <2>2
    <3>2. n - 1 \in T /\ f[n] = f[n - 1] + c[n - 1] /\ c[n - 1] \in Nat
      BY <1>1, <1>2, <2>2, <3>1
    <3>3. f[n - 1] \in Nat /\ (f[n - 1] > 0 => \E j \in 0..n - 2 : c[j] > 0)
      BY <3>1, <3>2
    <3>4. f[n] \in Nat /\ (f[n] > 0 => f[n - 1] > 0 \/ c[n - 1] > 0)
      BY <3>2, <3>3
    <3>5. f[n - 1] > 0 => \E j \in 0..n - 1 : c[j] > 0
      BY <3>3
    <3>6. c[n - 1] > 0 => \E j \in 0..n - 1 : c[j] > 0
      <4>1. n - 1 \in 0..n - 1
        BY <2>2
      <4>2. QED
        BY <4>1
    <3>7. QED
      BY <3>4, <3>5, <3>6
  <2>3. QED
    BY <2>1, <2>2
<1>3. \A n \in 0..i : id[n] \in Nat
  OBVIOUS
<1> DEFINE D == 0..i
<1>4. /\ \A n \in D : id[n] \in Nat
      /\ \A n \in D : (\A r \in D : id[r] < id[n] => r \in T) => n \in T
  BY <1>2, <1>3
<1> HIDE DEF T, id, D
<1>5. \A n \in D : n \in T
  BY <1>4, Descent
<1>6. i \in T
  BY <1>5 DEF D
<1>7. QED
  BY <1>6 DEF T

LEMMA TabstopIs ==
  ASSUME col_width \in [0..maxcolumns - 1 -> Nat], NEW i \in 0..maxcolumns - 1
  PROVE  tabstop(i) \in Nat /\ (tabstop(i) > 0 => \E j \in 0..i - 1 : col_width[j] > 0)
<1> DEFINE F == CHOOSE f : Sums(col_width, i, f)
<1>1. PICK c : c = col_width
  OBVIOUS
<1>2. tabstop(i) = F[i]
  BY DEF tabstop, Sums
<1>3. maxcolumns \in Nat /\ i \in 0..maxcolumns /\ c \in [0..maxcolumns - 1 -> Nat]
  BY <1>1, UsageAssumption
<1>4. \E f : Sums(c, i, f)
  BY <1>3, SumsExist
<1>5. Sums(c, i, F)
  BY <1>1, <1>4
<1> HIDE DEF F
<1>6. F[i] \in Nat /\ (F[i] > 0 => \E j \in 0..i - 1 : c[j] > 0)
  BY <1>3, <1>5, SumsAre
<1>7. QED
  BY <1>1, <1>2, <1>6

-----------------------------------------------------------------------------
(***************************************************************************)
(* The line wrappers of the printer are queues.                            *)
(***************************************************************************)

LEMMA NewIs ==
  ASSUME NEW a \in Int, NEW b \in Int
  PROVE  /\ Buffer(LineWrapper(a, b)) /\ LineWrapper(a, b).width >= 2
         /\ buf_empty(LineWrapper(a, b))
<1>1. upmax(b - a, 2) \in Int /\ upmax(b - a, 2) >= 2
  BY DEF upmax
<1>2. bufmask \in Nat /\ bufmask \in 0..bufmask /\ 0 \in 0..bufmask
  BY BufmaskAssumption
<1> DEFINE n == upmax(b - a, 2)
           f == [i \in 0..bufmask |-> << >>]
           w == LineWrapper(a, b)
<1>3. f \in [0..bufmask -> Text]
  BY DEF Text
<1>4. w = [buf |-> f, x |-> a, width |-> n, head |-> 0, tail |-> bufmask, wrote_something |-> FALSE]
  BY DEF LineWrapper
<1> HIDE DEF n, f, w
<1>5. Buffer(w) /\ w.width = n /\ w.tail = bufmask /\ w.head = 0
  BY <1>1, <1>2, <1>3, <1>4 DEF Buffer, n
<1>6. QED
  BY <1>1, <1>5 DEF buf_empty, After, w, n

(* process() and flush() begin with a note that nothing is written.        *)
LEMMA BegunIs ==
  ASSUME NEW w, Buffer(w), NEW b \in BOOLEAN
  PROVE  LET v == [w EXCEPT !.wrote_something = b]
         IN  /\ Buffer(v) /\ v.width = w.width /\ v.x = w.x /\ Waiting(v) = Waiting(w)
             /\ buf_empty(v) <=> buf_empty(w)
             /\ buf_full(v) <=> buf_full(w)
<1> DEFINE v == [w EXCEPT !.wrote_something = b]
<1>1. /\ Buffer(v) /\ v.width = w.width /\ v.buf = w.buf /\ v.head = w.head /\ v.tail = w.tail
      /\ v.x = w.x
  BY DEF Buffer
<1> HIDE DEF v
<1>2. Waiting(v) = Waiting(w)
  BY <1>1 DEF Waiting, Slot
<1>3. (buf_empty(v) <=> buf_empty(w)) /\ (buf_full(v) <=> buf_full(w))
  BY <1>1 DEF buf_empty, buf_full
<1>4. QED
  BY <1>1, <1>2, <1>3 DEF v

LEMMA BreakIs ==
  ASSUME NEW w, Buffer(w)
  PROVE  Blanks(line_break(w))
<1>1. 0 \in Int /\ w.x \in Int
  BY DEF Buffer
<1>2. Blanks(<<NL>> \o indentation(0, w.x))
  BY <1>1, IndentationIs, NewLineIs, BlanksJoined
<1>3. QED
  BY <1>2, NewLineIs DEF line_break

(* write_one_line() takes the first line that waits, if there is one.      *)
LEMMA OneLineIs ==
  ASSUME NEW w, Buffer(w)
  PROVE  LET v == line_written(w)
         IN  /\ Buffer(v) /\ v.width = w.width
             /\ one_line(w) \in Text
             /\ buf_empty(w) => /\ one_line(w) = line_break(w) \o << >> /\ Waiting(v) = Waiting(w)
                                /\ buf_empty(v)
             /\ ~ buf_empty(w) => /\ one_line(w) = line_break(w) \o Head(Waiting(w))
                                  /\ Head(Waiting(w)) \in Text
                                  /\ Waiting(w) # << >> /\ Waiting(v) = Tail(Waiting(w))
                                  /\ ~ buf_full(v)
<1> DEFINE v == line_written(w)
<1>1. line_break(w) \in Text
  BY BreakIs DEF Blanks
<1>2. CASE buf_empty(w)
  <2>1. v = [w EXCEPT !.wrote_something = TRUE]
    BY <1>2 DEF line_written
  <2> HIDE DEF v
  <2>2. Buffer(v) /\ v.width = w.width /\ Waiting(v) = Waiting(w) /\ buf_empty(v)
    BY <1>2, <2>1, BegunIs
  <2>3. one_line(w) = line_break(w) \o << >>
    BY <1>2 DEF one_line
  <2>4. one_line(w) \in Text
    BY <1>1, <2>3 DEF Text
  <2>5. QED
    BY <1>2, <2>2, <2>3, <2>4 DEF v
<1>3. CASE ~ buf_empty(w)
  <2> DEFINE m == buf_next(w)
  <2>1. v = [m EXCEPT !.wrote_something = TRUE]
    BY <1>3 DEF line_written
  <2>2. Buffer(m) /\ w.buf[After(w.tail)] = Head(Waiting(w)) /\ Waiting(m) = Tail(Waiting(w))
    BY <1>3, NextTakes
  <2>3. m.width = w.width /\ m.head = w.head /\ m.tail = After(w.tail)
    BY DEF buf_next, Buffer
  <2> HIDE DEF v, m
  <2>4. /\ Buffer(v) /\ v.width = m.width /\ Waiting(v) = Waiting(m)
        /\ buf_full(v) <=> buf_full(m)
    BY <2>1, <2>2, BegunIs
  <2>5. one_line(w) = line_break(w) \o Head(Waiting(w))
    BY <1>3, <2>2 DEF one_line
  <2>6. After(w.tail) \in 0..bufmask
    BY BufmaskAssumption DEF Buffer, After
  <2>7. Head(Waiting(w)) \in Text
    <3>1. \A i \in 0..bufmask : w.buf[i] \in Text
      BY DEF Buffer
    <3>2. QED
      BY ONLY <2>2, <2>6, <3>1
  <2>8. one_line(w) \in Text
    BY <1>1, <2>5, <2>7 DEF Text
  <2>9. Waiting(w) # << >>
    BY <1>3, EmptyAndFull
  <2>10. ~ buf_full(m)
    BY <1>3, <2>3 DEF buf_full, buf_empty
  <2>11. QED
    BY <1>3, <2>2, <2>3, <2>4, <2>5, <2>7, <2>8, <2>9, <2>10 DEF v
<1>4. QED
  BY <1>2, <1>3

LEMMA StoredIs ==
  ASSUME NEW w, Buffer(w), NEW d \in Text
  PROVE  LET v == buf_store(IF buf_full(w) THEN line_written(w) ELSE w, d)
         IN  /\ Buffer(v) /\ v.width = w.width
             /\ Waiting(w) \in Seq(Text)
             /\ ~ buf_full(w) => Len(Waiting(w)) < bufmask /\ Waiting(v) = Append(Waiting(w), d)
             /\ buf_full(w) => /\ Len(Waiting(w)) = bufmask /\ Waiting(w) # << >>
                               /\ Head(Waiting(w)) \in Text /\ one_line(w) \in Text
                               /\ one_line(w) = line_break(w) \o Head(Waiting(w))
                               /\ Waiting(v) = Append(Tail(Waiting(w)), d)
<1>1. /\ Waiting(w) \in Seq(Text) /\ Len(Waiting(w)) \in 0..bufmask
      /\ bufmask \in Nat \ {0}
  BY WaitingType, BufmaskAssumption
<1>2. /\ buf_empty(w) <=> Waiting(w) = << >>
      /\ buf_full(w) <=> Len(Waiting(w)) = bufmask
  BY EmptyAndFull
<1>3. ASSUME NEW m, Buffer(m), ~ buf_full(m)
      PROVE  /\ Buffer(buf_store(m, d)) /\ Waiting(buf_store(m, d)) = Append(Waiting(m), d)
             /\ buf_store(m, d).width = m.width
  <2>1. Buffer(buf_store(m, d)) /\ Waiting(buf_store(m, d)) = Append(Waiting(m), d)
    BY <1>3, StorePuts
  <2>2. buf_store(m, d).width = m.width
    BY <1>3 DEF buf_store, Buffer
  <2>3. QED
    BY <2>1, <2>2
<1>4. CASE ~ buf_full(w)
  BY <1>1, <1>2, <1>3, <1>4
<1>5. CASE buf_full(w)
  <2>1. ~ buf_empty(w)
    <3>1. Len(Waiting(w)) # 0
      BY <1>1, <1>2, <1>5
    <3>2. Len(<< >>) = 0
      OBVIOUS
    <3>3. Waiting(w) # << >>
      BY <3>1, <3>2
    <3>4. QED
      BY <1>2, <3>3
  <2>2. /\ Buffer(line_written(w)) /\ line_written(w).width = w.width /\ one_line(w) \in Text
        /\ one_line(w) = line_break(w) \o Head(Waiting(w)) /\ Head(Waiting(w)) \in Text
        /\ Waiting(w) # << >> /\ Waiting(line_written(w)) = Tail(Waiting(w))
        /\ ~ buf_full(line_written(w))
    BY <2>1, OneLineIs
  <2>3. /\ Buffer(buf_store(line_written(w), d))
        /\ Waiting(buf_store(line_written(w), d)) = Append(Tail(Waiting(w)), d)
        /\ buf_store(line_written(w), d).width = w.width
    BY <1>3, <2>2
  <2>4. QED
    BY <1>1, <1>2, <1>5, <2>2, <2>3
<1>6. QED
  BY <1>4, <1>5

LEMMA ExtendedIs ==
  ASSUME NEW o \in Text, NEW s \in Text
  PROVE  /\ o \o s \in Text /\ Len(o \o s) >= Len(o)
         /\ SubSeq(o \o s, 1, Len(o)) = o
<1> DEFINE r == o \o s
<1>1. /\ r \in Seq(Nat) /\ Len(r) = Len(o) + Len(s) /\ Len(o) \in Nat /\ Len(s) \in Nat
      /\ \A i \in 1..Len(o) : r[i] = o[i]
  BY ConcatProperties DEF Text
<1> HIDE DEF r
<1>2. /\ SubSeq(r, 1, Len(o)) \in Seq(Nat) /\ Len(SubSeq(r, 1, Len(o))) = Len(o)
      /\ \A i \in 1..Len(o) : SubSeq(r, 1, Len(o))[i] = r[i]
  <2>1. 1 \in 1..Len(r) + 1 /\ Len(o) \in 0..Len(r)
    BY <1>1
  <2>2. /\ SubSeq(r, 1, Len(o)) \in Seq(Nat)
        /\ Len(SubSeq(r, 1, Len(o))) = IF 1 <= Len(o) THEN Len(o) - 1 + 1 ELSE 0
        /\ \A i \in 1..Len(o) - 1 + 1 : SubSeq(r, 1, Len(o))[i] = r[1 + i - 1]
    <3>1. 1 \in Int /\ Len(o) \in Int /\ \A i \in 1..Len(o) : r[i] \in Nat
      BY <1>1, <2>1
    <3>2. QED
      BY ONLY <3>1, SubSeqProperties
  <2>3. QED
    BY <1>1, <2>2
<1>3. SubSeq(r, 1, Len(o)) = o
  BY <1>1, <1>2, SeqEqual DEF Text
<1>4. QED
  BY <1>1, <1>3 DEF r, Text

(* What is written of a line that leaves the queue.                        *)
EndsWith(r, o, l) ==
    /\ Len(r) >= Len(o) /\ SubSeq(r, 1, Len(o)) = o
    /\ Len(r) >= Len(o) + Len(l)
    /\ SubSeq(r, Len(r) - Len(l) + 1, Len(r)) = l
    /\ \A i \in Len(o) + 1..Len(r) - Len(l) : r[i] \in {NL, SPACE}

LEMMA WrittenIs ==
  ASSUME NEW o \in Text, NEW b, Blanks(b), NEW l \in Text
  PROVE  o \o (b \o l) \in Text /\ EndsWith(o \o (b \o l), o, l)
<1> DEFINE s == b \o l
           r == o \o s
           n == Len(r)
           k == Len(l)
           m == n - k
<1>1. /\ s \in Seq(Nat) /\ Len(s) = Len(b) + k /\ Len(b) \in Nat /\ k \in Nat /\ Len(o) \in Nat
      /\ \A i \in 1..Len(s) : s[i] = IF i <= Len(b) THEN b[i] ELSE l[i - Len(b)]
  BY ConcatProperties DEF Text, Blanks
<1>2. s \in Text
  BY <1>1 DEF Text
<1> HIDE DEF s
<1>3. /\ r \in Seq(Nat) /\ n = Len(o) + Len(s)
      /\ \A i \in 1..n : r[i] = IF i <= Len(o) THEN o[i] ELSE s[i - Len(o)]
  <2>1. o \in Seq(Nat) /\ s \in Seq(Nat)
    BY <1>1 DEF Text
  <2>2. /\ r \in Seq(Nat) /\ Len(r) = Len(o) + Len(s)
        /\ \A i \in 1..Len(o) + Len(s) : r[i] = IF i <= Len(o) THEN o[i] ELSE s[i - Len(o)]
    BY <2>1, ConcatProperties
  <2> HIDE DEF r
  <2>3. QED
    BY <2>2
<1>4. r \in Text /\ n >= Len(o) /\ SubSeq(r, 1, Len(o)) = o
  BY <1>2, ExtendedIs
<1> HIDE DEF r, n
<1>5. /\ n \in Nat /\ m = Len(o) + Len(b) /\ m \in Nat /\ n = m + k /\ n = Len(o) + Len(s)
      /\ Len(s) = Len(b) + k /\ Len(o) \in Nat /\ Len(b) \in Nat /\ k \in Nat
  BY <1>1, <1>3
<1> HIDE DEF m, k
<1>6. \A i \in Len(o) + 1..m : r[i] \in {NL, SPACE}
  <2> SUFFICES ASSUME NEW i \in Len(o) + 1..m PROVE r[i] \in {NL, SPACE}
    OBVIOUS
  <2>1. /\ i \in 1..n /\ ~ (i <= Len(o)) /\ i - Len(o) \in 1..Len(s) /\ i - Len(o) <= Len(b)
        /\ i - Len(o) \in 1..Len(b)
    BY <1>5
  <2>2. r[i] = b[i - Len(o)]
    BY <1>1, <1>3, <2>1
  <2>3. QED
    BY <2>1, <2>2 DEF Blanks
<1>7. \A i \in 1..k : r[m + i] = l[i]
  <2> SUFFICES ASSUME NEW i \in 1..k PROVE r[m + i] = l[i]
    OBVIOUS
  <2> DEFINE j == m + i
             v == Len(b) + i
  <2>1. /\ j \in 1..n /\ ~ (j <= Len(o)) /\ j - Len(o) = v
        /\ v \in 1..Len(s) /\ ~ (v <= Len(b)) /\ v - Len(b) = i
    BY <1>5
  <2> HIDE DEF j, v
  <2>2. r[j] = s[v]
    BY <1>3, <2>1
  <2>3. s[v] = l[i]
    BY <1>1, <2>1
  <2>4. QED
    BY <2>2, <2>3 DEF j
<1>8. /\ SubSeq(r, m + 1, n) \in Seq(Nat) /\ Len(SubSeq(r, m + 1, n)) = k
      /\ \A i \in 1..k : SubSeq(r, m + 1, n)[i] = r[m + i]
  <2>1. m + 1 \in 1..Len(r) + 1 /\ n \in 0..Len(r)
    BY <1>5 DEF n
  <2>2. /\ SubSeq(r, m + 1, n) \in Seq(Nat)
        /\ Len(SubSeq(r, m + 1, n)) = IF m + 1 <= n THEN n - (m + 1) + 1 ELSE 0
        /\ \A i \in 1..n - (m + 1) + 1 : SubSeq(r, m + 1, n)[i] = r[(m + 1) + i - 1]
    <3> DEFINE a == m + 1
    <3>1. a \in 1..Len(r) + 1 /\ n \in 0..Len(r)
      BY <2>1
    <3> HIDE DEF a
    <3>2. /\ SubSeq(r, a, n) \in Seq(Nat)
          /\ Len(SubSeq(r, a, n)) = IF a <= n THEN n - a + 1 ELSE 0
          /\ \A i \in 1..n - a + 1 : SubSeq(r, a, n)[i] = r[a + i - 1]
      <4>1. a \in Int /\ n \in Int /\ (\A i \in a..n : i \in 1..Len(r)) /\ r \in Seq(Nat)
        BY <1>3, <1>5, <3>1
      <4>2. \A i \in a..n : r[i] \in Nat
        BY ONLY <4>1
      <4>3. QED
        BY ONLY <4>1, <4>2, SubSeqProperties
    <3>3. QED
      BY <3>2 DEF a
  <2>3. \A i \in 1..k : i \in 1..n - (m + 1) + 1 /\ (m + 1) + i - 1 = m + i
    BY <1>5
  <2>4. Len(SubSeq(r, m + 1, n)) = k
    <3>1. IF m + 1 <= n THEN n - (m + 1) + 1 = k ELSE 0 = k
      BY <1>5
    <3>2. QED
      BY ONLY <2>2, <3>1
  <2>5. QED
    BY <2>2, <2>3, <2>4
<1>9. SubSeq(r, m + 1, n) = l
  BY <1>7, <1>8, SeqEqual DEF Text, k
<1>10. n >= Len(o) + k
  BY <1>5
<1>11. /\ r \in Text /\ n >= Len(o) /\ SubSeq(r, 1, Len(o)) = o /\ n >= Len(o) + k
       /\ SubSeq(r, m + 1, n) = l /\ \A i \in Len(o) + 1..m : r[i] \in {NL, SPACE}
  BY <1>4, <1>6, <1>9, <1>10
<1>12. QED
  BY <1>11 DEF m, n, k, r, s, EndsWith

LEMMA LongerIs ==
  ASSUME NEW q \in Seq(Text), NEW d \in Text
  PROVE  Len(Append(q, d)) = Len(q) + 1 /\ SubSeq(Append(q, d), 1, Len(q)) = q
<1> DEFINE r == Append(q, d)
<1>1. /\ r \in Seq(Text) /\ Len(r) = Len(q) + 1 /\ Len(q) \in Nat
      /\ \A i \in 1..Len(q) : r[i] = q[i]
  BY AppendProperties
<1> HIDE DEF r
<1>2. /\ SubSeq(r, 1, Len(q)) \in Seq(Text)
      /\ Len(SubSeq(r, 1, Len(q))) = IF 1 <= Len(q) THEN Len(q) - 1 + 1 ELSE 0
      /\ \A i \in 1..Len(q) - 1 + 1 : SubSeq(r, 1, Len(q))[i] = r[1 + i - 1]
  <2>1. 1 \in 1..Len(r) + 1 /\ Len(q) \in 0..Len(r)
    BY <1>1
  <2>2. QED
    BY <1>1, <2>1, SubSeqProperties
<1>3. Len(SubSeq(r, 1, Len(q))) = Len(q) /\ \A i \in 1..Len(q) : SubSeq(r, 1, Len(q))[i] = q[i]
  BY <1>1, <1>2
<1>4. SubSeq(r, 1, Len(q)) = q
  BY <1>2, <1>3, SeqEqual
<1>5. QED
  BY <1>1, <1>4 DEF r

-----------------------------------------------------------------------------
(* Steps of the queue that a wrapper is.                                   *)
Keeps(w) == [Queue(w)!Next]_(Queue(w)!vars)

LEMMA SameKeeps ==
  ASSUME NEW w \in Wrappers, out' = out, Waiting(wrapper'[w]) = Waiting(wrapper[w])
  PROVE  Keeps(w)
BY DEF Keeps, Queue!vars

LEMMA ElsewhereKeeps ==
  ASSUME NEW w \in Wrappers, out \in Text, NEW s \in Text, out' = out \o s,
         Waiting(wrapper'[w]) = Waiting(wrapper[w])
  PROVE  Keeps(w)
<1>1. Len(out') >= Len(out) /\ SubSeq(out', 1, Len(out)) = out
  <2>1. PICK o : o = out
    OBVIOUS
  <2>2. Len(o \o s) >= Len(o) /\ SubSeq(o \o s, 1, Len(o)) = o
    BY <2>1, ExtendedIs
  <2>3. QED
    BY <2>1, <2>2
<1>2. Queue(w)!Elsewhere
  BY <1>1 DEF Queue!Elsewhere, Queue!Extended
<1>3. QED
  BY <1>2 DEF Keeps, Queue!Next

LEMMA PutKeeps ==
  ASSUME NEW w \in Wrappers, NEW d \in Text, Waiting(wrapper[w]) \in Seq(Text),
         Len(Waiting(wrapper[w])) < bufmask, out' = out,
         Waiting(wrapper'[w]) = Append(Waiting(wrapper[w]), d)
  PROVE  Keeps(w)
<1>1. PICK q : q = Waiting(wrapper[w])
  OBVIOUS
<1>2. Len(Append(q, d)) = Len(q) + 1 /\ SubSeq(Append(q, d), 1, Len(q)) = q
  BY <1>1, LongerIs
<1>3. Queue(w)!Put
  BY <1>1, <1>2 DEF Queue!Put, Queue!Longer
<1>4. QED
  BY <1>3 DEF Keeps, Queue!Next

LEMMA WrittenKeeps ==
  ASSUME NEW w \in Wrappers, out \in Text, NEW b, Blanks(b), NEW l \in Text,
         out' = out \o (b \o l)
  PROVE  Queue(w)!Written(l)
<1>1. PICK o : o = out
  OBVIOUS
<1>2. EndsWith(o \o (b \o l), o, l)
  BY <1>1, WrittenIs
<1>3. EndsWith(out', out, l)
  BY <1>1, <1>2
<1>4. QED
  BY <1>3 DEF EndsWith, Queue!Written, Queue!Extended

LEMMA PutFullKeeps ==
  ASSUME NEW w \in Wrappers, NEW d \in Text, Waiting(wrapper[w]) \in Seq(Text),
         Len(Waiting(wrapper[w])) = bufmask, Waiting(wrapper[w]) # << >>, out \in Text,
         NEW b, Blanks(b), Head(Waiting(wrapper[w])) \in Text,
         out' = out \o (b \o Head(Waiting(wrapper[w]))),
         Waiting(wrapper'[w]) = Append(Tail(Waiting(wrapper[w])), d)
  PROVE  Keeps(w)
<1>1. PICK q : q = Waiting(wrapper[w])
  OBVIOUS
<1>2. Queue(w)!Written(Head(q))
  BY <1>1, WrittenKeeps
<1>3. Tail(q) \in Seq(Text)
  BY <1>1
<1>4. /\ Len(Append(Tail(q), d)) = Len(Tail(q)) + 1
      /\ SubSeq(Append(Tail(q), d), 1, Len(Tail(q))) = Tail(q)
  BY <1>3, LongerIs
<1>5. Queue(w)!PutFull
  BY <1>1, <1>2, <1>4 DEF Queue!PutFull, Queue!Longer
<1>6. QED
  BY <1>5 DEF Keeps, Queue!Next

LEMMA TakeKeeps ==
  ASSUME NEW w \in Wrappers, Waiting(wrapper[w]) # << >>, out \in Text,
         NEW b, Blanks(b), Head(Waiting(wrapper[w])) \in Text,
         out' = out \o (b \o Head(Waiting(wrapper[w]))),
         Waiting(wrapper'[w]) = Tail(Waiting(wrapper[w]))
  PROVE  Keeps(w)
<1>1. PICK q : q = Waiting(wrapper[w])
  OBVIOUS
<1>2. Queue(w)!Written(Head(q))
  BY <1>1, WrittenKeeps
<1>3. Queue(w)!Take
  BY <1>1, <1>2 DEF Queue!Take
<1>4. QED
  BY <1>3 DEF Keeps, Queue!Next

-----------------------------------------------------------------------------
(***************************************************************************)
(* The inductive invariant: the iterator stays in its help text, and is at *)
(* a part of it where the program looks at one; the variables of the       *)
(* layout are numbers, the widths smaller than the threshold that the      *)
(* search has now; the wrappers are buffers, and empty between the rows.   *)
(***************************************************************************)

Given ==
    /\ usage \in Helps
    /\ set.width \in Int /\ set.last_column_min_percent \in Nat
    /\ set.last_column_own_line_max_percent \in Nat

InPlace ==
    /\ Placed(usage, part)
    /\ pc \in {"width part", "part", "put", "wrap", "own"} => AtText(usage, part)
    /\ pc = "put" => part.col >= 0

Sizes ==
    /\ overlong_column_threshold \in Nat /\ col_width \in [0..maxcolumns - 1 -> Nat]
    /\ lastcolumn \in 0..maxcolumns - 1 /\ rightwidth \in Int

Narrowing ==
    pc \in {"width row", "width part"} =>
        \A i \in 0..maxcolumns - 1 : col_width[i] = 0 \/ col_width[i] < overlong_column_threshold

Buffers(r) == DOMAIN r = Wrappers /\ \A w \in Wrappers : Buffer(r[w]) /\ r[w].width >= 2

Texts ==
    /\ Buffers(wrapper) /\ lineWrapper \in Wrappers
    /\ rest \in Text /\ out \in Text /\ x \in Int

Between == {"table", "widths", "width row", "width part", "layout", "row", "done"}

Emptied ==
    /\ pc \in Between => \A w \in Wrappers : buf_empty(wrapper[w])
    /\ pc \in {"flush", "line"} /\ lineWrapper = "interjection" => buf_empty(wrapper["last"])

Sane == Given /\ InPlace /\ Sizes /\ Narrowing /\ Texts /\ Emptied

LEMMA WidthIs ==
  ASSUME Given
  PROVE  /\ Width \in Int /\ Width >= 1
         /\ last_column_min_width \in Int /\ last_column_own_line_max_width \in Int
<1>1. Width \in Int /\ Width >= 1
  BY DEF Width, Given
<1>2. ASSUME NEW p \in Nat
      PROVE  Percent(p) \in Int
  <2>1. PICK v \in Int : v = Width
    BY <1>1
  <2>2. v * p \in Int
    OBVIOUS
  <2>3. PICK n \in Int : n = v * p
    BY <2>2
  <2>4. (n + 50) \div 100 \in Int
    OBVIOUS
  <2>5. QED
    BY <2>1, <2>3, <2>4 DEF Percent
<1>3. Percent(set.last_column_min_percent) \in Int /\ Percent(set.last_column_own_line_max_percent) \in Int
  BY <1>2 DEF Given
<1>4. QED
  BY <1>1, <1>3 DEF last_column_min_width, last_column_own_line_max_width, upmax

LEMMA SetIs ==
  ASSUME NEW r, Buffers(r), NEW l \in Wrappers, NEW v, Buffer(v), v.width >= 2
  PROVE  LET q == [r EXCEPT ![l] = v]
         IN  Buffers(q) /\ q[l] = v /\ \A w \in Wrappers : w # l => q[w] = r[w]
<1> DEFINE q == [r EXCEPT ![l] = v]
<1>1. DOMAIN q = Wrappers /\ q[l] = v /\ \A w \in Wrappers : w # l => q[w] = r[w]
  BY DEF Buffers
<1> HIDE DEF q
<1>2. \A w \in Wrappers : Buffer(q[w]) /\ q[w].width >= 2
  <2> TAKE w \in Wrappers
  <2>1. CASE w = l
    BY <1>1, <2>1
  <2>2. CASE w # l
    BY <1>1, <2>2 DEF Buffers
  <2>3. QED
    BY <2>1, <2>2
<1>3. QED
  BY <1>1, <1>2 DEF Buffers, q

(* begin_process() and flush() in a wrapper.                               *)
Noted(r, l) == [r EXCEPT ![l].wrote_something = FALSE]

LEMMA NotedIs ==
  ASSUME NEW r, Buffers(r), NEW l \in Wrappers
  PROVE  LET q == Noted(r, l)
         IN  /\ Buffers(q) /\ \A w \in Wrappers : w # l => q[w] = r[w]
             /\ \A w \in Wrappers : Waiting(q[w]) = Waiting(r[w])
<1> DEFINE v == [r[l] EXCEPT !.wrote_something = FALSE]
           q == [r EXCEPT ![l] = v]
<1>1. Noted(r, l) = q
  BY DEF Noted
<1>2. Buffer(r[l]) /\ r[l].width >= 2 /\ FALSE \in BOOLEAN
  BY DEF Buffers
<1>3. Buffer(v) /\ v.width = r[l].width /\ Waiting(v) = Waiting(r[l])
  BY <1>2, BegunIs
<1> HIDE DEF v
<1>4. Buffers(q) /\ q[l] = v /\ \A w \in Wrappers : w # l => q[w] = r[w]
  BY <1>2, <1>3, SetIs
<1> HIDE DEF q
<1>5. \A w \in Wrappers : Waiting(q[w]) = Waiting(r[w])
  BY <1>3, <1>4
<1>6. QED
  BY <1>1, <1>4, <1>5

LEMMA SaneInit == Init => Sane /\ \A w \in Wrappers : Queue(w)!Init
<1> SUFFICES ASSUME Init PROVE Sane /\ \A w \in Wrappers : Queue(w)!Init
  OBVIOUS
<1>1. Given
  BY UsageAssumption DEF Init, Given, Helps
<1>2. InPlace
  <2>1. part \in Iterator /\ part.ptr = 0 /\ part.rowstart = 0
    BY DEF Init, LinePartIterator, Iterator
  <2>2. Long(usage, part) \in Nat
    BY <1>1, HelpIs DEF Long, Given
  <2>3. QED
    BY <2>1, <2>2 DEF Init, InPlace, Placed
<1>3. Sizes /\ Narrowing
  BY UsageAssumption DEF Init, Sizes, Narrowing
<1>4. /\ Buffer(LineWrapper(0, 0)) /\ LineWrapper(0, 0).width >= 2
      /\ buf_empty(LineWrapper(0, 0))
  BY NewIs
<1>5. wrapper = [w \in Wrappers |-> LineWrapper(0, 0)] /\ out = << >>
  BY DEF Init
<1>6. Buffers(wrapper) /\ \A w \in Wrappers : wrapper[w] = LineWrapper(0, 0)
  BY <1>4, <1>5 DEF Buffers
<1>7. Texts
  BY <1>6 DEF Init, Texts, Text, Wrappers
<1>8. Emptied
  <2>1. "last" \in Wrappers
    BY DEF Wrappers
  <2>2. QED
    BY <1>4, <1>6, <2>1 DEF Emptied
<1>9. Waiting(LineWrapper(0, 0)) = << >>
  BY <1>4, EmptyAndFull
<1>10. \A w \in Wrappers : Queue(w)!Init
  BY <1>5, <1>6, <1>9 DEF Queue!Init
<1>11. QED
  BY <1>1, <1>2, <1>3, <1>7, <1>8, <1>10 DEF Sane

-----------------------------------------------------------------------------
(***************************************************************************)
(* The steps keep it, and are steps of the queues.                         *)
(***************************************************************************)
Kept == Sane' /\ \A w \in Wrappers : Keeps(w)

(* Nothing is written, and the wrappers stay as they are.                  *)
LEMMA Quiet ==
  ASSUME Sane, UNCHANGED <<input, lines, out>>, x' \in Int
  PROVE  Given' /\ Texts' /\ \A w \in Wrappers : Keeps(w)
<1>1. usage' = usage /\ set' = set /\ wrapper' = wrapper /\ lineWrapper' = lineWrapper
      /\ rest' = rest /\ out' = out
  BY DEF input, lines
<1>2. Given'
  BY <1>1 DEF Sane, Given
<1>3. Texts'
  BY <1>1 DEF Sane, Texts
<1>4. \A w \in Wrappers : Keeps(w)
  BY <1>1, SameKeeps
<1>5. QED
  BY <1>2, <1>3, <1>4

LEMMA TableKept ==
  ASSUME Sane, next_table \/ restart \/ measure_row \/ next_row
  PROVE  Kept
<1>1. usage \in Helps /\ Placed(usage, part) /\ part \in Iterator /\ x \in Int
  BY DEF Sane, Given, InPlace, Placed, Texts
<1>2. /\ UNCHANGED <<input, lines, out>> /\ x' \in Int
      /\ pc \in {"table", "widths", "width row", "row"}
      /\ pc' \in {"widths", "done", "width row", "width part", "part", "table"}
  <2>1. CASE next_table
    BY <1>1, <2>1 DEF next_table
  <2>2. CASE restart
    BY <1>1, <2>2 DEF restart
  <2>3. CASE measure_row
    BY <1>1, <2>3 DEF measure_row
  <2>4. CASE next_row
    <3>1. UNCHANGED <<input, lines, out>> /\ pc = "row"
      BY <2>4 DEF next_row
    <3>2. (pc' = "part" /\ x' = -1) \/ (pc' = "table" /\ x' = x)
      BY <2>4 DEF next_row
    <3>3. x' \in Int
      BY <1>1, <3>2
    <3>4. pc' \in {"part", "table"}
      BY <3>2
    <3>5. QED
      BY <3>1, <3>3, <3>4
  <2>5. QED
    BY <2>1, <2>2, <2>3, <2>4
<1>3. Given' /\ Texts' /\ \A w \in Wrappers : Keeps(w)
  BY <1>2, Quiet
<1>4. usage' = usage /\ wrapper' = wrapper /\ lineWrapper' = lineWrapper
  BY <1>2 DEF input, lines
<1>5. pc \in Between
  BY <1>2 DEF Between
<1>6. \A w \in Wrappers : buf_empty(wrapper'[w])
  BY <1>4, <1>5 DEF Sane, Emptied
<1>7. pc' \notin {"flush", "line"}
  BY <1>2
<1>8. Emptied'
  BY <1>6, <1>7 DEF Emptied
<1>9. Sizes'
  <2>1. CASE next_table
    BY <2>1 DEF Sane, Sizes, next_table
  <2>2. CASE restart
    <3>0. 0 \in 0..maxcolumns - 1
      BY UsageAssumption
    <3>1. /\ lastcolumn' = 0 /\ rightwidth' = rightwidth
          /\ overlong_column_threshold' = overlong_column_threshold
      BY <2>2 DEF restart
    <3>2. col_width' = [i \in 0..maxcolumns - 1 |-> 0]
      BY <2>2 DEF restart
    <3>3. col_width' \in [0..maxcolumns - 1 -> Nat]
      BY <3>2
    <3>4. QED
      BY <3>0, <3>1, <3>3 DEF Sane, Sizes
  <2>3. CASE measure_row
    BY <2>3 DEF Sane, Sizes, measure_row, layout_vars
  <2>4. CASE next_row
    BY <2>4 DEF Sane, Sizes, next_row, layout_vars
  <2>5. QED
    BY <2>1, <2>2, <2>3, <2>4
<1>10. Narrowing'
  <2>1. CASE next_table
    BY <2>1 DEF Narrowing, next_table
  <2>2. CASE restart
    BY <2>2 DEF Narrowing, restart
  <2>3. CASE measure_row
    BY <2>3 DEF Sane, Narrowing, measure_row, layout_vars
  <2>4. CASE next_row
    BY <2>4 DEF Narrowing, next_row
  <2>5. QED
    BY <2>1, <2>2, <2>3, <2>4
<1>11. InPlace'
  <2>1. CASE next_table
    <3>1. Placed(usage, nextTable(usage, part).it)
      BY <1>1, NextTableIs
    <3>2. QED
      BY <1>4, <2>1, <3>1 DEF InPlace, next_table
  <2>2. CASE restart
    <3>1. Placed(usage, restartTable(usage, part))
      BY <1>1, RestartTableIs
    <3>2. QED
      BY <1>4, <2>2, <3>1 DEF InPlace, restart
  <2> DEFINE r == nextRow(usage, part)
  <2>3. Placed(usage, r.it) /\ (r.ok => AtText(usage, r.it))
    BY <1>1, NextRowIs
  <2>4. CASE measure_row
    <3>1. r.ok /\ part' = r.it /\ pc' = "width part"
      BY <2>4 DEF measure_row
    <3>2. QED
      BY <1>4, <2>3, <3>1 DEF InPlace
  <2>5. CASE next_row
    <3>1. part' = r.it /\ ((r.ok /\ pc' = "part") \/ pc' = "table")
      BY <2>5 DEF next_row
    <3>2. QED
      BY <1>4, <2>3, <3>1 DEF InPlace
  <2>6. QED
    BY <2>1, <2>2, <2>4, <2>5
<1>12. QED
  BY <1>3, <1>8, <1>9, <1>10, <1>11 DEF Kept, Sane

LEMMA MeasureKept ==
  ASSUME Sane, measure
  PROVE  Kept
<1> DEFINE n == next(usage, part)
           c == column(n.it)
           s == n.it.screenlen
<1>1. usage \in Helps /\ AtText(usage, part) /\ x \in Int /\ pc = "width part"
  BY DEF Sane, Given, InPlace, Texts, measure
<1>2. AtText(usage, n.it) /\ n.it.col >= 0
  BY <1>1, NextIs
<1>3. n.it \in Iterator /\ c \in Int /\ c >= 0 /\ s \in Nat
  BY <1>2 DEF AtText, Inside, Iterator, column
<1>4. UNCHANGED <<input, lines, out>> /\ x' \in Int
  BY <1>1 DEF measure
<1>5. Given' /\ Texts' /\ \A w \in Wrappers : Keeps(w)
  BY <1>4, Quiet
<1>6. /\ usage' = usage /\ wrapper' = wrapper /\ lineWrapper' = lineWrapper /\ part' = n.it
      /\ overlong_column_threshold' = overlong_column_threshold /\ rightwidth' = rightwidth
      /\ pc' \in {"width row", "width part"}
  BY <1>1 DEF measure, input, lines
<1>7. Placed(usage, n.it)
  BY <1>2 DEF AtText, Placed, Inside
<1>8. InPlace'
  BY <1>2, <1>6, <1>7 DEF InPlace
<1>9. Emptied'
  BY <1>1, <1>6 DEF Sane, Emptied, Between
<1>10. \/ lastcolumn' = lastcolumn
       \/ c < maxcolumns /\ lastcolumn' = upmax(lastcolumn, c)
  BY DEF measure
<1>11. \/ col_width' = col_width
       \/ /\ c < maxcolumns /\ s < overlong_column_threshold
          /\ col_width' = [col_width EXCEPT ![c] = upmax(@, s)]
  BY DEF measure, Counts, column
<1> HIDE DEF n, c, s
<1>12. lastcolumn' \in 0..maxcolumns - 1
  BY <1>3, <1>10, UsageAssumption DEF Sane, Sizes, upmax
<1>13. /\ col_width' \in [0..maxcolumns - 1 -> Nat]
       /\ \A i \in 0..maxcolumns - 1 :
              \/ col_width'[i] = col_width[i]
              \/ col_width'[i] = s /\ s < overlong_column_threshold
  <2>1. CASE col_width' = col_width
    BY <2>1 DEF Sane, Sizes
  <2>2. CASE /\ c < maxcolumns /\ s < overlong_column_threshold
             /\ col_width' = [col_width EXCEPT ![c] = upmax(@, s)]
    <3> DEFINE v == upmax(col_width[c], s)
    <3>1. c \in 0..maxcolumns - 1
      BY <1>3, <2>2, UsageAssumption
    <3>2. col_width \in [0..maxcolumns - 1 -> Nat] /\ col_width[c] \in Nat
      BY <3>1 DEF Sane, Sizes
    <3>3. v \in Nat /\ v \in {col_width[c], s}
      BY <1>3, <3>2 DEF upmax
    <3>4. col_width' = [col_width EXCEPT ![c] = v]
      BY <2>2
    <3> HIDE DEF v
    <3>5. /\ col_width' \in [0..maxcolumns - 1 -> Nat] /\ col_width'[c] = v
          /\ \A i \in 0..maxcolumns - 1 : i # c => col_width'[i] = col_width[i]
      BY <3>1, <3>2, <3>3, <3>4
    <3>6. QED
      BY <2>2, <3>3, <3>5
  <2>3. QED
    BY <1>11, <2>1, <2>2
<1>14. Sizes'
  BY <1>6, <1>12, <1>13 DEF Sane, Sizes
<1>15. Narrowing'
  <2>1. \A i \in 0..maxcolumns - 1 : col_width[i] = 0 \/ col_width[i] < overlong_column_threshold
    BY <1>1 DEF Sane, Narrowing
  <2>2. QED
    BY <1>6, <1>13, <2>1 DEF Narrowing
<1>16. QED
  BY <1>5, <1>8, <1>9, <1>14, <1>15 DEF Kept, Sane

(* The threshold becomes the widest of the columns, which was smaller.     *)
LEMMA ThresholdIs ==
  ASSUME Sane, measured
  PROVE  /\ overlong_column_threshold' \in Nat
         /\ pc' = "widths" => overlong_column_threshold' < overlong_column_threshold
<1> DEFINE S == {col_width[i] : i \in 0..lastcolumn - 1} \cup {0}
           b == overlong_column_threshold
           m == Max(S)
<1>1. /\ b \in Nat /\ col_width \in [0..maxcolumns - 1 -> Nat] /\ lastcolumn \in 0..maxcolumns - 1
      /\ maxcolumns \in Nat
  BY UsageAssumption DEF Sane, Sizes
<1>2. \A i \in 0..maxcolumns - 1 : col_width[i] = 0 \/ col_width[i] < b
  BY DEF Sane, Narrowing, measured
<1>3. \A i \in 0..lastcolumn - 1 : i \in 0..maxcolumns - 1
  BY <1>1
<1>4. S \in SUBSET Nat /\ S # {} /\ \A y \in S : y <= b
  BY <1>1, <1>2, <1>3
<1>5. m \in S /\ \A y \in S : m >= y
  BY <1>1, <1>4, MaxIs
<1>6. overlong_column_threshold' = m /\ (pc' = "widths" => tabstop(lastcolumn) > Width)
  BY DEF measured
<1> HIDE DEF m
<1>7. ASSUME tabstop(lastcolumn) > Width
      PROVE  m < b
  <2>1. Width \in Int /\ Width >= 1
    BY WidthIs DEF Sane
  <2>2. /\ tabstop(lastcolumn) \in Nat
        /\ tabstop(lastcolumn) > 0 => \E j \in 0..lastcolumn - 1 : col_width[j] > 0
    BY <1>1, TabstopIs
  <2>3. PICK j \in 0..lastcolumn - 1 : col_width[j] > 0
    BY <1>7, <2>1, <2>2
  <2>4. col_width[j] \in S
    OBVIOUS
  <2>5. m >= col_width[j] /\ col_width[j] \in Nat /\ m \in Nat
    BY <1>1, <1>3, <1>4, <1>5, <2>4
  <2>6. m # 0
    BY <2>3, <2>5
  <2>7. PICK i \in 0..lastcolumn - 1 : m = col_width[i]
    BY <1>5, <2>6
  <2>8. QED
    BY <1>2, <1>3, <2>6, <2>7
<1>8. QED
  BY <1>4, <1>5, <1>6, <1>7

LEMMA MeasuredKept ==
  ASSUME Sane, measured
  PROVE  Kept
<1>1. usage \in Helps /\ Placed(usage, part) /\ x \in Int /\ pc = "width row"
  BY DEF Sane, Given, InPlace, Texts, measured
<1>2. UNCHANGED <<input, lines, out>> /\ x' \in Int
  BY <1>1 DEF measured
<1>3. Given' /\ Texts' /\ \A w \in Wrappers : Keeps(w)
  BY <1>2, Quiet
<1>4. /\ usage' = usage /\ wrapper' = wrapper /\ lineWrapper' = lineWrapper
      /\ part' = nextRow(usage, part).it /\ pc' \in {"widths", "layout"}
      /\ col_width' = col_width /\ lastcolumn' = lastcolumn /\ rightwidth' = rightwidth
  BY DEF measured, input, lines
<1>5. InPlace'
  <2>1. Placed(usage, nextRow(usage, part).it)
    BY <1>1, NextRowIs
  <2>2. QED
    BY <1>4, <2>1 DEF InPlace
<1>6. Emptied'
  BY <1>1, <1>4 DEF Sane, Emptied, Between
<1>7. Sizes'
  BY <1>4, ThresholdIs DEF Sane, Sizes
<1>8. Narrowing'
  BY <1>4 DEF Narrowing
<1>9. QED
  BY <1>3, <1>5, <1>6, <1>7, <1>8 DEF Kept, Sane

LEMMA LayoutKept ==
  ASSUME Sane, layout
  PROVE  Kept
<1> DEFINE right == Width - tabstop(lastcolumn)
           new == [w \in Wrappers |->
                       IF w = "last" THEN LineWrapper(Width - rightwidth', Width)
                       ELSE LineWrapper(0, Width)]
<1>1. /\ usage \in Helps /\ part \in Iterator /\ pc = "layout"
      /\ col_width \in [0..maxcolumns - 1 -> Nat] /\ lastcolumn \in 0..maxcolumns - 1
  BY DEF Sane, Given, InPlace, Placed, Sizes, layout
<1>2. Width \in Int /\ last_column_own_line_max_width \in Int
  BY WidthIs DEF Sane
<1>3. tabstop(lastcolumn) \in Nat
  BY <1>1, TabstopIs
<1>4. right \in Int
  BY <1>2, <1>3
<1>5. rightwidth' \in {last_column_own_line_max_width, right}
  BY DEF layout
<1> HIDE DEF right
<1>6. rightwidth' \in Int
  BY <1>2, <1>4, <1>5
<1>7. /\ usage' = usage /\ set' = set /\ pc' = "row" /\ part' = restartTable(usage, part)
      /\ overlong_column_threshold' = overlong_column_threshold /\ col_width' = col_width
      /\ lastcolumn' = lastcolumn /\ lineWrapper' = lineWrapper /\ rest' = rest /\ x' = x
      /\ out' = out /\ wrapper' = new
  BY DEF layout, input
<1>8. \A w \in Wrappers : Buffer(new[w]) /\ new[w].width >= 2 /\ buf_empty(new[w])
  <2> TAKE w \in Wrappers
  <2>1. CASE w = "last"
    <3>1. Width - rightwidth' \in Int
      BY <1>2, <1>6
    <3>2. PICK a \in Int, b \in Int : a = Width - rightwidth' /\ b = Width
      BY <1>2, <3>1
    <3>3. /\ Buffer(LineWrapper(a, b)) /\ LineWrapper(a, b).width >= 2
          /\ buf_empty(LineWrapper(a, b))
      BY NewIs
    <3>4. QED
      BY <2>1, <3>2, <3>3
  <2>2. CASE w # "last"
    <3>1. 0 \in Int
      OBVIOUS
    <3>2. PICK b \in Int : b = Width
      BY <1>2
    <3>3. /\ Buffer(LineWrapper(0, b)) /\ LineWrapper(0, b).width >= 2
          /\ buf_empty(LineWrapper(0, b))
      BY <3>1, NewIs
    <3>4. QED
      BY <2>2, <3>2, <3>3
  <2>3. QED
    BY <2>1, <2>2
<1>9. Buffers(new)
  BY <1>8 DEF Buffers
<1> HIDE DEF new
<1>10. Texts'
  BY <1>7, <1>9 DEF Sane, Texts
<1>11. Emptied'
  BY <1>7, <1>8 DEF Emptied
<1>12. Given'
  BY <1>7 DEF Sane, Given
<1>13. Sizes'
  BY <1>6, <1>7 DEF Sane, Sizes
<1>14. Narrowing'
  BY <1>7 DEF Narrowing
<1>15. InPlace'
  <2>1. Placed(usage, restartTable(usage, part))
    BY <1>1, RestartTableIs
  <2>2. QED
    BY <1>7, <2>1 DEF InPlace
<1>16. \A w \in Wrappers : Keeps(w)
  <2> TAKE w \in Wrappers
  <2>1. Buffer(wrapper[w]) /\ buf_empty(wrapper[w])
    BY <1>1 DEF Sane, Texts, Buffers, Emptied, Between
  <2>2. Waiting(wrapper[w]) = << >>
    BY <2>1, EmptyAndFull
  <2>3. Waiting(new[w]) = << >>
    BY <1>8, EmptyAndFull
  <2>4. Waiting(wrapper'[w]) = Waiting(wrapper[w])
    BY <1>7, <2>2, <2>3
  <2>5. QED
    BY <1>7, <2>4, SameKeeps
<1>17. QED
  BY <1>10, <1>11, <1>12, <1>13, <1>14, <1>15, <1>16 DEF Kept, Sane

-----------------------------------------------------------------------------
(* Within a row the layout stays as it is, and wrappers may wait.          *)
LEMMA InRow ==
  ASSUME Sane, UNCHANGED <<input, layout_vars>>, pc' \notin Between, pc' \notin {"flush", "line"}
  PROVE  Given' /\ Sizes' /\ Narrowing' /\ Emptied'
<1>1. /\ usage' = usage /\ set' = set /\ overlong_column_threshold' = overlong_column_threshold
      /\ col_width' = col_width /\ lastcolumn' = lastcolumn /\ rightwidth' = rightwidth
  BY DEF input, layout_vars
<1>2. Given'
  BY <1>1 DEF Sane, Given
<1>3. Sizes'
  BY <1>1 DEF Sane, Sizes
<1>4. Narrowing'
  BY DEF Narrowing, Between
<1>5. Emptied'
  BY DEF Emptied
<1>6. QED
  BY <1>2, <1>3, <1>4, <1>5

(* What is written around the wrappers.                                    *)
LEMMA Around ==
  ASSUME Sane, wrapper' = wrapper, NEW s \in Text, out' = out \o s
  PROVE  out' \in Text /\ \A w \in Wrappers : Keeps(w)
<1>1. out \in Text
  BY DEF Sane, Texts
<1>2. out' \in Text
  BY <1>1 DEF Text
<1>3. \A w \in Wrappers : Keeps(w)
  BY <1>1, ElsewhereKeeps
<1>4. QED
  BY <1>2, <1>3

LEMMA AtTextIs ==
  ASSUME NEW u \in Helps, NEW it, AtText(u, it)
  PROVE  Placed(u, it) /\ data(u, it) \in Text /\ it.screenlen \in Nat
<1>1. Inside(u, it) /\ it \in Iterator /\ it.ptr + it.len <= Long(u, it) + 1 /\ it.len \in Nat
      /\ it.ptr \in 1..Long(u, it) + 1 /\ it.screenlen \in Nat
  BY DEF AtText, Inside, Iterator
<1>2. Placed(u, it)
  BY <1>1 DEF Placed, Inside
<1>3. data(u, it) \in Text
  BY <1>1, DataIs DEF Text
<1>4. QED
  BY <1>1, <1>2, <1>3

LEMMA SkipKept ==
  ASSUME Sane, drop_column \/ postpone
  PROVE  Kept
<1>1. usage \in Helps /\ AtText(usage, part) /\ x \in Int
  BY DEF Sane, Given, InPlace, Texts, drop_column, postpone
<1>2. UNCHANGED <<input, lines, out>> /\ x' = x /\ UNCHANGED <<input, layout_vars>> /\ pc' = "part"
  BY DEF drop_column, postpone
<1>3. Given' /\ Texts' /\ \A w \in Wrappers : Keeps(w)
  BY <1>1, <1>2, Quiet
<1>4. pc' \notin Between /\ pc' \notin {"flush", "line"}
  BY <1>2 DEF Between
<1>5. Sizes' /\ Narrowing' /\ Emptied'
  BY <1>2, <1>4, InRow
<1>6. part' = part \/ part' = next(usage, part).it
  BY DEF drop_column, postpone
<1>7. AtText(usage, part')
  BY <1>1, <1>6, NextIs
<1>8. Placed(usage, part')
  BY <1>1, <1>7, AtTextIs
<1>9. InPlace'
  <2>1. usage' = usage
    BY <1>2 DEF input
  <2>2. QED
    BY <1>2, <1>7, <1>8, <2>1 DEF InPlace
<1>10. QED
  BY <1>3, <1>5, <1>9 DEF Kept, Sane

LEMMA IndentKept ==
  ASSUME Sane, indent
  PROVE  Kept
<1> DEFINE n == next(usage, part)
           c == column(n.it)
           x0 == IF c = 0 THEN 0 ELSE x
           t == tabstop(c)
           s == (IF c = 0 /\ x >= 0 THEN <<NL>> ELSE << >>)
           s2 == indentation(x0, t)
<1>1. /\ usage \in Helps /\ AtText(usage, part) /\ x \in Int /\ out \in Text
      /\ col_width \in [0..maxcolumns - 1 -> Nat] /\ lastcolumn \in 0..maxcolumns - 1
  BY DEF Sane, Given, InPlace, Texts, Sizes, indent
<1>2. AtText(usage, n.it) /\ n.it.col >= 0
  BY <1>1, NextIs
<1>3. c \in Int /\ c >= 0 /\ c <= lastcolumn
  BY <1>2 DEF AtText, Inside, Iterator, column, indent
<1>4. c \in 0..maxcolumns - 1
  BY <1>1, <1>3, UsageAssumption
<1>5. t \in Int /\ x0 \in Int
  <2>1. t \in Nat
    BY <1>1, <1>4, TabstopIs
  <2>2. QED
    BY <1>1, <2>1
<1>6. x' = indented(x0, t) /\ out' = out \o s \o s2 /\ part' = n.it /\ pc' = "put"
  BY DEF indent
<1>7. UNCHANGED <<input, layout_vars>> /\ wrapper' = wrapper /\ lineWrapper' = lineWrapper /\ rest' = rest
  BY DEF indent, lines
<1>8. s \in Text
  BY DEF Text, NL
<1> HIDE DEF n, c, x0, t
<1>9. s2 \in Text /\ x' \in Int
  BY <1>5, <1>6, IndentationIs DEF Blanks
<1> HIDE DEF s, s2
<1>10. s \o s2 \in Text /\ out' = out \o (s \o s2)
  <2>1. PICK o : o = out
    OBVIOUS
  <2>2. o \in Seq(Nat) /\ s \in Seq(Nat) /\ s2 \in Seq(Nat)
    BY <1>1, <1>8, <1>9, <2>1 DEF Text
  <2>3. (o \o s) \o s2 = o \o (s \o s2)
    BY ONLY <2>2, ConcatAssociative, SMTT(30)
  <2>4. s \o s2 \in Text
    BY <2>2 DEF Text
  <2>5. QED
    BY <1>6, <2>1, <2>3, <2>4
<1>11. out' \in Text /\ \A w \in Wrappers : Keeps(w)
  BY <1>7, <1>10, Around
<1>12. Texts'
  BY <1>7, <1>9, <1>11 DEF Sane, Texts
<1>13. Given' /\ Sizes' /\ Narrowing' /\ Emptied'
  <2>1. pc' \notin Between /\ pc' \notin {"flush", "line"}
    BY <1>6 DEF Between
  <2>2. QED
    BY <1>7, <2>1, InRow
<1>14. InPlace'
  <2>1. usage' = usage
    BY <1>7 DEF input
  <2>2. Placed(usage, n.it)
    BY <1>1, <1>2, AtTextIs
  <2>3. QED
    BY <1>2, <1>6, <2>1, <2>2 DEF InPlace
<1>15. QED
  BY <1>11, <1>12, <1>13, <1>14 DEF Kept, Sane

LEMMA LeftPartKept ==
  ASSUME Sane, left_part
  PROVE  Kept
<1>1. usage \in Helps /\ AtText(usage, part) /\ x \in Int /\ Placed(usage, part)
  BY DEF Sane, Given, InPlace, Texts, left_part
<1>2. data(usage, part) \in Text /\ part.screenlen \in Nat
  BY <1>1, AtTextIs
<1>3. /\ out' = out \o data(usage, part) /\ x' = x + part.screenlen /\ pc' = "part"
      /\ UNCHANGED <<input, layout_vars>> /\ wrapper' = wrapper /\ lineWrapper' = lineWrapper
      /\ rest' = rest /\ part' = part
  BY DEF left_part, lines
<1>4. out' \in Text /\ \A w \in Wrappers : Keeps(w)
  BY <1>2, <1>3, Around
<1>5. x' \in Int
  BY <1>1, <1>2, <1>3
<1>6. Texts'
  BY <1>3, <1>4, <1>5 DEF Sane, Texts
<1>7. Given' /\ Sizes' /\ Narrowing' /\ Emptied'
  <2>1. pc' \notin Between /\ pc' \notin {"flush", "line"}
    BY <1>3 DEF Between
  <2>2. QED
    BY <1>3, <2>1, InRow
<1>8. InPlace'
  <2>1. usage' = usage
    BY <1>3 DEF input
  <2>2. QED
    BY <1>1, <1>3, <2>1 DEF InPlace
<1>9. QED
  BY <1>4, <1>6, <1>7, <1>8 DEF Kept, Sane

(* Where process() begins.                                                 *)
LEMMA BeginIs ==
  ASSUME Sane, NEW l \in Wrappers, NEW text \in Text, begin_process(l, text), NEW s \in Text, out' = out \o s,
         x' = x
  PROVE  Texts' /\ pc' = "wrap" /\ \A w \in Wrappers : Keeps(w)
<1>1. Buffers(wrapper) /\ out \in Text /\ x \in Int
  BY DEF Sane, Texts
<1>2. /\ lineWrapper' = l /\ rest' = text /\ pc' = "wrap"
      /\ wrapper' = [wrapper EXCEPT ![l].wrote_something = FALSE]
  BY DEF begin_process
<1>3. PICK r : r = wrapper
  OBVIOUS
<1> DEFINE q == Noted(r, l)
<1>4. Buffers(q) /\ \A w \in Wrappers : Waiting(q[w]) = Waiting(r[w])
  BY <1>1, <1>3, NotedIs
<1>5. wrapper' = q
  BY <1>2, <1>3 DEF Noted
<1> HIDE DEF q
<1>6. \A w \in Wrappers : Waiting(wrapper'[w]) = Waiting(wrapper[w])
  BY <1>3, <1>4, <1>5
<1>7. \A w \in Wrappers : Keeps(w)
  BY <1>1, <1>6, ElsewhereKeeps
<1>8. out' \in Text
  BY <1>1 DEF Text
<1>9. Texts'
  BY <1>1, <1>2, <1>4, <1>5, <1>8 DEF Texts
<1>10. QED
  BY <1>2, <1>7, <1>9

LEMMA WrappedPartKept ==
  ASSUME Sane, wrapped_part
  PROVE  Kept
<1> DEFINE l == IF column(part) = 0 THEN "interjection" ELSE "last"
<1>1. usage \in Helps /\ AtText(usage, part) /\ Placed(usage, part) /\ out \in Text
  BY DEF Sane, Given, InPlace, Texts, wrapped_part
<1>2. data(usage, part) \in Text /\ << >> \in Text
  BY <1>1, AtTextIs DEF Text
<1>3. /\ begin_process(l, data(usage, part)) /\ out' = out /\ x' = x /\ part' = part
      /\ UNCHANGED <<input, layout_vars>>
  BY DEF wrapped_part
<1>4. l \in Wrappers
  BY DEF Wrappers
<1> HIDE DEF l
<1>5. out' = out \o << >>
  BY <1>1, <1>3 DEF Text
<1>6. Texts' /\ pc' = "wrap" /\ \A w \in Wrappers : Keeps(w)
  BY <1>2, <1>3, <1>4, <1>5, BeginIs
<1>7. Given' /\ Sizes' /\ Narrowing' /\ Emptied'
  <2>1. pc' \notin Between /\ pc' \notin {"flush", "line"}
    BY <1>6 DEF Between
  <2>2. QED
    BY <1>3, <2>1, InRow
<1>8. InPlace'
  <2>1. usage' = usage
    BY <1>3 DEF input
  <2>2. QED
    BY <1>1, <1>3, <1>6, <2>1 DEF InPlace
<1>9. QED
  BY <1>6, <1>7, <1>8 DEF Kept, Sane

LEMMA OwnLineKept ==
  ASSUME Sane, own_line
  PROVE  Kept
<1> DEFINE n == next(usage, part)
           s == <<NL>> \o indentation(0, Width - rightwidth)
<1>1. usage \in Helps /\ AtText(usage, part) /\ x \in Int /\ pc = "own"
  BY DEF Sane, Given, InPlace, Texts, own_line
<1>2. AtText(usage, n.it)
  BY <1>1, NextIs
<1>3. Placed(usage, n.it) /\ data(usage, n.it) \in Text
  BY <1>1, <1>2, AtTextIs
<1>4. /\ part' = n.it /\ x' = x /\ UNCHANGED <<input, layout_vars>>
      /\ \/ /\ out' = out \o <<NL>> \o indentation(0, Width - rightwidth)
            /\ begin_process("last", data(usage, n.it))
         \/ UNCHANGED <<pc, lines, out>>
  BY DEF own_line
<1> HIDE DEF n
<1>5. Texts' /\ pc' \in {"wrap", "own"} /\ \A w \in Wrappers : Keeps(w)
  <2>1. CASE UNCHANGED <<pc, lines, out>>
    <3>1. UNCHANGED <<input, lines, out>> /\ x' \in Int /\ pc' = "own"
      BY <1>1, <1>4, <2>1
    <3>2. QED
      BY <3>1, Quiet
  <2>2. CASE /\ out' = out \o <<NL>> \o indentation(0, Width - rightwidth)
             /\ begin_process("last", data(usage, n.it))
    <3>1. PICK a \in Int : a = Width - rightwidth
      <4>1. Width \in Int /\ rightwidth \in Int
        BY WidthIs DEF Sane, Sizes
      <4>2. Width - rightwidth \in Int
        BY <4>1
      <4>3. QED
        BY <4>2
    <3>2. 0 \in Int
      OBVIOUS
    <3>3. Blanks(indentation(0, a)) /\ Blanks(<<NL>>)
      BY <3>2, IndentationIs, NewLineIs
    <3>4. Blanks(<<NL>> \o indentation(0, a))
      BY <3>3, BlanksJoined
    <3>5. PICK o : o = out
      OBVIOUS
    <3>6. o \in Seq(Nat) /\ <<NL>> \in Seq(Nat) /\ indentation(0, a) \in Seq(Nat)
      BY <3>3, <3>5 DEF Sane, Texts, Text, Blanks
    <3>7. (o \o <<NL>>) \o indentation(0, a) = o \o (<<NL>> \o indentation(0, a))
      BY <3>6, ConcatAssociative
    <3>8. s \in Text /\ out' = out \o s
      BY <2>2, <3>1, <3>4, <3>5, <3>7 DEF Blanks
    <3> HIDE DEF s
    <3>9. "last" \in Wrappers
      BY DEF Wrappers
    <3>10. Texts' /\ pc' = "wrap" /\ \A w \in Wrappers : Keeps(w)
      BY <1>3, <1>4, <2>2, <3>8, <3>9, BeginIs
    <3>11. QED
      BY <3>10
  <2>3. QED
    BY <1>4, <2>1, <2>2
<1>6. Given' /\ Sizes' /\ Narrowing' /\ Emptied'
  <2>1. pc' \notin Between /\ pc' \notin {"flush", "line"}
    BY <1>5 DEF Between
  <2>2. QED
    BY <1>4, <2>1, InRow
<1>7. InPlace'
  <2>1. usage' = usage
    BY <1>4 DEF input
  <2>2. QED
    BY <1>2, <1>3, <1>4, <1>5, <2>1 DEF InPlace
<1>8. QED
  BY <1>5, <1>6, <1>7 DEF Kept, Sane

(* Where the parts of a row end.                                           *)
LEMMA EndRowKept ==
  ASSUME Sane, last_part \/ last_own_line
  PROVE  Kept
<1> DEFINE n == next(usage, part)
<1>1. usage \in Helps /\ AtText(usage, part) /\ out \in Text
  BY DEF Sane, Given, InPlace, Texts, last_part, last_own_line
<1>2. AtText(usage, n.it)
  BY <1>1, NextIs
<1>3. Placed(usage, n.it) /\ n.it \in Iterator
  BY <1>1, <1>2, AtTextIs DEF Placed
<1>4. /\ UNCHANGED <<input, layout_vars>> /\ wrapper' = wrapper /\ rest' = rest /\ x' = x
      /\ lineWrapper' = "last"
      /\ \/ pc' = "own" /\ part' = restartRow(n.it) /\ out' = out
         \/ pc' = "flush" /\ part' = n.it /\ out' = Append(out, NL)
  BY DEF last_part, last_own_line
<1> HIDE DEF n
<1>5. Placed(usage, restartRow(n.it)) /\ AtText(usage, restartRow(n.it))
  <2>1. n.it.rowstart \in 1..Long(usage, n.it) + 1 /\ n.it.rowstart # 0
    BY <1>2 DEF AtText, Inside
  <2>2. n.it.rowstart <= Long(usage, n.it) + 1
    BY <1>3 DEF Placed
  <2>3. QED
    BY <1>1, <1>3, <2>1, <2>2, RestartRowIs
<1>6. usage' = usage /\ pc' \in {"own", "flush"}
  BY <1>4 DEF input
<1>7. InPlace'
  BY <1>2, <1>3, <1>4, <1>5, <1>6 DEF InPlace
<1>8. \E s \in Text : out' = out \o s
  <2>1. << >> \in Text /\ <<NL>> \in Text
    BY DEF Text, NL
  <2>2. out \o << >> = out /\ out \o <<NL>> = Append(out, NL)
    BY <1>1, NewLineIs DEF Text, NL
  <2>3. QED
    BY <1>4, <2>1, <2>2
<1>9. out' \in Text /\ \A w \in Wrappers : Keeps(w)
  BY <1>4, <1>8, Around
<1>10. Texts'
  BY <1>4, <1>9 DEF Sane, Texts, Wrappers
<1>11. Given' /\ Sizes' /\ Narrowing'
  BY <1>4, <1>6 DEF Sane, Given, Sizes, Narrowing, input, layout_vars
<1>12. Emptied'
  BY <1>4, <1>6 DEF Emptied, Between
<1>13. QED
  BY <1>7, <1>9, <1>10, <1>11, <1>12 DEF Kept, Sane

(* Where nothing of the wrapper in use waits, flush() ends.                *)
LEMMA FlushedKept ==
  ASSUME Sane, nothing_to_flush \/ end_flush
  PROVE  Kept
<1>1. /\ UNCHANGED <<input, layout_vars>> /\ wrapper' = wrapper /\ rest' = rest /\ x' = x
      /\ part' = part /\ buf_empty(W) /\ pc \in {"flush", "line"}
      /\ pc' = (IF lineWrapper = "last" THEN "flush" ELSE "row")
      /\ lineWrapper' = "interjection"
      /\ out' = out \/ out' = Append(out, NL)
  BY DEF nothing_to_flush, end_flush, flushed
<1>2. usage' = usage /\ out \in Text /\ lineWrapper \in Wrappers
  BY <1>1 DEF Sane, Texts, input
<1>3. InPlace'
  BY <1>1, <1>2 DEF Sane, InPlace
<1>4. \E s \in Text : out' = out \o s
  <2>1. << >> \in Text /\ <<NL>> \in Text
    BY DEF Text, NL
  <2>2. out \o << >> = out /\ out \o <<NL>> = Append(out, NL)
    BY <1>2, NewLineIs DEF Text, NL
  <2>3. QED
    BY <1>1, <2>1, <2>2
<1>5. out' \in Text /\ \A w \in Wrappers : Keeps(w)
  BY <1>1, <1>4, Around
<1>6. Texts'
  BY <1>1, <1>5 DEF Sane, Texts, Wrappers
<1>7. Given' /\ Sizes' /\ Narrowing'
  BY <1>1 DEF Sane, Given, Sizes, Narrowing, input, layout_vars
<1>8. Emptied'
  <2>1. CASE lineWrapper = "last"
    BY <1>1, <2>1 DEF Emptied, Between, W
  <2>2. CASE lineWrapper = "interjection"
    <3>1. buf_empty(wrapper["last"]) /\ buf_empty(wrapper["interjection"])
      BY <1>1, <2>2 DEF Sane, Emptied, W
    <3>2. \A w \in Wrappers : buf_empty(wrapper'[w])
      BY <1>1, <3>1 DEF Wrappers
    <3>3. pc' = "row"
      BY <1>1, <2>2
    <3>4. QED
      BY <3>2, <3>3 DEF Emptied
  <2>3. QED
    BY <1>2, <2>1, <2>2 DEF Wrappers
<1>9. QED
  BY <1>3, <1>5, <1>6, <1>7, <1>8 DEF Kept, Sane

(* The wrapper in use becomes v, and what it gives is written.             *)
LEMMA InUse ==
  ASSUME Sane, NEW v, Buffer(v), v.width >= 2, wrapper' = [wrapper EXCEPT ![lineWrapper] = v]
  PROVE  /\ Buffers(wrapper') /\ wrapper'[lineWrapper] = v
         /\ \A w \in Wrappers : w # lineWrapper => wrapper'[w] = wrapper[w]
<1>1. PICK r, l : r = wrapper /\ l = lineWrapper
  OBVIOUS
<1>2. Buffers(r) /\ l \in Wrappers
  BY <1>1 DEF Sane, Texts
<1> DEFINE q == [r EXCEPT ![l] = v]
<1>3. Buffers(q) /\ q[l] = v /\ \A w \in Wrappers : w # l => q[w] = r[w]
  BY <1>2, SetIs
<1>4. wrapper' = q
  BY <1>1
<1> HIDE DEF q
<1>5. QED
  BY <1>1, <1>3, <1>4

LEMMA WIs ==
  ASSUME Sane
  PROVE  Buffer(W) /\ W.width >= 2 /\ W = wrapper[lineWrapper] /\ lineWrapper \in Wrappers
BY DEF Sane, Texts, Buffers, W

LEMMA WrapKept ==
  ASSUME Sane, wrap
  PROVE  Kept
<1> DEFINE s == Split(rest, W.width)
           v == buf_store(IF buf_full(W) THEN line_written(W) ELSE W, s.line)
<1>1. /\ usage \in Helps /\ AtText(usage, part) /\ Placed(usage, part) /\ x \in Int /\ pc = "wrap"
      /\ rest \in Text /\ out \in Text
  BY DEF Sane, Given, InPlace, Texts, wrap
<1>2. PICK m : m = W
  OBVIOUS
<1>3. Buffer(m) /\ m.width >= 2 /\ m = wrapper[lineWrapper] /\ lineWrapper \in Wrappers
  BY <1>2, WIs
<1>4. s.line \in Text /\ s.rest \in Text
  <2>1. m.width \in Int /\ m.width >= 0
    BY <1>3 DEF Buffer
  <2>2. PICK t \in Text : t = rest
    BY <1>1
  <2>3. Split(t, m.width).line \in Text /\ Split(t, m.width).rest \in Text
    BY <2>1, SplitIs
  <2>4. QED
    BY <1>2, <2>2, <2>3
<1>5. /\ UNCHANGED <<input, layout_vars>> /\ part' = part /\ x' = x /\ lineWrapper' = lineWrapper
      /\ rest' = s.rest /\ pc' = pc
      /\ out' = (IF buf_full(W) THEN out \o one_line(W) ELSE out)
      /\ wrapper' = [wrapper EXCEPT ![lineWrapper] = v]
  BY DEF wrap
<1>6. PICK d \in Text : d = s.line
  BY <1>4
<1>7. v = buf_store(IF buf_full(m) THEN line_written(m) ELSE m, d)
  BY <1>2, <1>6
<1> HIDE DEF s, v
<1>8. /\ Buffer(v) /\ v.width = m.width
      /\ Waiting(m) \in Seq(Text)
      /\ ~ buf_full(m) => Len(Waiting(m)) < bufmask /\ Waiting(v) = Append(Waiting(m), d)
      /\ buf_full(m) => /\ Len(Waiting(m)) = bufmask /\ Waiting(m) # << >>
                        /\ Head(Waiting(m)) \in Text /\ one_line(m) \in Text
                        /\ one_line(m) = line_break(m) \o Head(Waiting(m))
                        /\ Waiting(v) = Append(Tail(Waiting(m)), d)
  BY <1>3, <1>7, StoredIs
<1>9. /\ Buffers(wrapper') /\ wrapper'[lineWrapper] = v
      /\ \A w \in Wrappers : w # lineWrapper => wrapper'[w] = wrapper[w]
  BY <1>3, <1>5, <1>8, InUse
<1>10. ASSUME NEW w \in Wrappers
       PROVE  Keeps(w) /\ out' \in Text
  <2>1. CASE ~ buf_full(m)
    <3>1. out' = out
      BY <1>2, <1>5, <2>1
    <3>2. CASE w = lineWrapper
      <4>1. /\ Waiting(wrapper[w]) \in Seq(Text) /\ Len(Waiting(wrapper[w])) < bufmask
            /\ Waiting(wrapper'[w]) = Append(Waiting(wrapper[w]), d)
        BY <1>3, <1>8, <1>9, <2>1, <3>2
      <4>2. QED
        BY <1>1, <3>1, <4>1, PutKeeps
    <3>3. CASE w # lineWrapper
      BY <1>1, <1>9, <3>1, <3>3, SameKeeps
    <3>4. QED
      BY <3>2, <3>3
  <2>2. CASE buf_full(m)
    <3>1. out' = out \o one_line(m) /\ one_line(m) \in Text
      BY <1>2, <1>5, <1>8, <2>2
    <3>2. out' \in Text
      BY <1>1, <3>1 DEF Text
    <3>3. CASE w = lineWrapper
      <4>1. Blanks(line_break(m))
        BY <1>3, BreakIs
      <4>2. /\ Waiting(wrapper[w]) \in Seq(Text) /\ Len(Waiting(wrapper[w])) = bufmask
            /\ Waiting(wrapper[w]) # << >> /\ Head(Waiting(wrapper[w])) \in Text
            /\ out' = out \o (line_break(m) \o Head(Waiting(wrapper[w])))
            /\ Waiting(wrapper'[w]) = Append(Tail(Waiting(wrapper[w])), d)
        BY <1>3, <1>8, <1>9, <2>2, <3>1, <3>3
      <4>3. Keeps(w)
        BY <1>1, <4>1, <4>2, PutFullKeeps
      <4>4. QED
        BY <3>2, <4>3
    <3>4. CASE w # lineWrapper
      <4>1. Waiting(wrapper'[w]) = Waiting(wrapper[w])
        BY <1>9, <3>4
      <4>2. QED
        BY <1>1, <3>1, <3>2, <4>1, ElsewhereKeeps
    <3>5. QED
      BY <3>3, <3>4
  <2>3. QED
    BY <2>1, <2>2
<1>11. Texts'
  BY <1>1, <1>3, <1>4, <1>5, <1>9, <1>10 DEF Texts
<1>12. Given' /\ Sizes' /\ Narrowing' /\ Emptied'
  <2>1. pc' \notin Between /\ pc' \notin {"flush", "line"}
    BY <1>1, <1>5 DEF Between
  <2>2. QED
    BY <1>5, <2>1, InRow
<1>13. InPlace'
  <2>1. usage' = usage
    BY <1>5 DEF input
  <2>2. QED
    BY <1>1, <1>5, <2>1 DEF InPlace
<1>14. QED
  BY <1>10, <1>11, <1>12, <1>13 DEF Kept, Sane

(* A line of the wrapper in use is written, if there is one.               *)
LEMMA WroteLine ==
  ASSUME Sane, out' = out \o one_line(W), ~ buf_empty(W) \/ W.wrote_something = FALSE,
         wrapper' = [wrapper EXCEPT ![lineWrapper] = line_written(W)]
  PROVE  /\ Buffers(wrapper') /\ out' \in Text
         /\ \A w \in Wrappers : w # lineWrapper => wrapper'[w] = wrapper[w]
         /\ \A w \in Wrappers : Keeps(w)
<1>1. PICK m : m = W
  OBVIOUS
<1> DEFINE v == line_written(m)
<1>2. Buffer(m) /\ m.width >= 2 /\ m = wrapper[lineWrapper] /\ lineWrapper \in Wrappers
  BY <1>1, WIs
<1>3. /\ Buffer(v) /\ v.width = m.width /\ one_line(m) \in Text
      /\ buf_empty(m) => /\ one_line(m) = line_break(m) \o << >> /\ Waiting(v) = Waiting(m)
                         /\ buf_empty(v)
      /\ ~ buf_empty(m) => /\ one_line(m) = line_break(m) \o Head(Waiting(m))
                           /\ Head(Waiting(m)) \in Text
                           /\ Waiting(m) # << >> /\ Waiting(v) = Tail(Waiting(m))
                           /\ ~ buf_full(v)
  BY <1>2, OneLineIs
<1>4. wrapper' = [wrapper EXCEPT ![lineWrapper] = v] /\ out' = out \o one_line(m)
  BY <1>1
<1> HIDE DEF v
<1>5. /\ Buffers(wrapper') /\ wrapper'[lineWrapper] = v
      /\ \A w \in Wrappers : w # lineWrapper => wrapper'[w] = wrapper[w]
  BY <1>2, <1>3, <1>4, InUse
<1>6. out \in Text
  BY DEF Sane, Texts
<1>7. out' \in Text
  BY <1>3, <1>4, <1>6 DEF Text
<1>8. ASSUME NEW w \in Wrappers
      PROVE  Keeps(w)
  <2>1. CASE w # lineWrapper \/ buf_empty(m)
    <3>1. Waiting(wrapper'[w]) = Waiting(wrapper[w])
      BY <1>2, <1>3, <1>5, <2>1
    <3>2. QED
      BY <1>3, <1>4, <1>6, <3>1, ElsewhereKeeps
  <2>2. CASE w = lineWrapper /\ ~ buf_empty(m)
    <3>1. /\ Waiting(wrapper[w]) # << >> /\ Head(Waiting(wrapper[w])) \in Text
          /\ out' = out \o (line_break(m) \o Head(Waiting(wrapper[w])))
          /\ Waiting(wrapper'[w]) = Tail(Waiting(wrapper[w]))
      BY <1>2, <1>3, <1>4, <1>5, <2>2
    <3>2. Blanks(line_break(m))
      BY <1>2, BreakIs
    <3>3. QED
      BY <1>6, <3>1, <3>2, TakeKeeps
  <2>3. QED
    BY <2>1, <2>2
<1>9. QED
  BY <1>5, <1>7, <1>8

LEMMA EndProcessKept ==
  ASSUME Sane, end_process
  PROVE  Kept
<1>1. /\ usage \in Helps /\ AtText(usage, part) /\ Placed(usage, part) /\ x \in Int
      /\ Buffers(wrapper) /\ out \in Text
  BY DEF Sane, Given, InPlace, Texts, end_process
<1>2. /\ UNCHANGED <<input, layout_vars>> /\ part' = part /\ x' = x /\ lineWrapper' = lineWrapper
      /\ rest' = rest /\ pc' \in {"own", "part"}
  BY DEF end_process
<1>3. /\ Buffers(wrapper') /\ out' \in Text
      /\ \A w \in Wrappers : Keeps(w)
  <2>1. CASE W.wrote_something
    <3>1. Buffer(W) /\ W = wrapper[lineWrapper]
      BY WIs
    <3>2. wrapper' = [wrapper EXCEPT ![lineWrapper] = W] /\ out' = out
      BY <2>1 DEF end_process
    <3>3. /\ Buffers(wrapper') /\ wrapper'[lineWrapper] = W
          /\ \A w \in Wrappers : w # lineWrapper => wrapper'[w] = wrapper[w]
      <4>1. W.width >= 2
        BY WIs
      <4>2. QED
        BY <3>1, <3>2, <4>1, InUse
    <3>4. \A w \in Wrappers : wrapper'[w] = wrapper[w]
      BY <3>1, <3>3
    <3>5. \A w \in Wrappers : Keeps(w)
      BY <3>2, <3>4, SameKeeps
    <3>6. QED
      BY <1>1, <3>2, <3>3, <3>5
  <2>2. CASE ~ W.wrote_something
    <3>1. out' = out \o one_line(W) /\ wrapper' = [wrapper EXCEPT ![lineWrapper] = line_written(W)]
      BY <2>2 DEF end_process
    <3>2. W.wrote_something = FALSE
      BY <2>2, WIs DEF Buffer
    <3>3. QED
      BY <3>1, <3>2, WroteLine
  <2>3. QED
    BY <2>1, <2>2
<1>4. Texts'
  BY <1>1, <1>2, <1>3 DEF Sane, Texts
<1>5. Given' /\ Sizes' /\ Narrowing' /\ Emptied'
  <2>1. pc' \notin Between /\ pc' \notin {"flush", "line"}
    BY <1>2 DEF Between
  <2>2. QED
    BY <1>2, <2>1, InRow
<1>6. InPlace'
  <2>1. usage' = usage
    BY <1>2 DEF input
  <2>2. QED
    BY <1>1, <1>2, <2>1 DEF InPlace
<1>7. QED
  BY <1>3, <1>4, <1>5, <1>6 DEF Kept, Sane

LEMMA FlushKept ==
  ASSUME Sane, flush \/ flush_line
  PROVE  Kept
<1>1. /\ Placed(usage, part) /\ x \in Int /\ Buffers(wrapper) /\ out \in Text
  BY DEF Sane, Given, InPlace, Texts
<1>2. /\ UNCHANGED <<input, layout_vars>> /\ part' = part /\ x' = x /\ lineWrapper' = lineWrapper
      /\ rest' = rest /\ pc' = "line" /\ pc \in {"flush", "line"} /\ ~ buf_empty(W)
  BY DEF flush, flush_line
<1>3. /\ Buffers(wrapper') /\ out' \in Text
      /\ \A w \in Wrappers : w # lineWrapper => wrapper'[w] = wrapper[w]
      /\ \A w \in Wrappers : Keeps(w)
  <2>1. CASE flush
    <3>1. /\ out' = out \o indentation(0, W.x)
          /\ wrapper' = [wrapper EXCEPT ![lineWrapper].wrote_something = FALSE]
      BY <2>1 DEF flush
    <3>2. PICK r, l : r = wrapper /\ l = lineWrapper
      OBVIOUS
    <3>3. Buffers(r) /\ l \in Wrappers
      BY <1>1, <3>2, WIs
    <3>4. /\ Buffers(Noted(r, l)) /\ \A w \in Wrappers : w # l => Noted(r, l)[w] = r[w]
          /\ \A w \in Wrappers : Waiting(Noted(r, l)[w]) = Waiting(r[w])
      BY <3>3, NotedIs
    <3>5. wrapper' = Noted(r, l)
      BY <3>1, <3>2 DEF Noted
    <3>6. /\ Buffers(wrapper') /\ \A w \in Wrappers : w # lineWrapper => wrapper'[w] = wrapper[w]
          /\ \A w \in Wrappers : Waiting(wrapper'[w]) = Waiting(wrapper[w])
      BY <3>2, <3>4, <3>5
    <3>7. PICK a \in Int : a = W.x
      BY WIs DEF Buffer
    <3>8. 0 \in Int
      OBVIOUS
    <3>9. indentation(0, a) \in Text
      BY <3>8, IndentationIs DEF Blanks
    <3>10. out' = out \o indentation(0, a)
      BY <3>1, <3>7
    <3>11. out' \in Text
      BY <1>1, <3>9, <3>10 DEF Text
    <3>12. \A w \in Wrappers : Keeps(w)
      BY <1>1, <3>6, <3>9, <3>10, ElsewhereKeeps
    <3>13. QED
      BY <3>6, <3>11, <3>12
  <2>2. CASE flush_line
    <3>1. /\ out' = out \o one_line(W) /\ wrapper' = [wrapper EXCEPT ![lineWrapper] = line_written(W)]
          /\ ~ buf_empty(W)
      BY <2>2 DEF flush_line
    <3>2. QED
      BY <3>1, WroteLine
  <2>3. QED
    BY <2>1, <2>2
<1>4. Texts'
  BY <1>1, <1>2, <1>3 DEF Sane, Texts
<1>5. InPlace'
  <2>1. usage' = usage
    BY <1>2 DEF input
  <2>2. QED
    BY <1>1, <1>2, <2>1 DEF InPlace
<1>6. Given' /\ Sizes' /\ Narrowing'
  BY <1>2 DEF Sane, Given, Sizes, Narrowing, input, layout_vars
<1>7. Emptied'
  <2>1. pc' \notin Between
    BY <1>2 DEF Between
  <2>2. ASSUME lineWrapper = "interjection" PROVE buf_empty(wrapper'["last"])
    <3>1. buf_empty(wrapper["last"])
      BY <1>2, <2>2 DEF Sane, Emptied
    <3>2. wrapper'["last"] = wrapper["last"]
      BY <1>3, <2>2 DEF Wrappers
    <3>3. QED
      BY <3>1, <3>2
  <2>3. QED
    BY <1>2, <2>1, <2>2 DEF Emptied
<1>8. QED
  BY <1>3, <1>4, <1>5, <1>6, <1>7 DEF Kept, Sane

LEMMA StutterKept ==
  ASSUME Sane, UNCHANGED vars
  PROVE  Kept
<1>1. /\ UNCHANGED <<input, lines, out>> /\ x' = x /\ layout_vars' = layout_vars /\ pc' = pc
      /\ part' = part
  BY DEF vars
<1>2. x' \in Int
  BY <1>1 DEF Sane, Texts
<1>3. Given' /\ Texts' /\ \A w \in Wrappers : Keeps(w)
  BY <1>1, <1>2, Quiet
<1>4. InPlace'
  BY <1>1 DEF Sane, InPlace, input
<1>5. Sizes' /\ Narrowing'
  BY <1>1 DEF Sane, Sizes, Narrowing, layout_vars
<1>6. Emptied'
  BY <1>1 DEF Sane, Emptied, lines
<1>7. QED
  BY <1>3, <1>4, <1>5, <1>6 DEF Kept, Sane

LEMMA SaneNext == Sane /\ [Next]_vars => Kept
<1> SUFFICES ASSUME Sane, [Next]_vars PROVE Kept
  OBVIOUS
<1>1. CASE next_table \/ restart \/ measure_row \/ next_row
  BY <1>1, TableKept
<1>2. CASE measure
  BY <1>2, MeasureKept
<1>3. CASE measured
  BY <1>3, MeasuredKept
<1>4. CASE layout
  BY <1>4, LayoutKept
<1>5. CASE drop_column \/ postpone
  BY <1>5, SkipKept
<1>6. CASE indent
  BY <1>6, IndentKept
<1>7. CASE left_part
  BY <1>7, LeftPartKept
<1>8. CASE wrapped_part
  BY <1>8, WrappedPartKept
<1>9. CASE last_part \/ last_own_line
  BY <1>9, EndRowKept
<1>10. CASE wrap
  BY <1>10, WrapKept
<1>11. CASE end_process
  BY <1>11, EndProcessKept
<1>12. CASE own_line
  BY <1>12, OwnLineKept
<1>13. CASE nothing_to_flush \/ end_flush
  BY <1>13, FlushedKept
<1>14. CASE flush \/ flush_line
  BY <1>14, FlushKept
<1>15. CASE printed \/ UNCHANGED vars
  <2>1. UNCHANGED vars
    BY <1>15 DEF printed
  <2>2. QED
    BY <2>1, StutterKept
<1>16. QED
  BY <1>1, <1>2, <1>3, <1>4, <1>5, <1>6, <1>7, <1>8, <1>9, <1>10, <1>11, <1>12, <1>13, <1>14,
     <1>15 DEF Next

-----------------------------------------------------------------------------
(* The printer never looks at a text outside of a help text, a column      *)
(* outside of its table or a slot outside of a buffer.                     *)
THEOREM PrinterSane == Spec => []Sane
<1>1. Init => Sane
  BY SaneInit
<1>2. Sane /\ [Next]_vars => Sane'
  BY SaneNext DEF Kept
<1>3. QED
  BY <1>1, <1>2, PTL DEF Spec

(* Each of the two LineWrappers is a queue for what is written around it.  *)
THEOREM QueuesKept == Spec => KeepsQueues
<1>1. Init => \A w \in Wrappers : Queue(w)!Init
  BY SaneInit
<1>2. Sane /\ [Next]_vars => [\A w \in Wrappers : [Queue(w)!Next]_(Queue(w)!vars)]_vars
  BY SaneNext DEF Kept, Keeps
<1>3. QED
  BY <1>1, <1>2, PrinterSane, PTL DEF Spec, KeepsQueues

(* The search for column widths comes to an end, since the threshold gets  *)
(* smaller with each turn.                                                 *)
THEOREM SearchNarrows == Spec => Narrows
<1>1. Sane /\ [Next]_vars =>
          [pc = "width row" /\ pc' = "widths"
               => overlong_column_threshold' < overlong_column_threshold]_vars
  <2> SUFFICES ASSUME Sane, [Next]_vars, pc = "width row", pc' = "widths"
               PROVE  overlong_column_threshold' < overlong_column_threshold
    OBVIOUS
  <2>1. ~ (next_table \/ restart \/ measure \/ layout \/ next_row)
    <3>1. ASSUME next_table PROVE pc = "table"
      BY <3>1 DEF next_table
    <3>2. restart => pc = "widths"
      BY DEF restart
    <3>3. measure => pc = "width part"
      BY DEF measure
    <3>4. layout => pc = "layout"
      BY DEF layout
    <3>5. next_row => pc = "row"
      BY DEF next_row
    <3>6. pc # "table" /\ pc # "widths" /\ pc # "width part" /\ pc # "layout" /\ pc # "row"
      OBVIOUS
    <3>7. QED
      BY ONLY <3>1, <3>2, <3>3, <3>4, <3>5, <3>6
  <2>2. ~ (drop_column \/ indent \/ left_part \/ postpone \/ wrapped_part \/ last_part)
    BY DEF drop_column, indent, left_part, postpone, wrapped_part, last_part
  <2>3. ~ (wrap \/ end_process \/ own_line \/ last_own_line)
    BY DEF wrap, end_process, own_line, last_own_line
  <2>4. ~ (nothing_to_flush \/ flush \/ flush_line \/ end_flush \/ printed)
    BY DEF nothing_to_flush, flush, flush_line, end_flush, printed
  <2>5. ~ measure_row
    BY DEF measure_row
  <2>6. ~ UNCHANGED vars
    BY DEF vars
  <2>7. measured
    BY <2>1, <2>2, <2>3, <2>4, <2>5, <2>6 DEF Next
  <2>8. QED
    BY <2>7, ThresholdIs
<1>2. QED
  BY <1>1, PrinterSane, PTL DEF Spec, Narrows

-----------------------------------------------------------------------------
(***************************************************************************)
(* Where the screen's cursor stands behind a text.                         *)
(***************************************************************************)

(* A text is as wide as its parts.                                         *)
WideIn(s) == {i \in 1..Len(s) : isWideChar(s[i])}

LEMMA WideInIs ==
  ASSUME NEW s \in Text
  PROVE  /\ Len(s) \in Nat /\ IsFiniteSet(WideIn(s)) /\ Cardinality(WideIn(s)) \in Nat
         /\ Columns(s) = Len(s) + Cardinality(WideIn(s)) /\ Columns(s) \in Nat
<1>1. DOMAIN s = 1..Len(s) /\ Len(s) \in Nat
  BY LenProperties DEF Text
<1>2. IsFiniteSet(1..Len(s))
  BY <1>1, FS_Interval
<1>3. WideIn(s) \subseteq 1..Len(s)
  BY DEF WideIn
<1>4. IsFiniteSet(WideIn(s))
  BY <1>2, <1>3, FS_Subset
<1>5. Cardinality(WideIn(s)) \in Nat
  BY <1>4, FS_CardinalityType
<1>6. Columns(s) = Len(s) + Cardinality(WideIn(s))
  BY <1>1 DEF Columns, WideIn
<1>7. QED
  BY <1>1, <1>4, <1>5, <1>6

(* Texts joined.                                                           *)
LEMMA Joined ==
  ASSUME NEW a \in Text, NEW b \in Text
  PROVE  /\ a \o b \in Text /\ Len(a \o b) = Len(a) + Len(b) /\ Len(a) \in Nat /\ Len(b) \in Nat
         /\ \A i \in 1..Len(a) + Len(b) : (a \o b)[i] = IF i <= Len(a) THEN a[i] ELSE b[i - Len(a)]
BY ConcatProperties, WideInIs DEF Text

LEMMA Regrouped ==
  ASSUME NEW a \in Text, NEW b \in Text, NEW c \in Text
  PROVE  (a \o b) \o c = a \o (b \o c)
<1>1. a \in Seq(Nat) /\ b \in Seq(Nat) /\ c \in Seq(Nat)
  BY DEF Text
<1>2. QED
  BY ONLY <1>1, ConcatAssociative, SMTT(30)

LEMMA ColumnsJoined ==
  ASSUME NEW a \in Text, NEW b \in Text
  PROVE  a \o b \in Text /\ Columns(a \o b) = Columns(a) + Columns(b)
<1> DEFINE m == Len(a)
           n == Len(b)
           B == {i \in m + 1..m + n : isWideChar(b[i - m])}
<1>1. /\ m \in Nat /\ n \in Nat /\ a \o b \in Text /\ Len(a \o b) = m + n
      /\ \A i \in 1..m + n : (a \o b)[i] = IF i <= m THEN a[i] ELSE b[i - m]
  BY ConcatProperties, WideInIs DEF Text
<1>2. WideIn(a \o b) = WideIn(a) \cup B /\ WideIn(a) \cap B = {}
  <2>1. \A i : i \in WideIn(a \o b) <=> i \in WideIn(a) \/ i \in B
    BY <1>1 DEF WideIn
  <2>2. \A i : ~ (i \in WideIn(a) /\ i \in B)
    BY <1>1 DEF WideIn
  <2>3. QED
    BY <2>1, <2>2
<1>3. ExistsBijection(WideIn(b), B)
  <2> DEFINE f == [i \in WideIn(b) |-> i + m]
  <2>1. f \in [WideIn(b) -> B]
    <3>1. \A i \in WideIn(b) : i + m \in B
      BY <1>1 DEF WideIn
    <3>2. QED
      BY <3>1
  <2>2. \A i, j \in WideIn(b) : f[i] = f[j] => i = j
    BY <1>1 DEF WideIn
  <2>3. \A t \in B : \E i \in WideIn(b) : f[i] = t
    <3> TAKE t \in B
    <3>1. t - m \in WideIn(b) /\ (t - m) + m = t
      BY <1>1 DEF WideIn
    <3>2. QED
      BY <3>1
  <2> HIDE DEF f, B
  <2>4. f \in Bijection(WideIn(b), B)
    BY <2>1, <2>2, <2>3 DEF Bijection, Injection, Surjection, IsInjective
  <2>5. QED
    BY <2>4 DEF ExistsBijection
<1> HIDE DEF B, m, n
<1>4. IsFiniteSet(B) /\ Cardinality(B) = Cardinality(WideIn(b))
  BY <1>3, WideInIs, FS_Bijection
<1>5. Cardinality(WideIn(a) \cup B) = Cardinality(WideIn(a)) + Cardinality(B) - Cardinality({})
  BY <1>2, <1>4, WideInIs, FS_Union
<1>6. Cardinality({}) = 0
  BY FS_EmptySet
<1>7. Columns(a \o b) = m + n + Cardinality(WideIn(a \o b))
  BY <1>1, WideInIs
<1>8. /\ Columns(a) = m + Cardinality(WideIn(a)) /\ Columns(b) = n + Cardinality(WideIn(b))
      /\ Cardinality(WideIn(a)) \in Nat /\ Cardinality(WideIn(b)) \in Nat
  BY WideInIs DEF m, n
<1>9. QED
  BY <1>1, <1>2, <1>4, <1>5, <1>6, <1>7, <1>8

LEMMA SpacesWide ==
  ASSUME NEW n \in Nat
  PROVE  Spaces(n) \in Text /\ Columns(Spaces(n)) = n /\ \A i \in 1..n : Spaces(n)[i] # NL
<1>1. Spaces(n) \in Text /\ Len(Spaces(n)) = n
  BY SpacesAre DEF Blanks
<1>2. \A i \in 1..n : Spaces(n)[i] = SPACE
  BY DEF Spaces
<1>3. ~ isWideChar(SPACE) /\ SPACE # NL
  BY DEF isWideChar, SPACE, NL
<1>4. WideIn(Spaces(n)) = {}
  BY <1>1, <1>2, <1>3 DEF WideIn
<1>5. Cardinality(WideIn(Spaces(n))) = 0
  <2>1. Cardinality({}) = 0
    BY ONLY FS_EmptySet
  <2>2. QED
    BY ONLY <1>4, <2>1, Zenon
<1>6. QED
  BY <1>1, <1>2, <1>3, <1>5, WideInIs

(* A line of text, and the cursor behind it: the columns of what follows   *)
(* the last line break.                                                    *)
Unbroken(s) == s \in Text /\ \A i \in 1..Len(s) : s[i] # NL

LEMMA CursorIs ==
  ASSUME NEW a \in Text, NEW b, Unbroken(b), a = << >> \/ a[Len(a)] = NL
  PROVE  Cursor(a \o b) = Columns(b)
<1> DEFINE s == a \o b
           m == Len(a)
           n == Len(b)
           S == {i \in DOMAIN s : s[i] = NL} \cup {0}
<1>1. /\ m \in Nat /\ n \in Nat /\ s \in Seq(Nat) /\ Len(s) = m + n /\ b \in Text
      /\ \A i \in 1..m + n : s[i] = IF i <= m THEN a[i] ELSE b[i - m]
  BY ConcatProperties, WideInIs DEF Text, Unbroken
<1>2. DOMAIN s = 1..m + n
  BY <1>1, LenProperties
<1>3. \A i \in S : i \in 0..m
  <2>1. \A i \in m + 1..m + n : i - m \in 1..n
    BY <1>1
  <2>2. \A i \in m + 1..m + n : s[i] # NL
    BY <1>1, <2>1 DEF Unbroken
  <2>3. \A i \in 1..m + n : i <= m \/ i \in m + 1..m + n
    BY <1>1
  <2> HIDE DEF s, m, n
  <2>4. \A i \in DOMAIN s : s[i] = NL => i \in 0..m
    BY <1>1, <1>2, <2>2, <2>3
  <2>5. QED
    BY <1>1, <2>4
<1>4. m \in S
  <2>1. CASE m = 0
    BY <2>1
  <2>2. CASE m # 0
    <3>1. m \in 1..m + n /\ s[m] = a[m] /\ a # << >>
      BY <1>1, <2>2
    <3>2. QED
      BY <1>2, <3>1
  <2>3. QED
    BY <2>1, <2>2
<1>5. Max(S) = m
  <2> HIDE DEF S
  <2>1. S \in SUBSET Nat /\ S # {} /\ \A y \in S : y <= m
    BY <1>1, <1>3, <1>4
  <2>2. Max(S) \in S /\ \A y \in S : Max(S) >= y
    BY <1>1, <2>1, MaxIs
  <2>3. Max(S) >= m /\ Max(S) <= m /\ Max(S) \in Nat
    BY <1>4, <2>1, <2>2
  <2>4. QED
    BY <1>1, <2>3
<1>6. Cursor(s) = Columns(SubSeq(s, Max(S) + 1, Len(s)))
  BY DEF Cursor
<1>7. SubSeq(s, m + 1, m + n) = b
  <2> DEFINE t == SubSeq(s, m + 1, m + n)
             k == m + 1
             l == m + n
  <2>1. k \in Int /\ l \in Int /\ k = m + 1 /\ l = m + n /\ \A i \in k..l : s[i] \in Nat
    <3>1. \A i \in k..l : i \in 1..Len(s)
      BY <1>1
    <3>2. \A i \in 1..Len(s) : s[i] \in Nat
      BY <1>1, ElementOfSeq
    <3>3. k \in Int /\ l \in Int
      BY <1>1
    <3> HIDE DEF s
    <3>4. QED
      BY <3>1, <3>2, <3>3
  <2>2. t = SubSeq(s, k, l)
    OBVIOUS
  <2> HIDE DEF k, l, s, t
  <2>3. /\ t \in Seq(Nat) /\ Len(t) = (IF k <= l THEN l - k + 1 ELSE 0)
        /\ \A i \in 1..l - k + 1 : t[i] = s[k + i - 1]
    BY <2>1, <2>2, SubSeqProperties
  <2>4. Len(t) = n
    BY <1>1, <2>1, <2>3
  <2>5. ASSUME NEW i \in 1..n
        PROVE  t[i] = b[i]
    <3>1. i \in 1..l - k + 1 /\ k + i - 1 = m + i /\ m + i \in 1..m + n /\ ~ (m + i <= m) /\ (m + i) - m = i
      BY <1>1, <2>1
    <3>2. t[i] = s[m + i]
      BY <2>3, <3>1
    <3>3. s[m + i] = b[(m + i) - m]
      BY <1>1, <3>1
    <3>4. QED
      BY <3>1, <3>2, <3>3
  <2>6. t = b
    BY <1>1, <2>3, <2>4, <2>5, SeqEqual DEF Text
  <2>7. QED
    BY <2>6 DEF t
<1>8. QED
  BY <1>1, <1>5, <1>6, <1>7, Zenon

(* Every text is a number of lines and an unbroken rest.                   *)
LEMMA LastLineIs ==
  ASSUME NEW s \in Text
  PROVE  \E a, b : a \in Text /\ s = a \o b /\ Unbroken(b) /\ (a = << >> \/ a[Len(a)] = NL)
<1> DEFINE n == Len(s)
           S == {i \in 1..n : s[i] = NL} \cup {0}
           m == Max(S)
           a == SubSeq(s, 1, m)
           b == SubSeq(s, m + 1, n)
<1>1. n \in Nat /\ s \in Seq(Nat) /\ \A i \in 1..n : s[i] \in Nat
  BY WideInIs, ElementOfSeq DEF Text
<1>2. S \in SUBSET Nat /\ S # {} /\ \A y \in S : y <= n
  BY <1>1
<1>3. m \in S /\ \A y \in S : m >= y
  BY <1>1, <1>2, MaxIs
<1>4. m \in 0..n /\ (m # 0 => s[m] = NL)
  BY <1>1, <1>3
<1>5. \A i \in m + 1..n : s[i] # NL
  <2> SUFFICES ASSUME NEW i \in m + 1..n, s[i] = NL PROVE FALSE
    OBVIOUS
  <2>0. i \in 1..n
    BY <1>1, <1>4
  <2>1. i \in S
    BY <2>0
  <2>2. QED
    BY <1>3, <1>4, <2>0, <2>1
<1> HIDE DEF m, S
<1>6. a \o b = s
  <2>1. 1 \in 1..n + 1 /\ m \in 1 - 1..n /\ n \in m..n
    BY <1>1, <1>4
  <2>2. SubSeq(s, 1, m) \o SubSeq(s, m + 1, n) = SubSeq(s, 1, n)
    BY <1>1, <2>1, ConcatAdjacentSubSeq
  <2>3. QED
    BY <1>1, <2>2, SubSeqFull
<1>7. /\ a \in Seq(Nat) /\ Len(a) = m /\ \A i \in 1..m : a[i] = s[i]
  <2> DEFINE k == 1
  <2>1. k \in Int /\ k = 1 /\ m \in Int /\ \A i \in k..m : s[i] \in Nat
    BY <1>1, <1>4
  <2>2. a = SubSeq(s, k, m)
    OBVIOUS
  <2> HIDE DEF k, a
  <2>3. /\ a \in Seq(Nat) /\ Len(a) = (IF k <= m THEN m - k + 1 ELSE 0)
        /\ \A i \in 1..m - k + 1 : a[i] = s[k + i - 1]
    BY <2>1, <2>2, SubSeqProperties
  <2>4. QED
    BY <1>4, <2>1, <2>3
<1>8. /\ b \in Seq(Nat) /\ Len(b) = n - m /\ \A i \in 1..n - m : b[i] = s[m + i]
  <2> DEFINE k == m + 1
  <2>1. k \in Int /\ k = m + 1 /\ n \in Int /\ \A i \in k..n : s[i] \in Nat
    BY <1>1, <1>4
  <2>2. b = SubSeq(s, k, n)
    OBVIOUS
  <2> HIDE DEF k, b, n
  <2>3. /\ b \in Seq(Nat) /\ Len(b) = (IF k <= n THEN n - k + 1 ELSE 0)
        /\ \A i \in 1..n - k + 1 : b[i] = s[k + i - 1]
    BY <2>1, <2>2, SubSeqProperties
  <2>4. Len(b) = n - m /\ n - k + 1 = n - m
    BY <1>1, <1>4, <2>1, <2>3
  <2>5. \A i \in 1..n - m : k + i - 1 = m + i
    BY <1>1, <1>4, <2>1
  <2>6. QED
    BY <2>3, <2>4, <2>5
<1> HIDE DEF a, b
<1>9. Unbroken(b)
  <2>1. \A i \in 1..n - m : m + i \in m + 1..n
    BY <1>1, <1>4
  <2>2. QED
    BY <1>5, <1>8, <2>1 DEF Unbroken, Text
<1>10. a = << >> \/ a[Len(a)] = NL
  <2>1. CASE m = 0
    BY <1>7, <2>1, EmptySeq
  <2>2. CASE m # 0
    BY <1>4, <1>7, <2>2
  <2>3. QED
    BY <2>1, <2>2
<1>11. a \in Text
  BY <1>7 DEF Text
<1>12. QED
  BY <1>6, <1>9, <1>10, <1>11

(* What is written moves the cursor.                                       *)
LEMMA UnbrokenJoined ==
  ASSUME NEW a, Unbroken(a), NEW b, Unbroken(b)
  PROVE  Unbroken(a \o b)
<1>1. /\ Len(a) \in Nat /\ Len(b) \in Nat /\ a \o b \in Text /\ Len(a \o b) = Len(a) + Len(b)
      /\ \A i \in 1..Len(a) + Len(b) : (a \o b)[i] = IF i <= Len(a) THEN a[i] ELSE b[i - Len(a)]
  BY ConcatProperties, WideInIs DEF Text, Unbroken
<1>2. ASSUME NEW i \in 1..Len(a) + Len(b)
      PROVE  (a \o b)[i] # NL
  <2>1. CASE i <= Len(a)
    BY <1>1, <2>1 DEF Unbroken
  <2>2. CASE ~ (i <= Len(a))
    <3>1. i - Len(a) \in 1..Len(b)
      BY <1>1, <2>2
    <3>2. QED
      BY <1>1, <2>2, <3>1 DEF Unbroken
  <2>3. QED
    BY <2>1, <2>2
<1>3. QED
  BY <1>1, <1>2 DEF Unbroken

LEMMA CursorMoves ==
  ASSUME NEW o \in Text, NEW s, Unbroken(s)
  PROVE  /\ Cursor(o) \in Nat
         /\ Cursor(o \o s) = Cursor(o) + Columns(s)
         /\ Cursor(o \o (<<NL>> \o s)) = Columns(s)
<1>0. s \in Text
  BY DEF Unbroken
<1>1. PICK a, b : a \in Text /\ o = a \o b /\ Unbroken(b) /\ (a = << >> \/ a[Len(a)] = NL)
  BY LastLineIs
<1>2. b \in Text
  BY <1>1 DEF Unbroken
<1>3. Cursor(o) = Columns(b) /\ Columns(b) \in Nat
  BY <1>1, <1>2, CursorIs, WideInIs
<1>4. o \o s = a \o (b \o s)
  <2>1. a \in Text /\ b \in Text /\ s \in Text /\ o = a \o b
    BY <1>0, <1>1, <1>2
  <2>2. (a \o b) \o s = a \o (b \o s)
    BY ONLY <2>1, Regrouped
  <2>3. QED
    BY ONLY <2>1, <2>2
<1>5. Cursor(a \o (b \o s)) = Columns(b \o s)
  BY <1>1, CursorIs, UnbrokenJoined
<1>6. Columns(b \o s) = Columns(b) + Columns(s)
  BY <1>0, <1>2, ColumnsJoined
<1>7. Cursor(o \o (<<NL>> \o s)) = Columns(s)
  <2> DEFINE l == <<NL>>
  <2>1. l \in Text /\ Len(l) = 1 /\ l[1] = NL
    BY NewLineIs DEF Blanks
  <2> HIDE DEF l
  <2>2. o \o (l \o s) = (o \o l) \o s
    BY <1>0, <2>1, Regrouped
  <2>3. /\ o \o l \in Text /\ Len(o \o l) = Len(o) + 1 /\ Len(o) \in Nat
        /\ \A i \in 1..Len(o) + 1 : (o \o l)[i] = IF i <= Len(o) THEN o[i] ELSE l[i - Len(o)]
    <3>1. /\ o \o l \in Text /\ Len(o \o l) = Len(o) + Len(l) /\ Len(o) \in Nat
          /\ \A i \in 1..Len(o) + Len(l) : (o \o l)[i] = IF i <= Len(o) THEN o[i] ELSE l[i - Len(o)]
      BY <2>1, Joined
    <3>2. QED
      BY ONLY <2>1, <3>1
  <2>4. Len(o) + 1 \in 1..Len(o) + 1 /\ ~ (Len(o) + 1 <= Len(o)) /\ (Len(o) + 1) - Len(o) = 1
    BY <2>3
  <2>5. (o \o l)[Len(o) + 1] = NL
    BY <2>1, <2>3, <2>4
  <2>6. Cursor((o \o l) \o s) = Columns(s)
    BY <2>3, <2>5, CursorIs
  <2>7. QED
    BY <2>2, <2>6 DEF l
<1>8. QED
  BY <1>3, <1>4, <1>5, <1>6, <1>7

LEMMA NoColumns == Unbroken(<< >>) /\ Columns(<< >>) = 0
<1>1. << >> \in Text /\ Len(<< >>) = 0
  BY DEF Text
<1>2. WideIn(<< >>) = {}
  BY <1>1 DEF WideIn
<1>3. Cardinality(WideIn(<< >>)) = 0
  BY <1>2, FS_EmptySet
<1>4. QED
  BY <1>1, <1>3, WideInIs DEF Unbroken

(* After a line break the cursor is at the left.                           *)
LEMMA CursorReturns ==
  ASSUME NEW o \in Text
  PROVE  /\ Cursor(o \o <<NL>>) = 0 /\ Cursor(Append(o, NL)) = 0
         /\ o \o <<NL>> \in Text
<1> DEFINE l == <<NL>>
<1>1. l \in Text
  BY NewLineIs DEF Blanks
<1>2. l \o << >> = l
  BY <1>1, ConcatEmptySeq DEF Text
<1>3. Cursor(o \o (l \o << >>)) = 0
  BY NoColumns, CursorMoves
<1>4. Append(o, NL) = o \o l
  BY AppendIsConcat DEF Text, NL
<1>5. o \o l \in Text
  BY <1>1, ColumnsJoined
<1>6. QED
  BY <1>2, <1>3, <1>4, <1>5

LEMMA CursorStarts == Cursor(<< >>) = 0
<1>1. << >> \in Text
  BY DEF Text
<1>2. << >> \o << >> = << >>
  BY <1>1, ConcatEmptySeq DEF Text
<1>3. Cursor(<< >> \o << >>) = Columns(<< >>)
  BY <1>1, NoColumns, CursorIs
<1>4. QED
  BY <1>2, <1>3, NoColumns

(* indent() puts it where it should, if it was where the code thinks, or   *)
(* the code thinks that it is behind that.                                 *)
LEMMA Indented ==
  ASSUME NEW o \in Text, NEW a \in Int, a >= 0, NEW b \in Nat, a = Cursor(o) \/ b < a
  PROVE  /\ Cursor(o \o indentation(a, b)) = b
         /\ indented(a, b) = IF b < a /\ b = 0 THEN a ELSE b
<1>1. indented(a, b) = IF b < a /\ b = 0 THEN a ELSE b
  BY DEF indented
<1>2. \A n \in Nat : Unbroken(Spaces(n)) /\ Columns(Spaces(n)) = n
  BY SpacesWide, SpacesAre DEF Unbroken
<1>3. CASE b < a
  <2>1. indentation(a, b) = <<NL>> \o Spaces(b)
    BY <1>3 DEF indentation
  <2>2. QED
    BY <1>1, <1>2, <2>1, CursorMoves
<1>4. CASE ~ (b < a)
  <2>1. indentation(a, b) = Spaces(b - a) /\ b - a \in Nat /\ a = Cursor(o)
    BY <1>4 DEF indentation
  <2>2. Cursor(o \o Spaces(b - a)) = Cursor(o) + (b - a)
    BY <1>2, <2>1, CursorMoves
  <2>3. QED
    BY <1>1, <2>1, <2>2
<1>5. QED
  BY <1>3, <1>4

-----------------------------------------------------------------------------
(***************************************************************************)
(* The parts of a row.  At a part of a cell the iterator has its length,   *)
(* and is as far down as the line it goes for or at the last of the cell.  *)
(***************************************************************************)

(* A part of a cell is what is between its separators, and behind it is    *)
(* the end of a line of the cell only if it is the line that was looked    *)
(* for.                                                                    *)
Cell(u, it) ==
    /\ AtPart(u, it)
    /\ it.line_in_block >= it.target_line_in_block \/ behind(u, it) # VT

(* In front of the first part of a row, or at a part of a cell.            *)
AtCell(u, it) ==
    /\ AtText(u, it) /\ it.hit_target_line
    /\ it.col = -1 => it.line_in_block >= it.target_line_in_block
    /\ it.col # -1 => Cell(u, it)

SameRow(a, b) ==
    a.tablestart = b.tablestart /\ a.rowdesc = b.rowdesc /\ a.rowstart = b.rowstart

LEMMA LengthIs ==
  ASSUME NEW u, NEW it \in Iterator
  PROVE  LET i == update_length(u, it)
         IN  /\ i.len = Find(u, it, it.ptr, Separators) - it.ptr
             /\ i.screenlen = Columns(data(u, i))
<1> DEFINE l == Find(u, it, it.ptr, Separators) - it.ptr
           j == [it EXCEPT !.len = l]
           c == Columns(data(u, j))
           i == [j EXCEPT !.screenlen = c]
<1>1. update_length(u, it) = i
  BY DEF update_length
<1> HIDE DEF l
<1>2. j.ptr = it.ptr /\ j.rowdesc = it.rowdesc /\ j.len = l /\ DOMAIN j = DOMAIN it
  BY DEF Iterator
<1> HIDE DEF c
<1>3. i.ptr = it.ptr /\ i.rowdesc = it.rowdesc /\ i.len = l /\ i.screenlen = c
  BY DEF Iterator
<1> HIDE DEF i, j
<1>4. data(u, i) = data(u, j)
  BY <1>2, <1>3 DEF data
<1>5. QED
  BY <1>1, <1>3, <1>4 DEF c, l

LEMMA FoundCell ==
  ASSUME NEW u \in Helps, NEW k, Inside(u, k), k.col >= 0
  PROVE  LET f == Found(u, k).it
         IN  /\ Found(u, k).ok /\ AtText(u, f) /\ AtPart(u, f) /\ SameRow(f, k)
             /\ f.col = k.col /\ f.ptr = k.ptr /\ f.hit_target_line
             /\ f.line_in_block = k.line_in_block /\ f.target_line_in_block = k.target_line_in_block
             /\ f.ptr + f.len = Find(u, k, k.ptr, Separators)
<1> DEFINE i == update_length(u, k)
           f == [i EXCEPT !.hit_target_line = TRUE]
<1>1. Found(u, k).ok /\ Found(u, k).it = f
  BY DEF Found
<1>2. AtText(u, f)
  BY <1>1, FoundIs
<1>3. k \in Iterator
  BY DEF Inside
<1>4. Inside(u, i) /\ i = [k EXCEPT !.len = i.len, !.screenlen = i.screenlen]
  BY UpdateIs
<1>5. i.len = Find(u, k, k.ptr, Separators) - k.ptr /\ i.screenlen = Columns(data(u, i))
  BY <1>3, LengthIs
<1> HIDE DEF i
<1>6. /\ i \in Iterator /\ SameRow(i, k) /\ i.col = k.col /\ i.ptr = k.ptr
      /\ i.line_in_block = k.line_in_block /\ i.target_line_in_block = k.target_line_in_block
  <2>1. i \in Iterator
    BY <1>4 DEF Inside
  <2>2. QED
    BY <1>3, <1>4, <2>1 DEF Iterator, SameRow
<1>7. /\ f.tablestart = i.tablestart /\ f.rowdesc = i.rowdesc /\ f.rowstart = i.rowstart
      /\ f.col = i.col /\ f.ptr = i.ptr
      /\ f.line_in_block = i.line_in_block /\ f.target_line_in_block = i.target_line_in_block
      /\ f.len = i.len /\ f.screenlen = i.screenlen /\ f.hit_target_line
  BY <1>6 DEF Iterator
<1> HIDE DEF f
<1>8. data(u, f) = data(u, i)
  BY <1>7 DEF data
<1>9. k.rowdesc = f.rowdesc
  BY <1>6, <1>7 DEF SameRow
<1>10. Find(u, f, f.ptr, Separators) = Find(u, k, k.ptr, Separators)
  BY <1>6, <1>7, <1>9 DEF Find
<1>11. AtPart(u, f)
  BY <1>2, <1>5, <1>6, <1>7, <1>8, <1>10 DEF AtPart, AtText
<1>12. f.ptr + f.len = Find(u, k, k.ptr, Separators)
  <2>1. k.ptr \in Nat /\ Find(u, k, k.ptr, Separators) \in Nat
    <3>1. k.ptr \in Nat
      BY <1>3 DEF Iterator
    <3>2. QED
      BY <3>1, FindIs
  <2>2. QED
    BY <1>5, <1>6, <1>7, <2>1
<1>13. SameRow(f, k)
  BY <1>6, <1>7 DEF SameRow
<1>14. QED
  BY <1>1, <1>2, <1>6, <1>7, <1>11, <1>12, <1>13

(* The end of a part.                                                      *)
LEMMA PartEnds ==
  ASSUME NEW u \in Helps, NEW it, AtPart(u, it)
  PROVE  LET p == it.ptr + it.len
         IN  /\ p \in 1..Long(u, it) + 1 /\ p = Find(u, it, it.ptr, Separators)
             /\ Find(u, it, p, Separators) = p
             /\ Unbroken(data(u, it)) /\ it.screenlen = Columns(data(u, it))
<1> DEFINE h == help(u, it.rowdesc)
           n == Len(h)
           e == Find(u, it, it.ptr, Separators)
           s == data(u, it)
<1>1. it \in Iterator /\ it.ptr \in 1..n + 1 /\ it.ptr \in Nat /\ it.len \in Nat
  BY DEF AtPart, Inside, Iterator, Long
<1>2. h \in Seq(Nat) /\ n \in Nat /\ Long(u, it) = n
  BY HelpIs DEF Long
<1>3. /\ e \in Nat /\ e <= n + 1 /\ it.ptr <= e /\ (e <= n => h[e] \in Separators)
      /\ \A j \in it.ptr..n : h[j] \in Separators => e <= j
  BY <1>1, <1>2, FindIs
<1>4. it.ptr + it.len = e
  <2>1. it.len = e - it.ptr
    BY DEF AtPart
  <2> HIDE DEF e
  <2>2. QED
    BY <1>1, <1>3, <2>1
<1>5. Find(u, it, e, Separators) = e
  <2> DEFINE d == Find(u, it, e, Separators)
  <2>1. /\ d \in Nat /\ d <= n + 1 /\ (e <= n + 1 => e <= d)
        /\ \A j \in e..n : h[j] \in Separators => d <= j
    BY <1>2, <1>3, FindIs
  <2> HIDE DEF d, e, h, n
  <2>2. CASE e <= n
    <3>1. e \in e..n
      BY <1>2, <1>3, <2>2
    <3>2. d <= e
      BY <1>3, <2>1, <2>2, <3>1
    <3>3. QED
      BY <1>3, <2>1, <3>2 DEF d
  <2>3. CASE ~ (e <= n)
    BY <1>2, <1>3, <2>1, <2>3 DEF d
  <2>4. QED
    BY <2>2, <2>3
<1>6. s \in Seq(Nat) /\ Len(s) = it.len
  BY <1>1, <1>2, <1>3, <1>4, DataIs
<1>7. \A i \in 1..it.len : s[i] # NL
  <2> DEFINE a == it.ptr
             b == it.ptr + it.len - 1
  <2>1. /\ a \in Int /\ b \in Int /\ a \in 1..n + 1 /\ b = e - 1 /\ b <= n
    BY <1>1, <1>2, <1>3, <1>4
  <2>2. s = SubSeq(h, a, b)
    BY DEF data
  <2>3. \A i \in 1..n : h[i] \in Nat
    BY <1>2, ElementOfSeq
  <2> HIDE DEF a, b, s, h, n, e
  <2>4. \A i \in a..b : h[i] \in Nat
    BY <1>2, <2>1, <2>3
  <2>5. \A i \in 1..b - a + 1 : SubSeq(h, a, b)[i] = h[a + i - 1]
    BY <2>1, <2>4, SubSeqProperties
  <2> SUFFICES ASSUME NEW i \in 1..it.len PROVE s[i] # NL
    OBVIOUS
  <2>6. i \in 1..b - a + 1 /\ a + i - 1 \in it.ptr..n /\ ~ (e <= a + i - 1)
    <3> DEFINE m == it.ptr
               k == it.len
    <3>1. m \in Nat /\ k \in Nat /\ e \in Nat /\ n \in Nat /\ e <= n + 1 /\ m + k = e /\ i \in 1..k
      BY <1>1, <1>2, <1>3, <1>4
    <3>2. a = m /\ b = m + k - 1
      BY DEF a, b
    <3> HIDE DEF m, k
    <3>3. i \in Int /\ 1 <= i /\ i <= k
      BY ONLY <3>1
    <3>4. b - a + 1 = k /\ a + i - 1 >= m /\ a + i - 1 < e
      BY ONLY <3>1, <3>2, <3>3
    <3>5. a + i - 1 \in m..n
      BY ONLY <3>1, <3>2, <3>3, <3>4
    <3>6. ~ (e <= a + i - 1)
      BY ONLY <3>1, <3>2, <3>3, <3>4
    <3>7. QED
      BY <3>1, <3>4, <3>5, <3>6 DEF m
  <2>7. h[a + i - 1] \notin Separators
    BY <1>3, <2>6
  <2>8. QED
    BY <2>2, <2>5, <2>6, <2>7 DEF Separators
<1>8. Unbroken(s)
  BY <1>6, <1>7 DEF Unbroken, Text
<1>9. e \in 1..n + 1
  BY <1>1, <1>2, <1>3
<1>10. QED
  BY <1>2, <1>4, <1>5, <1>8, <1>9 DEF AtPart

(* In front of its first part a row is followed by the first cell.         *)
LEMMA FirstCell ==
  ASSUME NEW u \in Helps, NEW it, AtCell(u, it), it.col = -1
  PROVE  LET n == next(u, it)
         IN  n.ok /\ n.it.col = 0 /\ AtCell(u, n.it) /\ SameRow(n.it, it)
<1> DEFINE j == [it EXCEPT !.col = 0]
           i == update_length(u, j)
<1>1. it \in Iterator /\ it.ptr # 0 /\ it.ptr \in Nat /\ it.hit_target_line /\ AtText(u, it) /\ Inside(u, it)
  BY DEF AtCell, AtText, Inside, Iterator
<1>2. next(u, it) = [ok |-> TRUE, it |-> i]
  BY <1>1 DEF next
<1>3. /\ j \in Iterator /\ SameRow(j, it) /\ j.ptr = it.ptr /\ j.col = 0
      /\ j.line_in_block = it.line_in_block /\ j.target_line_in_block = it.target_line_in_block
      /\ j.max_line_in_block = it.max_line_in_block /\ j.hit_target_line
  BY <1>1 DEF Iterator, SameRow
<1> HIDE DEF j
<1>4. Inside(u, j)
  BY <1>1, <1>3 DEF Inside, Long, SameRow
<1>5. /\ Inside(u, i) /\ AtPart(u, i) /\ i = [j EXCEPT !.len = i.len, !.screenlen = i.screenlen]
      /\ i.ptr + i.len <= Long(u, i) + 1
  BY <1>3, <1>4, UpdateIs
<1> HIDE DEF i
<1>6. i \in Iterator
  BY <1>5 DEF Inside
<1>7. /\ SameRow(i, j) /\ i.col = j.col
      /\ i.line_in_block = j.line_in_block /\ i.target_line_in_block = j.target_line_in_block
      /\ i.hit_target_line = j.hit_target_line
  BY <1>3, <1>5, <1>6 DEF Iterator, SameRow
<1>8. it.line_in_block >= it.target_line_in_block
  BY DEF AtCell
<1>9. AtText(u, i)
  BY <1>3, <1>5, <1>7 DEF AtText
<1>10. Cell(u, i)
  BY <1>3, <1>5, <1>7, <1>8 DEF Cell
<1>11. SameRow(i, it)
  BY <1>3, <1>7 DEF SameRow
<1>12. AtCell(u, i)
  BY <1>3, <1>7, <1>9, <1>10 DEF AtCell
<1>13. QED
  BY <1>2, <1>3, <1>7, <1>11, <1>12

(* A part is followed by one of the next cell or of the first one; by the  *)
(* first, if it is the last of its row.                                    *)
LEMMA NextCell ==
  ASSUME NEW u \in Helps, NEW it, AtCell(u, it), it.col # -1
  PROVE  LET n == next(u, it)
         IN  /\ n.ok \in BOOLEAN /\ SameRow(n.it, it)
             /\ n.ok => /\ AtCell(u, n.it) /\ n.it.col \in {0, it.col + 1} /\ n.it.col >= 0
                        /\ behind(u, it) \notin {TAB, VT} => n.it.col = 0
<1> DEFINE p == it.ptr + it.len
           j == [it EXCEPT !.ptr = p]
           c == it.col
           free == behind(u, it) \notin {TAB, VT}
           Hit(i) == /\ i.col = c
                     /\ i.line_in_block >= i.target_line_in_block \/ Mark(u, i) # VT
                     /\ free => i = j
           Miss(i) == i.col \in {0, c + 1} /\ (free => i.col = 0)
           G == {i \in Iterator : /\ Inside(u, i) /\ SameRow(i, it) /\ i.col >= 0
                                  /\ IF i.hit_target_line THEN Hit(i) ELSE Miss(i)}
<1>1. /\ it \in Iterator /\ it.ptr # 0 /\ it.ptr \in Nat /\ it.hit_target_line /\ AtText(u, it)
      /\ it.len \in Nat /\ Inside(u, it) /\ Cell(u, it) /\ AtPart(u, it)
      /\ c \in Nat /\ it.line_in_block \in Nat /\ it.target_line_in_block \in Nat
  <2>1. it \in Iterator /\ AtText(u, it) /\ Inside(u, it) /\ Cell(u, it) /\ AtPart(u, it) /\ it.hit_target_line
    BY DEF AtCell, AtText, Inside, Cell
  <2>2. it.col \in Int /\ it.col >= -1 /\ it.col # -1
    BY <2>1 DEF AtText, Iterator
  <2>3. QED
    BY <2>1, <2>2 DEF Inside, Iterator
<1>2. next(u, it) = Loop(u, j)
  BY <1>1 DEF next
<1>3. p \in 1..Long(u, it) + 1 /\ Find(u, it, p, Separators) = p
  BY <1>1, PartEnds
<1>4. it.line_in_block < p
  BY <1>1 DEF Inside
<1>5. behind(u, it) = Char(u, it, p)
  BY DEF behind
<1> HIDE DEF p
<1>6. /\ j \in Iterator /\ j.ptr = p /\ SameRow(j, it) /\ j.col = c
      /\ j.line_in_block = it.line_in_block /\ j.target_line_in_block = it.target_line_in_block
      /\ j.max_line_in_block = it.max_line_in_block /\ j.hit_target_line
  <2>1. p \in Nat
    BY <1>3
  <2>2. QED
    BY <1>1, <2>1 DEF Iterator, SameRow
<1> HIDE DEF j
<1>7. Long(u, j) = Long(u, it)
  BY <1>6 DEF Long, SameRow
<1>8. Inside(u, j)
  BY <1>1, <1>3, <1>4, <1>6, <1>7 DEF Inside, SameRow
<1>9. Mark(u, j) = behind(u, it)
  <2>1. Find(u, j, j.ptr, Separators) = p
    BY <1>3, <1>6 DEF Find, SameRow
  <2>2. Ahead(u, j).rowdesc = j.rowdesc /\ Ahead(u, j).ptr = p
    BY <1>6, <2>1 DEF Ahead, Iterator
  <2>3. Mark(u, j) = Char(u, j, p)
    BY <2>2 DEF Mark, Char
  <2>4. QED
    BY <1>5, <1>6, <2>3 DEF Char, SameRow
<1>10. j \in G
  <2>1. j.line_in_block >= j.target_line_in_block \/ Mark(u, j) # VT
    BY <1>1, <1>6, <1>9 DEF Cell
  <2>2. QED
    BY <1>1, <1>6, <1>8, <2>1
<1> HIDE DEF free
<1>11. ASSUME NEW i \in G
       PROVE  /\ i \in Iterator /\ Inside(u, i) /\ SameRow(i, it) /\ i.col >= 0
              /\ i.col \in Int /\ i.line_in_block \in Nat /\ i.target_line_in_block \in Nat
              /\ i.hit_target_line \in BOOLEAN
              /\ i.hit_target_line => Hit(i)
              /\ ~ i.hit_target_line => Miss(i)
  BY DEF Iterator
<1> HIDE DEF G
<1>12. ASSUME NEW i \in G, Mark(u, i) \in {VT, TAB}, ~ Here(u, i)
       PROVE  LET b == Behind(u, i)
              IN  /\ b \in Iterator /\ Inside(u, b) /\ SameRow(b, it) /\ b.col >= 0
                  /\ b.hit_target_line => b.col = c /\ b.line_in_block > b.target_line_in_block /\ ~ free
                  /\ ~ b.hit_target_line => Miss(b)
  <2> DEFINE b == Behind(u, i)
  <2>1. /\ b \in Iterator /\ Inside(u, b)
        /\ b.rowdesc = i.rowdesc /\ b.rowstart = i.rowstart /\ b.tablestart = i.tablestart
        /\ b.target_line_in_block = i.target_line_in_block
        /\ b.col = (IF Mark(u, i) = VT THEN i.col ELSE i.col + 1)
        /\ b.hit_target_line = (IF Mark(u, i) = VT THEN i.hit_target_line ELSE FALSE)
        /\ b.line_in_block = (IF Mark(u, i) = VT THEN i.line_in_block + 1 ELSE 0)
    BY <1>11, <1>12, BehindIs
  <2> HIDE DEF b
  <2>2. SameRow(b, it)
    BY <1>11, <2>1 DEF SameRow
  <2>3. free /\ i.hit_target_line => FALSE
    <3> SUFFICES ASSUME free, i.hit_target_line PROVE FALSE
      OBVIOUS
    <3>1. i = j
      BY <1>11
    <3>2. QED
      BY <1>9, <1>12, <3>1 DEF free
  <2>4. CASE i.hit_target_line /\ Mark(u, i) = VT
    <3>1. i.col = c /\ i.line_in_block >= i.target_line_in_block /\ ~ free
      BY <1>11, <2>3, <2>4
    <3>2. b.col = c /\ b.line_in_block = i.line_in_block + 1 /\ b.hit_target_line
      BY <2>1, <2>4, <3>1
    <3>3. b.line_in_block > b.target_line_in_block /\ b.col >= 0
      BY <1>1, <1>11, <2>1, <3>1, <3>2
    <3>4. QED
      BY <2>1, <2>2, <3>1, <3>2, <3>3 DEF b
  <2>5. CASE i.hit_target_line /\ Mark(u, i) # VT
    <3>1. i.col = c /\ ~ free
      BY <1>11, <2>3, <2>5
    <3>2. b.col = c + 1 /\ b.hit_target_line = FALSE
      BY <2>1, <2>5, <3>1
    <3>3. Miss(b) /\ b.col >= 0
      BY <1>1, <3>1, <3>2
    <3>4. QED
      BY <2>1, <2>2, <3>2, <3>3 DEF b
  <2>6. CASE ~ i.hit_target_line
    <3>1. Mark(u, i) = VT
      BY <1>12, <2>6 DEF Here
    <3>2. b.col = i.col /\ b.hit_target_line = i.hit_target_line
      BY <2>1, <3>1
    <3>3. Miss(b) /\ b.col >= 0
      BY <1>11, <2>6, <3>2
    <3>4. QED
      BY <2>1, <2>2, <2>6, <3>2, <3>3 DEF b
  <2>7. QED
    BY <2>4, <2>5, <2>6
<1>13. ASSUME NEW i \in G
       PROVE  Inside(u, i) /\ (~ Stops(u, i) => Onward(u, i) \in G)
  <2> SUFFICES ASSUME ~ Stops(u, i) PROVE Onward(u, i) \in G
    BY <1>11
  <2>1. ~ Here(u, i)
    BY DEF Stops
  <2>2. CASE Mark(u, i) \in {VT, TAB}
    <3> DEFINE b == Behind(u, i)
    <3>1. /\ b \in Iterator /\ Inside(u, b) /\ SameRow(b, it) /\ b.col >= 0
          /\ b.hit_target_line => b.col = c /\ b.line_in_block > b.target_line_in_block /\ ~ free
          /\ ~ b.hit_target_line => Miss(b)
      BY <1>12, <2>1, <2>2
    <3>2. Onward(u, i) = b
      BY <2>2 DEF Onward
    <3> HIDE DEF b, Miss
    <3>3. b.line_in_block \in Nat /\ b.target_line_in_block \in Nat
      BY <3>1 DEF Iterator
    <3>4. b.hit_target_line => Hit(b)
      BY <3>1, <3>3
    <3>5. b \in G
      BY <3>1, <3>4 DEF G
    <3>6. QED
      BY <3>2, <3>5
  <2>3. CASE Mark(u, i) \notin {VT, TAB}
    <3> DEFINE a == Ahead(u, i)
               o == Again(a)
    <3>1. Onward(u, i) = o
      BY <2>3 DEF Onward
    <3>2. /\ o \in Iterator /\ o.rowdesc = i.rowdesc /\ o.rowstart = i.rowstart /\ o.tablestart = i.tablestart
          /\ Inside(u, o)
      BY <1>11, <3>1, OnwardIs
    <3>3. a \in Iterator
      BY <1>11, AheadIs
    <3>4. o.col = 0 /\ o.hit_target_line = FALSE
      BY <3>3, AgainIs
    <3> HIDE DEF o
    <3>5. SameRow(o, it)
      BY <1>11, <3>2 DEF SameRow
    <3>6. Miss(o)
      BY <3>4
    <3>7. o \in G
      BY <3>2, <3>4, <3>5, <3>6 DEF G
    <3>8. QED
      BY <3>1, <3>7
  <2>4. QED
    BY <2>2, <2>3
<1>14. PICK k \in G : Stops(u, k) /\ Loop(u, j) = Returned(u, k)
  BY <1>10, <1>13, LoopIs
<1>15. /\ k \in Iterator /\ Inside(u, k) /\ SameRow(k, it) /\ k.col >= 0
       /\ ~ k.hit_target_line => Miss(k)
  BY <1>11
<1> DEFINE a == Ahead(u, k)
<1>16. /\ a \in Iterator /\ Inside(u, a) /\ SameRow(a, it) /\ a.col = k.col
       /\ a.ptr = Find(u, k, k.ptr, Separators)
       /\ a.hit_target_line = k.hit_target_line
  <2>1. /\ a \in Iterator /\ a = [k EXCEPT !.ptr = a.ptr] /\ Inside(u, a)
        /\ a.ptr = Find(u, k, k.ptr, Separators)
    BY <1>15, AheadIs
  <2> HIDE DEF a
  <2>2. /\ a.tablestart = k.tablestart /\ a.rowdesc = k.rowdesc /\ a.rowstart = k.rowstart
        /\ a.col = k.col /\ a.hit_target_line = k.hit_target_line
    BY <1>15, <2>1 DEF Iterator
  <2>3. QED
    BY <1>15, <2>1, <2>2 DEF SameRow
<1>17. Find(u, a, a.ptr, Separators) = a.ptr
  <2>1. k.ptr \in 1..Long(u, k) + 1 /\ k.ptr \in Nat /\ a.rowdesc = k.rowdesc
    BY <1>15, <1>16 DEF Inside, Iterator, SameRow
  <2> DEFINE e == Find(u, k, k.ptr, Separators)
             n == Long(u, k)
             d == Find(u, a, e, Separators)
             h == help(u, k.rowdesc)
  <2>2. /\ e \in Nat /\ n \in Nat /\ e <= n + 1 /\ (e <= n => h[e] \in Separators)
    BY <2>1, FindIs
  <2>3. Long(u, a) = n /\ help(u, a.rowdesc) = h
    BY <2>1 DEF Long
  <2>4. /\ d \in Nat /\ d <= n + 1 /\ (e <= n + 1 => e <= d)
        /\ \A i \in e..n : h[i] \in Separators => d <= i
    BY <2>2, <2>3, FindIs
  <2>5. a.ptr = e
    BY <1>16
  <2> HIDE DEF e, n, d, h, a
  <2>6. CASE e <= n
    <3>1. e \in e..n
      BY <2>2, <2>6
    <3>2. d <= e
      BY <2>2, <2>4, <2>6, <3>1
    <3>3. d = e
      BY <2>2, <2>4, <3>2
    <3>4. QED
      BY <2>5, <3>3 DEF d
  <2>7. CASE ~ (e <= n)
    <3>1. d = e
      BY <2>2, <2>4, <2>7
    <3>2. QED
      BY <2>5, <3>1 DEF d
  <2>8. QED
    BY <2>6, <2>7
<1>18. Mark(u, k) = Char(u, a, a.ptr)
  BY DEF Mark
<1>19. CASE Here(u, k)
  <2> DEFINE f == Found(u, a).it
  <2>1. next(u, it) = Found(u, a)
    BY <1>2, <1>14, <1>19 DEF Returned
  <2>2. Mark(u, k) # VT /\ ~ k.hit_target_line
    BY <1>19 DEF Here
  <2> HIDE DEF a
  <2>3. /\ Found(u, a).ok /\ AtText(u, f) /\ AtPart(u, f) /\ SameRow(f, a)
        /\ f.col = a.col /\ f.ptr = a.ptr /\ f.hit_target_line
        /\ f.ptr + f.len = Find(u, a, a.ptr, Separators)
    BY <1>15, <1>16, FoundCell
  <2> HIDE DEF f
  <2>4. behind(u, f) = Char(u, a, a.ptr)
    BY <1>17, <2>3 DEF behind, Char, SameRow
  <2>5. Cell(u, f)
    BY <1>18, <2>2, <2>3, <2>4 DEF Cell
  <2>6. f.col \in {0, c + 1} /\ f.col >= 0 /\ (free => f.col = 0)
    BY <1>15, <1>16, <2>2, <2>3
  <2>7. AtCell(u, f)
    BY <1>1, <2>3, <2>5, <2>6 DEF AtCell
  <2>8. SameRow(f, it)
    BY <1>16, <2>3 DEF SameRow
  <2>9. QED
    BY <2>1, <2>3, <2>6, <2>7, <2>8 DEF f, free
<1>20. CASE ~ Here(u, k) /\ There(u, k)
  <2> DEFINE b == Behind(u, k)
             f == Found(u, b).it
  <2>1. next(u, it) = Found(u, b)
    BY <1>2, <1>14, <1>20 DEF Returned
  <2>2. Mark(u, k) \in {VT, TAB} /\ b.line_in_block = b.target_line_in_block
    BY <1>20 DEF There
  <2>3. /\ b \in Iterator /\ Inside(u, b) /\ SameRow(b, it) /\ b.col >= 0
        /\ b.hit_target_line => b.col = c /\ b.line_in_block > b.target_line_in_block /\ ~ free
        /\ ~ b.hit_target_line => Miss(b)
    BY <1>12, <1>20, <2>2
  <2> HIDE DEF b
  <2>4. Miss(b) /\ b.line_in_block \in Nat /\ b.target_line_in_block \in Nat
    <3>1. b.line_in_block \in Nat /\ b.target_line_in_block \in Nat /\ b.hit_target_line \in BOOLEAN
      BY <2>3 DEF Iterator
    <3>2. ~ (b.line_in_block > b.target_line_in_block)
      BY <2>2, <3>1
    <3>3. QED
      BY <2>3, <3>1, <3>2
  <2>5. /\ Found(u, b).ok /\ AtText(u, f) /\ AtPart(u, f) /\ SameRow(f, b)
        /\ f.col = b.col /\ f.hit_target_line
        /\ f.line_in_block = b.line_in_block /\ f.target_line_in_block = b.target_line_in_block
    BY <2>3, FoundCell
  <2> HIDE DEF f
  <2>6. f.line_in_block >= f.target_line_in_block
    BY <2>2, <2>4, <2>5
  <2>7. Cell(u, f)
    BY <2>5, <2>6 DEF Cell
  <2>8. f.col \in {0, c + 1} /\ f.col >= 0 /\ (free => f.col = 0)
    BY <2>3, <2>4, <2>5
  <2>9. AtCell(u, f)
    BY <2>5, <2>7, <2>8 DEF AtCell
  <2>10. SameRow(f, it)
    BY <2>3, <2>5 DEF SameRow
  <2>11. QED
    BY <2>1, <2>5, <2>8, <2>9, <2>10 DEF f, free
<1>21. CASE ~ Here(u, k) /\ ~ There(u, k)
  <2> DEFINE t == a.target_line_in_block + 1
             b == [a EXCEPT !.target_line_in_block = t]
             i == update_length(u, b)
  <2>1. next(u, it) = [ok |-> FALSE, it |-> i]
    BY <1>2, <1>14, <1>21 DEF Returned
  <2>2. t \in Nat
    BY <1>16 DEF Iterator
  <2> HIDE DEF a, t
  <2>3. /\ b \in Iterator /\ SameRow(b, a) /\ b.ptr = a.ptr
        /\ b.line_in_block = a.line_in_block /\ b.max_line_in_block = a.max_line_in_block
    BY <1>16, <2>2 DEF Iterator, SameRow
  <2> HIDE DEF b
  <2>4. Inside(u, b)
    BY <1>16, <2>3 DEF Inside, Long, SameRow
  <2>5. Inside(u, i) /\ i = [b EXCEPT !.len = i.len, !.screenlen = i.screenlen]
    BY <2>4, UpdateIs
  <2> HIDE DEF i
  <2>6. i.tablestart = b.tablestart /\ i.rowdesc = b.rowdesc /\ i.rowstart = b.rowstart
    BY <2>3, <2>5 DEF Iterator
  <2>7. SameRow(i, it)
    BY <1>16, <2>3, <2>6 DEF SameRow
  <2>8. next(u, it).ok = FALSE /\ next(u, it).it = i
    BY <2>1
  <2>9. QED
    BY <2>7, <2>8
<1>22. QED
  BY <1>19, <1>20, <1>21

-----------------------------------------------------------------------------
(***************************************************************************)
(* The rows of a table, and its first part.                                *)
(***************************************************************************)

(* Iterators that agree in all fields are the same.                        *)
LEMMA SameIterator ==
  ASSUME NEW a \in Iterator, NEW b \in Iterator, SameRow(a, b),
         a.ptr = b.ptr, a.col = b.col, a.len = b.len, a.screenlen = b.screenlen,
         a.max_line_in_block = b.max_line_in_block, a.line_in_block = b.line_in_block,
         a.target_line_in_block = b.target_line_in_block, a.hit_target_line = b.hit_target_line
  PROVE  a = b
BY DEF Iterator, SameRow

(* restartRow() looks at the row only.                                     *)
LEMMA RestartIs ==
  ASSUME NEW it \in Iterator
  PROVE  LET i == restartRow(it)
         IN  /\ i \in Iterator /\ SameRow(i, it) /\ i.ptr = it.rowstart /\ i.col = -1
             /\ i.len = 0 /\ i.screenlen = 0 /\ i.max_line_in_block = 0 /\ i.line_in_block = 0
             /\ i.target_line_in_block = 0 /\ i.hit_target_line = TRUE
<1> DEFINE c == -1
           s == it.rowstart
           a == [it EXCEPT !.ptr = s, !.col = c]
           b == [a EXCEPT !.len = 0, !.screenlen = 0, !.max_line_in_block = 0]
           d == [b EXCEPT !.line_in_block = 0, !.target_line_in_block = 0, !.hit_target_line = TRUE]
<1>1. restartRow(it) = d
  BY DEF restartRow
<1>2. c \in Int /\ c = -1 /\ s \in Nat
  BY DEF Iterator
<1> HIDE DEF c, s
<1>3. a \in Iterator /\ SameRow(a, it) /\ a.ptr = s /\ a.col = c
  BY <1>2 DEF Iterator, SameRow
<1> HIDE DEF a
<1>4. /\ b \in Iterator /\ SameRow(b, a) /\ b.ptr = a.ptr /\ b.col = a.col
      /\ b.len = 0 /\ b.screenlen = 0 /\ b.max_line_in_block = 0
  BY <1>3 DEF Iterator, SameRow
<1> HIDE DEF b
<1>5. /\ d \in Iterator /\ SameRow(d, b) /\ d.ptr = b.ptr /\ d.col = b.col
      /\ d.len = b.len /\ d.screenlen = b.screenlen /\ d.max_line_in_block = b.max_line_in_block
      /\ d.line_in_block = 0 /\ d.target_line_in_block = 0 /\ d.hit_target_line = TRUE
  BY <1>4 DEF Iterator, SameRow
<1> HIDE DEF d
<1>6. SameRow(d, it)
  BY <1>3, <1>4, <1>5 DEF SameRow
<1>7. QED
  BY <1>1, <1>2, <1>3, <1>4, <1>5, <1>6 DEF s

LEMMA RestartSame ==
  ASSUME NEW a \in Iterator, NEW b \in Iterator, SameRow(a, b)
  PROVE  restartRow(a) = restartRow(b)
<1> DEFINE i == restartRow(a)
           j == restartRow(b)
<1>1. /\ i \in Iterator /\ SameRow(i, a) /\ i.ptr = a.rowstart /\ i.col = -1
      /\ i.len = 0 /\ i.screenlen = 0 /\ i.max_line_in_block = 0 /\ i.line_in_block = 0
      /\ i.target_line_in_block = 0 /\ i.hit_target_line = TRUE
  BY RestartIs
<1>2. /\ j \in Iterator /\ SameRow(j, b) /\ j.ptr = b.rowstart /\ j.col = -1
      /\ j.len = 0 /\ j.screenlen = 0 /\ j.max_line_in_block = 0 /\ j.line_in_block = 0
      /\ j.target_line_in_block = 0 /\ j.hit_target_line = TRUE
  BY RestartIs
<1> HIDE DEF i, j
<1>3. SameRow(i, j) /\ i.ptr = j.ptr
  BY <1>1, <1>2 DEF SameRow
<1>4. i = j
  BY <1>1, <1>2, <1>3, SameIterator
<1>5. QED
  BY <1>4 DEF i, j

(* At the start of the table that begins at t; what the first row is.      *)
Fresh(u, it) ==
    /\ it.ptr = 0 /\ it.rowdesc = it.tablestart
    /\ it.rowstart = IF help(u, it.tablestart) = NoHelp THEN 0 ELSE 1

Start(u, t) ==
    restartRow([LinePartIterator EXCEPT !.tablestart = t, !.rowdesc = t,
                    !.rowstart = IF help(u, t) = NoHelp THEN 0 ELSE 1])

LEMMA FreshIs ==
  ASSUME NEW u, NEW it \in Iterator
  PROVE  LET i == restartTable(u, it)
         IN  Fresh(u, i) /\ i \in Iterator /\ i.tablestart = it.tablestart
<1> DEFINE t == it.tablestart
           r == IF help(u, t) = NoHelp THEN 0 ELSE 1
           j == [it EXCEPT !.rowdesc = t, !.ptr = 0]
           i == [j EXCEPT !.rowstart = r]
<1>1. restartTable(u, it) = i
  BY DEF restartTable
<1>2. t \in Nat /\ r \in Nat
  BY DEF Iterator
<1> HIDE DEF r, t
<1>3. j \in Iterator /\ j.rowdesc = t /\ j.ptr = 0 /\ j.tablestart = it.tablestart
  BY <1>2 DEF Iterator
<1> HIDE DEF j
<1>4. /\ i \in Iterator /\ i.rowdesc = j.rowdesc /\ i.ptr = j.ptr /\ i.tablestart = j.tablestart
      /\ i.rowstart = r
  BY <1>2, <1>3 DEF Iterator
<1> HIDE DEF i
<1>5. QED
  BY <1>1, <1>3, <1>4 DEF Fresh, t, r

LEMMA StartIs ==
  ASSUME NEW u, NEW it \in Iterator, Fresh(u, it)
  PROVE  restartRow(it) = Start(u, it.tablestart)
<1> DEFINE t == it.tablestart
           r == IF help(u, t) = NoHelp THEN 0 ELSE 1
           j == [LinePartIterator EXCEPT !.tablestart = t, !.rowdesc = t]
           i == [j EXCEPT !.rowstart = r]
<1>1. t \in Nat /\ r \in Nat
  BY DEF Iterator
<1>2. LinePartIterator \in Iterator
  <2> DEFINE c == -1
  <2>1. c \in Int
    OBVIOUS
  <2>2. LinePartIterator.col = c
    BY DEF LinePartIterator
  <2> HIDE DEF c
  <2>3. QED
    BY <2>1, <2>2 DEF LinePartIterator, Iterator
<1>3. Start(u, t) = restartRow(i)
  BY DEF Start
<1> HIDE DEF r
<1>4. j \in Iterator /\ j.tablestart = t /\ j.rowdesc = t
  BY <1>1, <1>2 DEF Iterator
<1> HIDE DEF j
<1>5. i \in Iterator /\ i.tablestart = t /\ i.rowdesc = t /\ i.rowstart = r
  BY <1>1, <1>4 DEF Iterator
<1> HIDE DEF i
<1>6. SameRow(it, i)
  BY <1>5 DEF Fresh, SameRow, r
<1>7. QED
  BY <1>3, <1>5, <1>6, RestartSame

(* A row is begun in front of its first part, in the same table.           *)
LEMMA RestartCell ==
  ASSUME NEW u \in Helps, NEW it \in Iterator, it.rowstart <= Long(u, it) + 1, it.rowstart # 0
  PROVE  AtCell(u, restartRow(it))
<1> DEFINE i == restartRow(it)
<1>1. AtText(u, i)
  BY RestartRowIs
<1>2. i.col = -1 /\ i.line_in_block = 0 /\ i.target_line_in_block = 0 /\ i.hit_target_line = TRUE
  BY RestartIs
<1> HIDE DEF i
<1>3. AtCell(u, i)
  BY <1>1, <1>2 DEF AtCell
<1>4. QED
  BY <1>3 DEF i

LEMMA NextRowCell ==
  ASSUME NEW u \in Helps, NEW it, Placed(u, it)
  PROVE  LET r == nextRow(u, it)
         IN  /\ r.it.tablestart = it.tablestart
             /\ r.ok => AtCell(u, r.it) /\ r.it.col = -1 /\ restartRow(r.it) = r.it
             /\ Fresh(u, it) => /\ r.ok = (Start(u, it.tablestart).rowstart # 0)
                                /\ r.it = Start(u, it.tablestart)
<1> DEFINE e == Find(u, it, it.ptr, {NUL, NL})
           r == nextRow(u, it)
<1>1. it \in Iterator /\ it.ptr \in Nat /\ it.rowstart \in Nat /\ it.rowstart <= Long(u, it) + 1
  BY DEF Placed, Iterator
<1>2. e \in Nat /\ Long(u, it) \in Nat /\ e <= Long(u, it) + 1
  BY <1>1, FindIs
<1>3. ASSUME NEW j \in Iterator, j.tablestart = it.tablestart, j.rowstart <= Long(u, j) + 1, j.rowstart # 0
      PROVE  LET i == restartRow(j)
             IN  i.tablestart = it.tablestart /\ AtCell(u, i) /\ i.col = -1 /\ restartRow(i) = i
  <2> DEFINE i == restartRow(j)
  <2>1. AtCell(u, i)
    BY <1>3, RestartCell
  <2>2. i \in Iterator /\ SameRow(i, j) /\ i.col = -1
    BY RestartIs
  <2>3. restartRow(i) = i
    BY <2>2, RestartSame
  <2>4. i.tablestart = it.tablestart
    BY <1>3, <2>2 DEF SameRow
  <2>5. QED
    BY <2>1, <2>2, <2>3, <2>4
<1>4. CASE it.ptr = 0
  <2>1. r.ok = (it.rowstart # 0) /\ r.it = restartRow(it)
    BY <1>4 DEF nextRow
  <2>2. SameRow(restartRow(it), it)
    BY <1>1, RestartIs
  <2>3. r.it.tablestart = it.tablestart /\ r.it.rowstart = it.rowstart
    BY <2>1, <2>2 DEF SameRow
  <2>4. r.ok => AtCell(u, r.it) /\ r.it.col = -1 /\ restartRow(r.it) = r.it
    BY <1>1, <1>3, <2>1
  <2>5. Fresh(u, it) => r.it = Start(u, it.tablestart)
    BY <1>1, <2>1, StartIs
  <2>6. QED
    BY <2>1, <2>3, <2>4, <2>5
<1>5. CASE it.ptr # 0
  <2>0. ~ Fresh(u, it)
    BY <1>5 DEF Fresh
  <2>1. CASE Char(u, it, e) = NL
    <3> DEFINE s == e + 1
               j == [it EXCEPT !.rowstart = s]
    <3>1. r = [ok |-> TRUE, it |-> restartRow(j)]
      BY <1>5, <2>1 DEF nextRow
    <3>2. s \in Nat /\ s # 0 /\ s <= Long(u, it) + 1
      BY <1>2, <2>1 DEF Char, Long, NL, NUL
    <3> HIDE DEF s
    <3>3. j \in Iterator /\ j.rowstart = s /\ j.rowdesc = it.rowdesc /\ j.tablestart = it.tablestart
      BY <1>1, <3>2 DEF Iterator
    <3> HIDE DEF j, r
    <3>4. Long(u, j) = Long(u, it)
      BY <3>3 DEF Long
    <3> DEFINE i == restartRow(j)
    <3>5. i.tablestart = it.tablestart /\ AtCell(u, i) /\ i.col = -1 /\ restartRow(i) = i
      BY <1>3, <3>2, <3>3, <3>4
    <3>6. r.ok = TRUE /\ r.it = i
      BY <3>1
    <3> HIDE DEF i
    <3>7. QED
      BY <2>0, <3>5, <3>6 DEF r
  <2>2. CASE Char(u, it, e) # NL /\ help(u, it.rowdesc + 1) = NoHelp
    <3> DEFINE j == [it EXCEPT !.ptr = e]
    <3>1. r.ok = FALSE /\ r.it = j
      BY <1>5, <2>2 DEF nextRow
    <3>2. j.tablestart = it.tablestart
      BY <1>1 DEF Iterator
    <3>3. QED
      BY <2>0, <3>1, <3>2
  <2>3. CASE Char(u, it, e) # NL /\ help(u, it.rowdesc + 1) # NoHelp
    <3> DEFINE d == it.rowdesc + 1
               j == [it EXCEPT !.rowdesc = d, !.rowstart = 1]
    <3>1. r = [ok |-> TRUE, it |-> restartRow(j)]
      BY <1>5, <2>3 DEF nextRow
    <3>2. d \in Nat
      BY <1>1 DEF Iterator
    <3> HIDE DEF d
    <3>3. j \in Iterator /\ j.rowstart = 1 /\ j.tablestart = it.tablestart
      BY <1>1, <3>2 DEF Iterator
    <3> HIDE DEF j, r
    <3>4. Long(u, j) \in Nat
      BY HelpIs DEF Long
    <3>5. j.rowstart <= Long(u, j) + 1 /\ j.rowstart # 0
      BY <3>3, <3>4
    <3> DEFINE i == restartRow(j)
    <3>6. i.tablestart = it.tablestart /\ AtCell(u, i) /\ i.col = -1 /\ restartRow(i) = i
      BY <1>3, <3>3, <3>5
    <3>7. r.ok = TRUE /\ r.it = i
      BY <3>1
    <3> HIDE DEF i
    <3>8. QED
      BY <2>0, <3>6, <3>7 DEF r
  <2>4. QED
    BY <2>1, <2>2, <2>3
<1>6. QED
  BY <1>4, <1>5

-----------------------------------------------------------------------------
(***************************************************************************)
(* The two passes over a table.  Both start at its first row, and next()   *)
(* and nextRow() give for each part again what they gave before, so the    *)
(* pass that prints meets no part that the search has not met.             *)
(***************************************************************************)

(* The tab stops that column widths cw make.                               *)
Stop(cw, i) ==
    LET sum[n \in 0..i] == IF n = 0 THEN 0 ELSE sum[n - 1] + cw[n - 1] IN sum[i]

Widths == [0..maxcolumns - 1 -> Nat]

LEMMA StopIs ==
  ASSUME NEW cw \in Widths
  PROVE  /\ Stop(cw, 0) = 0
         /\ \A i \in 0..maxcolumns - 1 : Stop(cw, i) \in Nat
         /\ \A i \in 1..maxcolumns - 1 : Stop(cw, i) = Stop(cw, i - 1) + cw[i - 1]
<1>1. maxcolumns \in Nat /\ maxcolumns # 0 /\ cw \in [0..maxcolumns - 1 -> Nat]
  BY UsageAssumption DEF Widths
<1> DEFINE F(i) == CHOOSE f : Sums(cw, i, f)
           v(f, n) == IF n = 0 THEN 0 ELSE f[n - 1] + cw[n - 1]
<1>2. \A i \in 0..maxcolumns - 1 : Stop(cw, i) = F(i)[i]
  BY DEF Stop, Sums
<1>3. ASSUME NEW i \in 0..maxcolumns - 1
      PROVE  /\ Sums(cw, i, F(i)) /\ F(i)[i] \in Nat
             /\ \A n \in 0..i : F(i)[n] = v(F(i), n)
  <2>1. i \in 0..maxcolumns
    BY <1>1
  <2>2. \E f : Sums(cw, i, f)
    BY <1>1, <2>1, SumsExist
  <2>3. Sums(cw, i, F(i))
    BY <2>2
  <2> DEFINE g == F(i)
  <2> HIDE DEF F
  <2>4. g[i] \in Nat
    BY <1>1, <2>1, <2>3, SumsAre
  <2>5. g = [n \in 0..i |-> v(g, n)]
    BY <2>3 DEF Sums
  <2> HIDE DEF v, g
  <2>6. \A n \in 0..i : g[n] = v(g, n)
    BY <2>5
  <2>7. QED
    BY <2>3, <2>4, <2>6 DEF g
<1>4. ASSUME NEW i \in 1..maxcolumns - 1
      PROVE  F(i)[i - 1] = F(i - 1)[i - 1]
  <2> DEFINE h == i - 1
             f == F(i)
             g == F(h)
             T == {n \in 0..h : f[n] = g[n]}
             id == [n \in 0..h |-> n]
  <2>1. h \in Nat /\ h \in 0..maxcolumns - 1 /\ i \in 0..maxcolumns - 1 /\ h \in 0..h /\ i = h + 1
    BY <1>1
  <2>2. /\ \A n \in 0..i : f[n] = v(f, n)
        /\ \A n \in 0..h : g[n] = v(g, n)
    BY <1>3, <2>1
  <2> HIDE DEF F, f, g, h
  <2>3. ASSUME NEW n \in 0..h, \A r \in 0..h : id[r] < id[n] => r \in T
        PROVE  n \in T
    <3>1. n \in 0..i /\ n \in Nat
      BY <2>1
    <3>2. f[n] = v(f, n) /\ g[n] = v(g, n)
      BY <2>2, <3>1
    <3>3. CASE n = 0
      BY <3>2, <3>3
    <3>4. CASE n # 0
      <4>1. n - 1 \in 0..h /\ n - 1 < n
        BY <2>1, <3>1, <3>4
      <4>2. n - 1 \in T
        BY <2>3, <4>1
      <4>3. f[n - 1] = g[n - 1]
        BY <4>2
      <4>4. QED
        BY <3>2, <3>4, <4>3
    <3>5. QED
      BY <3>3, <3>4
  <2> DEFINE D == 0..h
  <2>4. id \in [D -> Nat]
    BY <2>1
  <2>5. \A n \in D : (\A r \in D : id[r] < id[n] => r \in T) => n \in T
    BY <2>3
  <2> HIDE DEF D, T, id
  <2>6. \A n \in D : n \in T
    BY <2>4, <2>5, Descent
  <2>7. h \in T
    BY <2>1, <2>6 DEF D
  <2>8. QED
    BY <2>7 DEF T, f, g, h
<1> HIDE DEF F
<1>5. ASSUME NEW i \in 1..maxcolumns - 1
      PROVE  Stop(cw, i) = Stop(cw, i - 1) + cw[i - 1]
  <2>1. i \in 0..maxcolumns - 1 /\ i - 1 \in 0..maxcolumns - 1 /\ i # 0 /\ i \in 0..i
    BY <1>1
  <2>2. F(i)[i] = F(i)[i - 1] + cw[i - 1]
    BY <1>3, <2>1
  <2>3. F(i)[i - 1] = F(i - 1)[i - 1]
    BY <1>4
  <2>4. Stop(cw, i) = F(i)[i] /\ Stop(cw, i - 1) = F(i - 1)[i - 1]
    BY <1>2, <2>1
  <2>5. QED
    BY <2>2, <2>3, <2>4
<1>6. Stop(cw, 0) = 0
  <2>1. 0 \in 0..maxcolumns - 1 /\ 0 \in 0..0
    BY <1>1
  <2>2. F(0)[0] = 0
    BY <1>3, <2>1
  <2>3. QED
    BY <1>2, <2>1, <2>2
<1>7. \A i \in 0..maxcolumns - 1 : Stop(cw, i) \in Nat
  BY <1>2, <1>3
<1>8. QED
  BY <1>5, <1>6, <1>7

LEMMA NextIsCell ==
  ASSUME NEW u \in Helps, NEW it, AtCell(u, it)
  PROVE  LET n == next(u, it)
         IN  /\ n.ok \in BOOLEAN /\ n.it \in Iterator /\ SameRow(n.it, it)
             /\ n.ok => AtCell(u, n.it) /\ n.it.col >= 0 /\ n.it.col # -1
             /\ it.col = -1 => n.ok /\ n.it.col = 0
             /\ restartRow(n.it) = restartRow(it) /\ AtCell(u, restartRow(it))
             /\ restartRow(it) \in Iterator
<1> DEFINE n == next(u, it)
<1>1. AtText(u, it) /\ it \in Iterator /\ it.rowstart \in 1..Long(u, it) + 1
  BY DEF AtCell, AtText, Inside
<1>2. n.ok \in BOOLEAN /\ AtText(u, n.it) /\ n.it.col >= 0
  BY <1>1, NextIs
<1>3. n.it \in Iterator
  BY <1>2 DEF AtText, Inside
<1>4. n.it.col # -1
  BY <1>2, <1>3 DEF Iterator
<1>5. SameRow(n.it, it) /\ (n.ok => AtCell(u, n.it)) /\ (it.col = -1 => n.ok /\ n.it.col = 0)
  <2>1. CASE it.col = -1
    BY <2>1, FirstCell
  <2>2. CASE it.col # -1
    BY <2>2, NextCell
  <2>3. QED
    BY <2>1, <2>2
<1>6. restartRow(n.it) = restartRow(it)
  BY <1>1, <1>3, <1>5, RestartSame
<1>7. it.rowstart <= Long(u, it) + 1 /\ it.rowstart # 0
  <2>1. Long(u, it) \in Nat
    BY HelpIs DEF Long
  <2>2. QED
    BY <1>1, <2>1
<1>8. AtCell(u, restartRow(it))
  BY <1>1, <1>7, RestartCell
<1>9. restartRow(it) \in Iterator
  BY <1>8 DEF AtCell, AtText, Inside
<1>10. QED
  BY <1>2, <1>3, <1>4, <1>5, <1>6, <1>8, <1>9

-----------------------------------------------------------------------------
(* A width that the threshold left out.                                    *)
Wider(cw, n) == \A i \in 0..maxcolumns - 1 : cw[i] < n

(* Part q counts for the width of its column.                              *)
Counting(u, q) == q.col \in 0..maxcolumns - 1 /\ InTable(q.col, line(q), behind(u, q))

Measured(u, cw, b, q) == Counting(u, q) => q.screenlen <= cw[q.col] \/ q.screenlen >= b
Fitted(u, cw, q)      == Counting(u, q) => q.screenlen <= cw[q.col] \/ Wider(cw, q.screenlen)

(* What comes behind q, in its row or the next, is among P.                *)
Goes(u, q, P) ==
    LET n == next(u, q)
        r == nextRow(u, n.it)
    IN  IF n.ok THEN n.it \in P ELSE r.ok => r.it \in P

Begun(u, t, P) == Start(u, t).rowstart # 0 => Start(u, t) \in P

(* P are the parts of table t that a turn of the search has met, p last.   *)
Seen(u, t, cw, b, p, P) ==
    /\ P \subseteq Iterator /\ Begun(u, t, P) /\ p \in P
    /\ \A q \in P : Measured(u, cw, b, q) /\ restartRow(q) \in P /\ (q # p => Goes(u, q, P))

(* P has all parts of table t, and the widths cw fit them.                 *)
Complete(u, t, cw, P) ==
    /\ P \subseteq Iterator /\ Begun(u, t, P)
    /\ \A q \in P : Fitted(u, cw, q) /\ restartRow(q) \in P /\ Goes(u, q, P)

(* The search is at a part, and where it may be between two rows.          *)
SearchAt(u, cw, b, it) == \E P \in SUBSET Iterator : Seen(u, it.tablestart, cw, b, it, P)
SearchPast(u, cw, b, it) ==
    \/ Fresh(u, it)
    \/ \E p \in Iterator : \E P \in SUBSET Iterator :
          Seen(u, it.tablestart, cw, b, p, P) /\ ~ next(u, p).ok /\ it = next(u, p).it

(* So is the pass that prints.                                             *)
LaidOut(u, cw, t) == \E P \in SUBSET Iterator : Complete(u, t, cw, P)
LaidAt(u, cw, it) == \E P \in SUBSET Iterator : Complete(u, it.tablestart, cw, P) /\ it \in P
LaidPast(u, cw, it) ==
    \E P \in SUBSET Iterator :
        /\ Complete(u, it.tablestart, cw, P)
        /\ Fresh(u, it) \/ \E p \in P : ~ next(u, p).ok /\ it = next(u, p).it

(* A turn of the search meets the first part of a row,                     *)
LEMMA SearchRow ==
  ASSUME NEW u \in Helps, NEW cw, NEW b, NEW it, Placed(u, it), SearchPast(u, cw, b, it),
         nextRow(u, it).ok
  PROVE  SearchAt(u, cw, b, nextRow(u, it).it)
<1> DEFINE r == nextRow(u, it).it
           t == it.tablestart
<1>1. r.tablestart = t /\ AtCell(u, r) /\ r.col = -1 /\ restartRow(r) = r
  BY NextRowCell
<1>2. Fresh(u, it) => Start(u, t).rowstart # 0 /\ r = Start(u, t)
  BY NextRowCell
<1>3. r \in Iterator /\ Measured(u, cw, b, r)
  BY <1>1 DEF AtCell, AtText, Inside, Measured, Counting
<1>4. CASE Fresh(u, it)
  <2> DEFINE P == {r}
  <2>1. Seen(u, t, cw, b, r, P)
    BY <1>1, <1>2, <1>3, <1>4 DEF Seen, Begun
  <2>2. P \in SUBSET Iterator
    BY <1>3
  <2>3. QED
    BY <1>1, <2>1, <2>2 DEF SearchAt
<1>5. CASE ~ Fresh(u, it)
  <2>1. PICK p \in Iterator, P \in SUBSET Iterator :
            Seen(u, t, cw, b, p, P) /\ ~ next(u, p).ok /\ it = next(u, p).it
    BY <1>5 DEF SearchPast
  <2> DEFINE Q == P \cup {r}
  <2>2. \A q \in P : Goes(u, q, Q)
    <3> TAKE q \in P
    <3>1. CASE q # p
      <4>1. Goes(u, q, P)
        BY <2>1, <3>1 DEF Seen
      <4>2. QED
        BY <4>1 DEF Goes
    <3>2. CASE q = p
      BY <2>1, <3>2 DEF Goes
    <3>3. QED
      BY <3>1, <3>2
  <2>3. \A q \in Q : Measured(u, cw, b, q) /\ restartRow(q) \in Q
    BY <1>1, <1>3, <2>1 DEF Seen
  <2>4. Begun(u, t, Q) /\ Q \in SUBSET Iterator
    BY <1>3, <2>1 DEF Seen, Begun
  <2>5. Seen(u, t, cw, b, r, Q)
    BY <2>2, <2>3, <2>4 DEF Seen
  <2>6. QED
    BY <1>1, <2>4, <2>5 DEF SearchAt
<1>6. QED
  BY <1>4, <1>5

(* goes on to the next part of it,                                         *)
LEMMA SearchPart ==
  ASSUME NEW u \in Helps, NEW cw \in Widths, NEW b \in Nat, NEW it, AtCell(u, it),
         SearchAt(u, cw, b, it), next(u, it).ok, NEW cw2 \in Widths,
         \A i \in 0..maxcolumns - 1 : cw[i] <= cw2[i], Measured(u, cw2, b, next(u, it).it)
  PROVE  SearchAt(u, cw2, b, next(u, it).it)
<1> DEFINE n == next(u, it)
           t == it.tablestart
<1>1. n.it \in Iterator /\ n.it.tablestart = t /\ restartRow(n.it) = restartRow(it)
  BY NextIsCell DEF SameRow
<1>2. PICK P \in SUBSET Iterator : Seen(u, t, cw, b, it, P)
  BY DEF SearchAt
<1> DEFINE Q == P \cup {n.it}
<1>3. \A q \in P : Goes(u, q, Q)
  <2> TAKE q \in P
  <2>1. CASE q # it
    <3>1. Goes(u, q, P)
      BY <1>2, <2>1 DEF Seen
    <3>2. QED
      BY <3>1 DEF Goes
  <2>2. CASE q = it
    BY <2>2 DEF Goes
  <2>3. QED
    BY <2>1, <2>2
<1>4. \A q \in Q : Measured(u, cw2, b, q)
  <2>1. ASSUME NEW q \in P PROVE Measured(u, cw2, b, q)
    <3> SUFFICES ASSUME Counting(u, q) PROVE q.screenlen <= cw2[q.col] \/ q.screenlen >= b
      BY DEF Measured
    <3>1. q.screenlen <= cw[q.col] \/ q.screenlen >= b
      BY <1>2 DEF Seen, Measured
    <3>2. q.col \in 0..maxcolumns - 1 /\ q.screenlen \in Nat
      BY DEF Counting, Iterator
    <3>3. cw[q.col] \in Nat /\ cw2[q.col] \in Nat /\ cw[q.col] <= cw2[q.col]
      BY <3>2 DEF Widths
    <3>4. QED
      BY <3>1, <3>2, <3>3
  <2>2. QED
    BY <2>1
<1>5. \A q \in Q : restartRow(q) \in Q
  BY <1>1, <1>2 DEF Seen
<1>6. Begun(u, t, Q) /\ Q \in SUBSET Iterator
  BY <1>1, <1>2 DEF Seen, Begun
<1>7. Seen(u, t, cw2, b, n.it, Q)
  BY <1>3, <1>4, <1>5, <1>6 DEF Seen
<1>8. QED
  BY <1>1, <1>6, <1>7 DEF SearchAt

(* and leaves the row behind its last.                                     *)
LEMMA SearchRowEnds ==
  ASSUME NEW u \in Helps, NEW cw, NEW b, NEW it, AtCell(u, it), SearchAt(u, cw, b, it),
         ~ next(u, it).ok
  PROVE  SearchPast(u, cw, b, next(u, it).it)
<1>1. next(u, it).it.tablestart = it.tablestart
  BY NextIsCell DEF SameRow
<1>2. it \in Iterator
  BY DEF AtCell, AtText, Inside
<1>3. QED
  BY <1>1, <1>2 DEF SearchAt, SearchPast

(* Behind the last row the widths fit all parts of the table: those left   *)
(* out are wider than any width.                                           *)
LEMMA SearchEnds ==
  ASSUME NEW u \in Helps, NEW cw \in Widths, NEW b \in Nat, b >= 1, NEW it, Placed(u, it),
         SearchPast(u, cw, b, it), ~ nextRow(u, it).ok,
         \A i \in 0..maxcolumns - 1 : cw[i] = 0 \/ cw[i] < b
  PROVE  LaidOut(u, cw, nextRow(u, it).it.tablestart)
<1> DEFINE t == it.tablestart
<1>1. nextRow(u, it).it.tablestart = t
  BY NextRowCell
<1>2. CASE Fresh(u, it)
  <2>1. Start(u, t).rowstart = 0
    BY <1>2, NextRowCell
  <2>2. Complete(u, t, cw, {})
    BY <2>1 DEF Complete, Begun
  <2>3. QED
    BY <1>1, <2>2 DEF LaidOut
<1>3. CASE ~ Fresh(u, it)
  <2>1. PICK p \in Iterator, P \in SUBSET Iterator :
            Seen(u, t, cw, b, p, P) /\ ~ next(u, p).ok /\ it = next(u, p).it
    BY <1>3 DEF SearchPast
  <2>2. \A q \in P : Goes(u, q, P)
    <3> TAKE q \in P
    <3>1. CASE q # p
      BY <2>1, <3>1 DEF Seen
    <3>2. CASE q = p
      BY <2>1, <3>2 DEF Goes
    <3>3. QED
      BY <3>1, <3>2
  <2>3. ASSUME NEW q \in P PROVE Fitted(u, cw, q)
    <3> SUFFICES ASSUME Counting(u, q), ~ (q.screenlen <= cw[q.col]) PROVE Wider(cw, q.screenlen)
      BY DEF Fitted
    <3>1. q.screenlen >= b /\ q.screenlen \in Nat
      BY <2>1 DEF Seen, Measured, Iterator
    <3>2. \A i \in 0..maxcolumns - 1 : cw[i] \in Nat
      BY DEF Widths
    <3>3. QED
      BY <3>1, <3>2 DEF Wider
  <2>4. Complete(u, t, cw, P)
    BY <2>1, <2>2, <2>3 DEF Complete, Seen
  <2>5. QED
    BY <1>1, <2>4 DEF LaidOut
<1>4. QED
  BY <1>2, <1>3

(* The pass that prints meets these parts only.                            *)
LEMMA LaidStarts ==
  ASSUME NEW u, NEW cw, NEW it, Fresh(u, it), LaidOut(u, cw, it.tablestart)
  PROVE  LaidPast(u, cw, it)
BY DEF LaidOut, LaidPast

LEMMA LaidRow ==
  ASSUME NEW u \in Helps, NEW cw, NEW it, Placed(u, it), LaidPast(u, cw, it), nextRow(u, it).ok
  PROVE  LaidAt(u, cw, nextRow(u, it).it)
<1> DEFINE r == nextRow(u, it).it
           t == it.tablestart
<1>1. PICK P \in SUBSET Iterator :
        /\ Complete(u, t, cw, P)
        /\ Fresh(u, it) \/ \E p \in P : ~ next(u, p).ok /\ it = next(u, p).it
  BY DEF LaidPast
<1>2. r.tablestart = t
  BY NextRowCell
<1>3. r \in P
  <2>1. CASE Fresh(u, it)
    <3>1. Start(u, t).rowstart # 0 /\ r = Start(u, t)
      BY <2>1, NextRowCell
    <3>2. QED
      BY <1>1, <3>1 DEF Complete, Begun
  <2>2. CASE ~ Fresh(u, it)
    <3>1. PICK p \in P : ~ next(u, p).ok /\ it = next(u, p).it
      BY <1>1, <2>2
    <3>2. Goes(u, p, P)
      BY <1>1 DEF Complete
    <3>3. QED
      BY <3>1, <3>2 DEF Goes
  <2>3. QED
    BY <2>1, <2>2
<1>4. QED
  BY <1>1, <1>2, <1>3 DEF LaidAt

LEMMA LaidPart ==
  ASSUME NEW u \in Helps, NEW cw, NEW it, AtCell(u, it), LaidAt(u, cw, it)
  PROVE  LET n == next(u, it)
         IN  /\ n.ok => LaidAt(u, cw, n.it)
             /\ ~ n.ok => LaidPast(u, cw, n.it)
             /\ LaidAt(u, cw, restartRow(n.it)) /\ Fitted(u, cw, it)
<1> DEFINE n == next(u, it)
           t == it.tablestart
           s == restartRow(n.it)
<1>1. PICK P \in SUBSET Iterator : Complete(u, t, cw, P) /\ it \in P
  BY DEF LaidAt
<1>2. n.it \in Iterator /\ n.it.tablestart = t /\ s = restartRow(it)
  BY NextIsCell DEF SameRow
<1>3. s.tablestart = t
  BY <1>2, RestartIs DEF SameRow
<1>4. s \in P /\ Fitted(u, cw, it) /\ Goes(u, it, P)
  BY <1>1, <1>2 DEF Complete
<1>5. n.ok => n.it \in P
  BY <1>4 DEF Goes
<1>6. n.ok => LaidAt(u, cw, n.it)
  BY <1>1, <1>2, <1>5 DEF LaidAt
<1>7. ~ n.ok => LaidPast(u, cw, n.it)
  BY <1>1, <1>2 DEF LaidPast
<1>8. LaidAt(u, cw, s)
  BY <1>1, <1>3, <1>4 DEF LaidAt
<1>9. QED
  BY <1>4, <1>6, <1>7, <1>8

-----------------------------------------------------------------------------
(***************************************************************************)
(* The second inductive invariant: the widths fit the parts of the table,  *)
(* and the cursor is where the code thinks it is, or the code thinks that  *)
(* it is where no column ends.                                             *)
(***************************************************************************)

(* OfLeft, of any part.                                                    *)
LeftOf(u, it, l) == it.col < l /\ InTable(it.col, line(it), behind(u, it))

(* The cursor is n columns behind tab stop c.  The code thinks so too, or, *)
(* as indent() to column 0 moves the cursor and leaves its x, it has an x  *)
(* that is more than the width of any column.                              *)
Synced(cw, c, n, a, o) ==
    /\ Cursor(o) = Stop(cw, c) + n /\ a >= 0
    /\ a = Cursor(o) \/ (Stop(cw, c) = 0 /\ Wider(cw, a))

InCells == {"part", "put", "wrap", "own"}

Cellular == pc \in {"width part"} \cup InCells => AtCell(usage, part)

Searching ==
    /\ pc \in {"widths", "width row", "width part"} => overlong_column_threshold >= 1
    /\ pc = "width row" => SearchPast(usage, col_width, overlong_column_threshold, part)
    /\ pc = "width part" => SearchAt(usage, col_width, overlong_column_threshold, part)

Known ==
    /\ pc = "layout" => LaidOut(usage, col_width, part.tablestart)
    /\ pc \in InCells => LaidAt(usage, col_width, part)
    /\ pc \in {"row", "flush", "line"} => LaidPast(usage, col_width, part)

Tracked ==
    /\ pc \notin InCells \cup {"line"} => Cursor(out) = 0
    /\ pc = "part" =>
          IF part.col = -1 THEN x = -1 /\ Cursor(out) = 0
          ELSE /\ x >= 0
               /\ LeftOf(usage, part, lastcolumn) => Synced(col_width, part.col, part.screenlen, x, out)
    /\ pc = "put" => part.col \in 0..lastcolumn /\ Synced(col_width, part.col, 0, x, out)
    /\ pc = "wrap" =>
          /\ part.col # -1
          /\ \/ print_last_column_on_own_line /\ lineWrapper = "last"
             \/ x >= 0 /\ ~ LeftOf(usage, part, lastcolumn)
    /\ pc = "own" => print_last_column_on_own_line

Hung ==
    (pc \in {"row", "flush", "line"} \cup InCells /\ lastcolumn > 0 /\ ~ print_last_column_on_own_line)
        => wrapper["last"].x = Stop(col_width, lastcolumn)

Laid == Cellular /\ Searching /\ Known /\ Tracked /\ Hung

LEMMA LaidInit == Init => Laid
<1> SUFFICES ASSUME Init PROVE Laid
  OBVIOUS
<1>1. pc = "table" /\ out = << >>
  BY DEF Init
<1>2. QED
  BY <1>1, CursorStarts DEF Laid, Cellular, Searching, Known, Tracked, Hung, InCells

LEMMA ThresholdPositive ==
  ASSUME Sane, measured, pc' = "widths"
  PROVE  overlong_column_threshold' >= 1
<1> DEFINE S == {col_width[i] : i \in 0..lastcolumn - 1} \cup {0}
           m == Max(S)
<1>1. /\ col_width \in [0..maxcolumns - 1 -> Nat] /\ lastcolumn \in 0..maxcolumns - 1
      /\ maxcolumns \in Nat
  BY UsageAssumption DEF Sane, Sizes
<1>2. \A i \in 0..lastcolumn - 1 : i \in 0..maxcolumns - 1
  BY <1>1
<1>3. S \in SUBSET Nat /\ S # {}
  BY <1>1, <1>2
<1>4. \E y \in Nat : \A z \in S : z <= y
  <2>1. overlong_column_threshold \in Nat
    BY DEF Sane, Sizes
  <2>2. \A i \in 0..maxcolumns - 1 : col_width[i] = 0 \/ col_width[i] < overlong_column_threshold
    BY DEF Sane, Narrowing, measured
  <2>3. \A z \in S : z <= overlong_column_threshold
    BY <1>1, <1>2, <2>1, <2>2
  <2>4. QED
    BY <2>1, <2>3
<1>5. m \in S /\ \A y \in S : m >= y
  BY <1>3, <1>4, MaxIs
<1>6. overlong_column_threshold' = m /\ tabstop(lastcolumn) > Width
  BY DEF measured
<1> HIDE DEF m
<1>7. Width \in Int /\ Width >= 1
  BY WidthIs DEF Sane
<1>8. tabstop(lastcolumn) \in Nat
  BY <1>1, TabstopIs
<1>9. PICK j \in 0..lastcolumn - 1 : col_width[j] > 0
  <2>1. tabstop(lastcolumn) > 0
    BY <1>6, <1>7, <1>8
  <2>2. QED
    BY <1>1, <2>1, TabstopIs
<1>10. m >= col_width[j] /\ col_width[j] \in Nat /\ m \in Nat
  BY <1>1, <1>2, <1>3, <1>5
<1>11. QED
  BY <1>6, <1>9, <1>10

(* A table begins, and each turn of the search for its widths.             *)
LEMMA TurnLaid ==
  ASSUME Sane, Laid, next_table \/ restart
  PROVE  Laid'
<1>1. out' = out /\ usage' = usage /\ pc \notin InCells \cup {"line"}
  <2>1. CASE next_table
    BY <2>1 DEF next_table, input, InCells
  <2>2. CASE restart
    BY <2>2 DEF restart, input, InCells
  <2>3. QED
    BY <2>1, <2>2
<1>2. Cursor(out') = 0
  BY <1>1 DEF Laid, Tracked
<1>3. CASE next_table
  <2>1. pc' \in {"widths", "done"} /\ overlong_column_threshold' = 10000
    BY <1>3 DEF next_table
  <2>2. pc' \notin InCells \cup {"line", "layout", "row", "flush", "width row", "width part"}
    BY ONLY <2>1 DEF InCells
  <2>3. overlong_column_threshold' >= 1
    BY <2>1
  <2>4. QED
    BY <1>2, <2>2, <2>3 DEF Laid, Cellular, Searching, Known, Tracked, Hung, InCells
<1>4. CASE restart
  <2>1. /\ pc' = "width row" /\ pc = "widths" /\ part' = restartTable(usage, part)
        /\ overlong_column_threshold' = overlong_column_threshold
    BY <1>4 DEF restart
  <2>2. overlong_column_threshold' >= 1
    BY <2>1 DEF Laid, Searching
  <2>3. part \in Iterator
    BY DEF Sane, InPlace, Placed
  <2>4. Fresh(usage', part')
    BY <1>1, <2>1, <2>3, FreshIs
  <2>5. SearchPast(usage', col_width', overlong_column_threshold', part')
    BY <2>4 DEF SearchPast
  <2>6. QED
    BY <1>2, <2>1, <2>2, <2>5 DEF Laid, Cellular, Searching, Known, Tracked, Hung, InCells
<1>5. QED
  BY <1>3, <1>4

LEMMA RowLaid ==
  ASSUME Sane, Laid, measure_row \/ next_row
  PROVE  Laid'
<1> DEFINE r == nextRow(usage, part)
<1>1. /\ out' = out /\ usage' = usage /\ part' = r.it /\ wrapper' = wrapper
      /\ overlong_column_threshold' = overlong_column_threshold /\ col_width' = col_width
      /\ lastcolumn' = lastcolumn /\ pc \notin InCells \cup {"line"}
      /\ print_last_column_on_own_line' = print_last_column_on_own_line
  BY DEF measure_row, next_row, input, layout_vars, lines, InCells
<1>2. usage \in Helps /\ Placed(usage, part)
  BY DEF Sane, Given, InPlace
<1>3. r.ok => AtCell(usage, r.it) /\ r.it.col = -1
  BY <1>2, NextRowCell
<1>4. Cursor(out') = 0
  BY <1>1 DEF Laid, Tracked
<1>5. CASE measure_row
  <2>1. pc = "width row" /\ pc' = "width part" /\ r.ok
    BY <1>5 DEF measure_row
  <2>2. /\ overlong_column_threshold >= 1
        /\ SearchPast(usage, col_width, overlong_column_threshold, part)
    BY <2>1 DEF Laid, Searching
  <2>3. SearchAt(usage, col_width, overlong_column_threshold, r.it)
    BY <1>2, <2>1, <2>2, SearchRow
  <2> HIDE DEF r
  <2>4. QED
    BY <1>1, <1>3, <1>4, <2>1, <2>2, <2>3
       DEF Laid, Cellular, Searching, Known, Tracked, Hung, InCells
<1>6. CASE next_row
  <2>1. pc = "row" /\ (IF r.ok THEN pc' = "part" /\ x' = -1 ELSE pc' = "table")
    BY <1>6 DEF next_row
  <2>2. LaidPast(usage, col_width, part)
    BY <2>1 DEF Laid, Known
  <2>3. r.ok => LaidAt(usage, col_width, r.it)
    BY <1>2, <2>2, LaidRow
  <2>4. lastcolumn > 0 /\ ~ print_last_column_on_own_line =>
            wrapper["last"].x = Stop(col_width, lastcolumn)
    BY <2>1 DEF Laid, Hung
  <2> HIDE DEF r
  <2>5. CASE r.ok
    BY <1>1, <1>3, <1>4, <2>1, <2>3, <2>4, <2>5
       DEF Laid, Cellular, Searching, Known, Tracked, Hung, InCells
  <2>6. CASE ~ r.ok
    BY <1>4, <2>1, <2>6 DEF Laid, Cellular, Searching, Known, Tracked, Hung, InCells
  <2>7. QED
    BY <2>5, <2>6
<1>7. QED
  BY <1>5, <1>6

LEMMA MeasureLaid ==
  ASSUME Sane, Laid, measure
  PROVE  Laid'
<1> DEFINE n == next(usage, part)
           c == n.it.col
           b == overlong_column_threshold
           cw == col_width'
<1>1. /\ out' = out /\ usage' = usage /\ part' = n.it /\ b' = b /\ pc = "width part"
  BY DEF measure, input
<1>2. /\ usage \in Helps /\ AtCell(usage, part) /\ b >= 1 /\ b \in Nat /\ Cursor(out) = 0
      /\ SearchAt(usage, col_width, b, part) /\ col_width \in Widths
  BY <1>1 DEF Sane, Given, Sizes, Laid, Cellular, Searching, Tracked, InCells, Widths
<1>3. n.ok => AtCell(usage, n.it) /\ n.it \in Iterator
  BY <1>2, NextIsCell
<1>4. CASE ~ n.ok
  <2>1. pc' = "width row" /\ col_width' = col_width
    BY <1>4 DEF measure
  <2>2. SearchPast(usage, col_width, b, n.it)
    BY <1>2, <1>4, SearchRowEnds
  <2> HIDE DEF n
  <2>3. QED
    BY <1>1, <1>2, <2>1, <2>2 DEF Laid, Cellular, Searching, Known, Tracked, Hung, InCells
<1>5. CASE n.ok
  <2>1. /\ pc' = pc
        /\ cw = IF Counts(n.it) THEN [col_width EXCEPT ![c] = upmax(@, n.it.screenlen)]
                ELSE col_width
    BY <1>5 DEF measure, column
  <2>2. /\ cw \in Widths /\ (\A i \in 0..maxcolumns - 1 : col_width[i] <= cw[i])
        /\ Measured(usage, cw, b, n.it)
    <3> DEFINE it == n.it
               s == it.screenlen
    <3>1. it \in Iterator /\ s \in Nat /\ c \in Int /\ maxcolumns \in Nat
      BY <1>3, <1>5, UsageAssumption DEF Iterator
    <3>2. /\ \A i \in 0..maxcolumns - 1 : col_width[i] \in Nat
          /\ DOMAIN col_width = 0..maxcolumns - 1
      BY <1>2 DEF Widths
    <3>3. CASE Counts(it)
      <4>1. it.col < maxcolumns /\ s < b /\ c >= 0
        <5>1. c >= 0
          BY <1>2, <1>5, NextIsCell
        <5>2. QED
          BY <3>3, <5>1 DEF Counts
      <4>2. c \in 0..maxcolumns - 1
        BY <3>1, <4>1
      <4> DEFINE m == upmax(col_width[c], s)
      <4>3. m \in Nat /\ m >= col_width[c] /\ m >= s
        BY <3>1, <3>2, <4>2 DEF upmax
      <4>4. cw = [col_width EXCEPT ![c] = m]
        BY <2>1, <3>3
      <4> HIDE DEF m, s, c, it, cw
      <4>5. cw \in Widths /\ cw[c] = m /\ \A i \in 0..maxcolumns - 1 : i # c => cw[i] = col_width[i]
        BY <1>2, <4>2, <4>3, <4>4 DEF Widths
      <4>6. \A i \in 0..maxcolumns - 1 : col_width[i] <= cw[i]
        BY <3>2, <4>3, <4>5
      <4>7. s <= cw[c]
        BY <4>3, <4>5
      <4>8. QED
        BY <4>5, <4>6, <4>7 DEF Measured, s, c, it
    <3>4. CASE ~ Counts(it)
      <4>1. cw = col_width
        BY <2>1, <3>4
      <4>2. \A i \in 0..maxcolumns - 1 : col_width[i] <= cw[i]
        BY <3>2, <4>1
      <4>3. Measured(usage, cw, b, it)
        <5> SUFFICES ASSUME Counting(usage, it) PROVE s >= b
          BY DEF Measured
        <5>1. c < maxcolumns /\ InTable(c, line(it), behind(usage, it))
          BY <3>1 DEF Counting
        <5>2. ~ (s < b)
          BY <3>4, <5>1 DEF Counts
        <5>3. QED
          BY <1>2, <3>1, <5>2
      <4>4. QED
        BY <1>2, <4>1, <4>2, <4>3
    <3>5. QED
      BY <3>3, <3>4
  <2>3. SearchAt(usage, cw, b, n.it)
    BY <1>2, <1>5, <2>2, SearchPart
  <2> HIDE DEF n
  <2>4. QED
    BY <1>1, <1>2, <1>3, <1>5, <2>1, <2>3
       DEF Laid, Cellular, Searching, Known, Tracked, Hung, InCells
<1>6. QED
  BY <1>4, <1>5

LEMMA MeasuredLaid ==
  ASSUME Sane, Laid, measured
  PROVE  Laid'
<1> DEFINE r == nextRow(usage, part)
           b == overlong_column_threshold
<1>1. /\ out' = out /\ usage' = usage /\ part' = r.it /\ col_width' = col_width
      /\ pc = "width row" /\ ~ r.ok /\ pc' \in {"widths", "layout"}
  BY DEF measured, input
<1>2. /\ usage \in Helps /\ Placed(usage, part) /\ b >= 1 /\ b \in Nat /\ Cursor(out) = 0
      /\ SearchPast(usage, col_width, b, part) /\ col_width \in Widths
      /\ \A i \in 0..maxcolumns - 1 : col_width[i] = 0 \/ col_width[i] < b
  BY <1>1 DEF Sane, Given, InPlace, Sizes, Narrowing, Laid, Searching, Tracked, InCells, Widths
<1>3. LaidOut(usage, col_width, r.it.tablestart)
  BY <1>1, <1>2, SearchEnds
<1>4. pc' = "widths" => overlong_column_threshold' >= 1
  BY ThresholdPositive
<1> HIDE DEF r, b
<1>5. QED
  BY <1>1, <1>2, <1>3, <1>4 DEF Laid, Cellular, Searching, Known, Tracked, Hung, InCells

(* The last column hangs from its tab stop.                                *)
LEMMA LayoutLaid ==
  ASSUME Sane, Laid, layout
  PROVE  Laid'
<1> DEFINE t == Stop(col_width, lastcolumn)
           last == LineWrapper(Width - rightwidth', Width)
<1>1. /\ out' = out /\ usage' = usage /\ part' = restartTable(usage, part) /\ col_width' = col_width
      /\ pc = "layout" /\ pc' = "row" /\ lastcolumn' = lastcolumn /\ wrapper'["last"] = last
  BY DEF layout, input, Wrappers
<1>2. /\ part \in Iterator /\ Cursor(out) = 0 /\ LaidOut(usage, col_width, part.tablestart)
      /\ col_width \in Widths /\ lastcolumn \in 0..maxcolumns - 1
  BY <1>1 DEF Sane, InPlace, Placed, Sizes, Laid, Known, Tracked, InCells, Widths
<1>3. Fresh(usage, part') /\ part'.tablestart = part.tablestart
  BY <1>1, <1>2, FreshIs
<1>4. LaidPast(usage, col_width, part')
  BY <1>2, <1>3, LaidStarts
<1>5. ASSUME lastcolumn > 0, ~ print_last_column_on_own_line'
      PROVE  last.x = t
  <2>1. tabstop(lastcolumn) = t
    BY DEF tabstop, Stop
  <2>2. rightwidth' = Width - t
    <3>1. lastcolumn # 0
      BY <1>2, <1>5
    <3>2. QED
      BY <1>5, <2>1, <3>1 DEF layout
  <2>3. Width \in Int /\ t \in Nat
    BY <1>2, WidthIs, StopIs DEF Sane
  <2>4. last.x = Width - rightwidth'
    BY DEF LineWrapper
  <2> HIDE DEF t, last
  <2>5. QED
    BY <2>2, <2>3, <2>4
<1> HIDE DEF t, last
<1>6. QED
  BY <1>1, <1>2, <1>4, <1>5 DEF Laid, Cellular, Searching, Known, Tracked, Hung, InCells, t

Printing == {"row", "flush", "line"} \cup InCells

(* The steps of the pass that prints.                                      *)
Steady ==
    /\ pc \in Printing /\ pc' \in Printing
    /\ usage' = usage /\ col_width' = col_width /\ lastcolumn' = lastcolumn
    /\ print_last_column_on_own_line' = print_last_column_on_own_line
    /\ wrapper'["last"].x = wrapper["last"].x

LEMMA SteadyLaid ==
  ASSUME Laid, Steady
  PROVE  Searching' /\ Hung'
<1>1. Searching'
  <2>1. pc' \notin {"widths", "width row", "width part"}
    BY DEF Steady, Printing, InCells
  <2>2. QED
    BY <2>1 DEF Searching
<1>2. Hung'
  BY DEF Laid, Hung, Steady, Printing
<1>3. QED
  BY <1>1, <1>2

(* A wrapper keeps its place.                                              *)
LEMMA PlaceKept ==
  ASSUME NEW w, Buffer(w), NEW d
  PROVE  LET n == IF buf_full(w) THEN line_written(w) ELSE w
         IN  buf_store(n, d).x = w.x /\ line_written(w).x = w.x
<1>1. /\ w = [buf |-> w.buf, x |-> w.x, width |-> w.width, head |-> w.head, tail |-> w.tail,
              wrote_something |-> w.wrote_something]
  BY DEF Buffer
<1>2. line_written(w).x = w.x /\ \E a : line_written(w) =
              [buf |-> w.buf, x |-> w.x, width |-> w.width, head |-> w.head, tail |-> a,
              wrote_something |-> TRUE]
  <2>1. CASE buf_empty(w)
    <3>1. line_written(w) = [w EXCEPT !.wrote_something = TRUE]
      BY <2>1 DEF line_written
    <3> DEFINE a == w.tail
    <3>2. w = [buf |-> w.buf, x |-> w.x, width |-> w.width, head |-> w.head, tail |-> a,
              wrote_something |-> w.wrote_something]
      BY <1>1
    <3> HIDE DEF a
    <3>3. QED
      BY <3>1, <3>2
  <2>2. CASE ~ buf_empty(w)
    <3>1. line_written(w) = [buf_next(w) EXCEPT !.wrote_something = TRUE]
      BY <2>2 DEF line_written
    <3> DEFINE a == After(w.tail)
    <3>2. buf_next(w) = [w EXCEPT !.tail = a]
      BY DEF buf_next
    <3> HIDE DEF a
    <3>3. QED
      BY <1>1, <3>1, <3>2
  <2>3. QED
    BY <2>1, <2>2
<1> DEFINE n == IF buf_full(w) THEN line_written(w) ELSE w
<1>3. n.x = w.x /\ \E a, b : n =
              [buf |-> w.buf, x |-> w.x, width |-> w.width, head |-> w.head, tail |-> a,
              wrote_something |-> b]
  BY <1>1, <1>2
<1>4. PICK k : k = n
  OBVIOUS
<1>5. buf_store(k, d).x = k.x
  <2>1. PICK a, b : k = [buf |-> w.buf, x |-> w.x, width |-> w.width, head |-> w.head, tail |-> a,
              wrote_something |-> b]
    BY <1>3, <1>4
  <2>2. QED
    BY <2>1 DEF buf_store
<1>6. QED
  BY <1>2, <1>3, <1>4, <1>5

LEMMA StillHung ==
  ASSUME Sane, NEW v, v.x = W.x, wrapper' = [wrapper EXCEPT ![lineWrapper] = v]
  PROVE  wrapper'["last"].x = wrapper["last"].x
<1>1. PICK r, l : r = wrapper /\ l = lineWrapper
  OBVIOUS
<1>2. l \in Wrappers /\ DOMAIN r = Wrappers /\ W = r[l] /\ "last" \in Wrappers
  BY <1>1 DEF Sane, Texts, Buffers, W, Wrappers
<1>3. wrapper' = [r EXCEPT ![l] = v]
  BY <1>1
<1>4. [r EXCEPT ![l] = v]["last"] = IF l = "last" THEN v ELSE r["last"]
  BY <1>2
<1>5. QED
  BY <1>1, <1>2, <1>3, <1>4

LEMMA BegunHung ==
  ASSUME Sane, NEW l \in Wrappers, wrapper' = [wrapper EXCEPT ![l].wrote_something = FALSE]
  PROVE  wrapper'["last"].x = wrapper["last"].x
<1>1. PICK r : r = wrapper
  OBVIOUS
<1>2. Buffers(r) /\ "last" \in Wrappers
  BY <1>1 DEF Sane, Texts, Wrappers
<1> DEFINE v == [r[l] EXCEPT !.wrote_something = FALSE]
<1>3. wrapper' = [r EXCEPT ![l] = v]
  BY <1>1
<1>4. v.x = r[l].x
  BY <1>2 DEF Buffers, Buffer
<1> HIDE DEF v
<1>5. [r EXCEPT ![l] = v]["last"] = IF l = "last" THEN v ELSE r["last"]
  BY <1>2 DEF Buffers
<1>6. QED
  BY <1>1, <1>3, <1>4, <1>5

(* At a part of a row that is printed.                                     *)
LEMMA InCell ==
  ASSUME Sane, Laid, pc \in InCells
  PROVE  LET n == next(usage, part)
         IN  /\ usage \in Helps /\ AtCell(usage, part) /\ n.it \in Iterator /\ SameRow(n.it, part)
             /\ LaidAt(usage, col_width, part) /\ Fitted(usage, col_width, part)
             /\ n.ok => AtCell(usage, n.it) /\ n.it.col \in Nat /\ LaidAt(usage, col_width, n.it)
             /\ ~ n.ok => LaidPast(usage, col_width, n.it)
             /\ AtCell(usage, restartRow(n.it)) /\ LaidAt(usage, col_width, restartRow(n.it))
             /\ part.col = -1 => n.ok /\ n.it.col = 0
             /\ part \in Iterator /\ part.screenlen \in Nat /\ part.col \in Int /\ part.col >= -1
             /\ x \in Int /\ out \in Text /\ lastcolumn \in 0..maxcolumns - 1 /\ lastcolumn \in Nat
             /\ col_width \in Widths
<1> DEFINE n == next(usage, part)
<1>1. /\ usage \in Helps /\ AtCell(usage, part) /\ LaidAt(usage, col_width, part)
      /\ x \in Int /\ out \in Text /\ lastcolumn \in 0..maxcolumns - 1 /\ col_width \in Widths
  BY DEF Sane, Given, Texts, Sizes, Laid, Cellular, Known, Widths
<1>2. /\ n.it \in Iterator /\ SameRow(n.it, part)
      /\ n.ok => AtCell(usage, n.it) /\ n.it.col >= 0
      /\ part.col = -1 => n.ok /\ n.it.col = 0
      /\ restartRow(n.it) = restartRow(part) /\ AtCell(usage, restartRow(part))
  BY <1>1, NextIsCell
<1>3. /\ n.ok => LaidAt(usage, col_width, n.it)
      /\ ~ n.ok => LaidPast(usage, col_width, n.it)
      /\ LaidAt(usage, col_width, restartRow(n.it)) /\ Fitted(usage, col_width, part)
  BY <1>1, LaidPart
<1>4. part \in Iterator /\ part.screenlen \in Nat /\ part.col \in Int /\ part.col >= -1
  BY <1>1 DEF AtCell, AtText, Inside, Iterator
<1>5. n.ok => n.it.col \in Nat
  <2>1. n.it.col \in Int
    BY <1>2 DEF Iterator
  <2>2. QED
    BY <1>2, <2>1
<1>6. lastcolumn \in Nat
  BY <1>1, UsageAssumption
<1> HIDE DEF n
<1>7. QED
  BY <1>1, <1>2, <1>3, <1>4, <1>5, <1>6 DEF n

LEMMA SkipLaid ==
  ASSUME Sane, Laid, drop_column \/ postpone
  PROVE  Laid'
<1> DEFINE n == next(usage, part)
<1>1. Steady /\ x' = x /\ out' = out /\ pc \in InCells /\ pc' = "part" /\ usage' = usage
      /\ col_width' = col_width /\ lastcolumn' = lastcolumn
  <2>1. CASE drop_column
    BY <2>1 DEF drop_column, Steady, input, layout_vars, lines, Printing, InCells
  <2>2. CASE postpone
    BY <2>2 DEF postpone, Steady, input, layout_vars, lines, Printing, InCells
  <2>3. QED
    BY <2>1, <2>2
<1>2. Searching' /\ Hung'
  BY <1>1, SteadyLaid
<1>3. CASE drop_column
  <2>1. pc = "part" /\ part' = n.it /\ n.ok /\ n.it.col > lastcolumn
    BY <1>3 DEF drop_column, column
  <2>2. /\ AtCell(usage, n.it) /\ LaidAt(usage, col_width, n.it) /\ n.it.col \in Nat
        /\ lastcolumn \in Nat /\ (part.col = -1 => n.it.col = 0)
    BY <1>1, <2>1, InCell
  <2>3. part.col # -1 /\ n.it.col # -1 /\ ~ (n.it.col < lastcolumn)
    BY <2>1, <2>2
  <2>4. x >= 0
    BY <2>1, <2>3 DEF Laid, Tracked
  <2> HIDE DEF n
  <2>5. Tracked'
    BY <1>1, <2>1, <2>3, <2>4 DEF Tracked, LeftOf, InCells
  <2>6. QED
    BY <1>1, <1>2, <2>1, <2>2, <2>5 DEF Laid, Cellular, Known, InCells
<1>4. CASE postpone
  <2>1. pc = "put" /\ ~ OfLeft /\ part' = part
    BY <1>4 DEF postpone
  <2>2. AtCell(usage, part) /\ LaidAt(usage, col_width, part) /\ part.col \in Int /\ lastcolumn \in Nat
    BY <1>1, InCell
  <2>3. part.col \in 0..lastcolumn /\ x >= 0
    BY <2>1 DEF Laid, Tracked, Synced
  <2>4. part.col # -1 /\ ~ LeftOf(usage, part, lastcolumn)
    BY <2>1, <2>2, <2>3 DEF LeftOf, OfLeft, column
  <2>5. Tracked'
    BY <1>1, <2>1, <2>3, <2>4 DEF Tracked, InCells
  <2>6. QED
    BY <1>1, <1>2, <2>1, <2>2, <2>5 DEF Laid, Cellular, Known, InCells
<1>5. QED
  BY <1>3, <1>4

(* The cursor gets to the tab stop of the next part.                       *)
LEMMA IndentSyncs ==
  ASSUME Sane, Laid, indent
  PROVE  /\ next(usage, part).it.col \in 0..lastcolumn
         /\ Synced(col_width, next(usage, part).it.col, 0, x', out')
<1> DEFINE n == next(usage, part)
           c == n.it.col
           cw == col_width
           t == Stop(cw, c)
<1>1. /\ pc = "part" /\ n.ok /\ c <= lastcolumn
      /\ x' = indented(IF c = 0 THEN 0 ELSE x, t)
      /\ out' = out \o (IF c = 0 /\ x >= 0 THEN <<NL>> ELSE << >>)
                    \o indentation(IF c = 0 THEN 0 ELSE x, t)
  <2>1. tabstop(c) = t
    BY DEF tabstop, Stop
  <2>2. QED
    BY <2>1 DEF indent, column
<1>2. /\ usage \in Helps /\ AtCell(usage, part) /\ part.col \in Int /\ part.col >= -1 /\ out \in Text
      /\ cw \in Widths /\ lastcolumn \in 0..maxcolumns - 1 /\ lastcolumn \in Nat /\ x \in Int
      /\ part.screenlen \in Nat /\ c \in Nat /\ Fitted(usage, cw, part)
      /\ (part.col = -1 => c = 0) /\ maxcolumns \in Nat
  BY <1>1, InCell, UsageAssumption DEF InCells
<1>3. c \in 0..lastcolumn /\ c \in 0..maxcolumns - 1 /\ t \in Nat
  <2>1. c \in 0..lastcolumn /\ c \in 0..maxcolumns - 1
    BY <1>1, <1>2
  <2>2. QED
    BY <1>2, <2>1, StopIs
<1>4. CASE c = 0
  <2>1. t = 0
    BY <1>2, <1>4, StopIs
  <2> DEFINE s == IF x >= 0 THEN <<NL>> ELSE << >>
             o == out \o s
  <2>2. o \in Text /\ Cursor(o) = 0
    <3>1. CASE x >= 0
      BY <1>2, <3>1, CursorReturns
    <3>2. CASE ~ (x >= 0)
      <4>1. part.col = -1 /\ Cursor(out) = 0
        BY <1>1, <3>2 DEF Laid, Tracked
      <4>2. out \o << >> = out
        BY <1>2, ConcatEmptySeq DEF Text
      <4>3. QED
        BY <1>2, <3>2, <4>1, <4>2
    <3>3. QED
      BY <3>1, <3>2
  <2>3. out' = o \o indentation(0, 0) /\ x' = indented(0, 0)
    BY <1>1, <1>4, <2>1
  <2> HIDE DEF n, o, t, c
  <2>4. Cursor(o \o indentation(0, 0)) = 0 /\ indented(0, 0) = 0
    BY <2>2, Indented
  <2>5. Cursor(out') = t + 0 /\ x' = 0 /\ x' = Cursor(out')
    BY <2>1, <2>3, <2>4
  <2>6. Synced(cw, c, 0, x', out')
    BY <2>5 DEF Synced, t
  <2>7. QED
    BY <1>3, <2>6 DEF n, c
<1>5. CASE c # 0
  <2> DEFINE p == part.col
             m == part.screenlen
             w == cw[p]
             k == Stop(cw, p)
  <2>1. p # -1 /\ c = p + 1 /\ behind(usage, part) \in {TAB, VT}
    <3>1. p # -1
      BY <1>2, <1>5
    <3>2. c \in {0, p + 1} /\ (behind(usage, part) \notin {TAB, VT} => c = 0)
      BY <1>1, <1>2, <3>1, NextCell
    <3>3. QED
      BY <1>5, <3>1, <3>2
  <2>2. /\ p \in 0..maxcolumns - 1 /\ c \in 1..maxcolumns - 1 /\ p < lastcolumn /\ c - 1 = p
    BY <1>1, <1>2, <1>3, <1>5, <2>1
  <2>3. InTable(p, line(part), behind(usage, part)) /\ LeftOf(usage, part, lastcolumn)
    BY <2>1, <2>2 DEF InTable, LeftOf
  <2>4. Synced(cw, p, m, x, out)
    BY <1>1, <2>1, <2>3 DEF Laid, Tracked
  <2>5. m <= w \/ Wider(cw, m)
    BY <1>2, <2>2, <2>3 DEF Fitted, Counting
  <2>6. t = k + w /\ k \in Nat /\ w \in Nat /\ m \in Nat
    <3>1. t = Stop(cw, c - 1) + cw[c - 1] /\ Stop(cw, p) \in Nat
      BY <1>2, <2>2, StopIs
    <3>2. w \in Nat
      BY <1>2, <2>2 DEF Widths
    <3>3. QED
      BY <1>2, <2>2, <3>1, <3>2
  <2>7. out \o << >> = out
    BY <1>2, ConcatEmptySeq DEF Text
  <2>8. x' = indented(x, t) /\ out' = out \o indentation(x, t)
    <3>1. out' = out \o << >> \o indentation(x, t)
      BY <1>1, <1>5
    <3>2. QED
      BY <1>1, <1>5, <2>7, <3>1
  <2> HIDE DEF n, c, t, p, w, k, m
  <2>9. x >= 0 /\ Cursor(out) = k + m /\ (x = Cursor(out) \/ (k = 0 /\ Wider(cw, x)))
    BY <2>4 DEF Synced, k
  <2>10. Wider(cw, x) => w < x
    BY <2>2 DEF Wider, w
  <2>11. x = Cursor(out) \/ t < x
    BY <1>2, <2>6, <2>9, <2>10
  <2>12. Cursor(out') = t /\ x' = IF t < x /\ t = 0 THEN x ELSE t
    BY <1>2, <1>3, <2>8, <2>9, <2>11, Indented
  <2>13. x' >= 0 /\ (x' = Cursor(out') \/ (t = 0 /\ Wider(cw, x')))
    <3>1. CASE t < x /\ t = 0
      <4>1. k = 0 /\ w = 0 /\ x > 0 /\ x' = x
        BY <1>2, <2>6, <2>12, <3>1
      <4>2. Wider(cw, x)
        <5>1. CASE x = Cursor(out)
          <6>1. x = m
            BY <2>6, <2>9, <4>1, <5>1
          <6>2. ~ (m <= w)
            BY <2>6, <4>1, <6>1
          <6>3. QED
            BY <2>5, <6>1, <6>2
        <5>2. CASE x # Cursor(out)
          BY <2>9, <5>2
        <5>3. QED
          BY <5>1, <5>2
      <4>3. QED
        BY <2>9, <3>1, <4>1, <4>2
    <3>2. CASE ~ (t < x /\ t = 0)
      <4>1. x' = t
        BY <2>12, <3>2
      <4>2. QED
        BY <1>3, <2>12, <4>1
    <3>3. QED
      BY <3>1, <3>2
  <2>14. Cursor(out') = t + 0
    BY <1>3, <2>12
  <2>15. Synced(cw, c, 0, x', out')
    BY <2>13, <2>14 DEF Synced, t
  <2>16. QED
    BY <1>3, <2>15 DEF n, c
<1>6. QED
  BY <1>4, <1>5

LEMMA IndentLaid ==
  ASSUME Sane, Laid, indent
  PROVE  Laid'
<1> DEFINE n == next(usage, part)
<1>1. /\ Steady /\ pc \in InCells /\ pc' = "put" /\ part' = n.it /\ n.ok
      /\ usage' = usage /\ col_width' = col_width /\ lastcolumn' = lastcolumn
  BY DEF indent, Steady, input, layout_vars, lines, Printing, InCells
<1>2. Searching' /\ Hung'
  BY <1>1, SteadyLaid
<1>3. AtCell(usage, n.it) /\ LaidAt(usage, col_width, n.it)
  BY <1>1, InCell
<1>4. n.it.col \in 0..lastcolumn /\ Synced(col_width, n.it.col, 0, x', out')
  BY IndentSyncs
<1> HIDE DEF n
<1>5. Tracked'
  BY <1>1, <1>4 DEF Tracked, InCells
<1>6. QED
  BY <1>1, <1>2, <1>3, <1>5 DEF Laid, Cellular, Known, InCells

LEMMA LeftPartLaid ==
  ASSUME Sane, Laid, left_part
  PROVE  Laid'
<1> DEFINE s == data(usage, part)
           m == part.screenlen
           k == Stop(col_width, part.col)
<1>1. /\ Steady /\ pc = "put" /\ pc \in InCells /\ pc' = "part" /\ part' = part
      /\ usage' = usage /\ col_width' = col_width /\ lastcolumn' = lastcolumn
      /\ out' = out \o s /\ x' = x + m
  BY DEF left_part, Steady, input, layout_vars, lines, Printing, InCells
<1>2. Searching' /\ Hung'
  BY <1>1, SteadyLaid
<1>3. /\ usage \in Helps /\ AtCell(usage, part) /\ LaidAt(usage, col_width, part)
      /\ m \in Nat /\ x \in Int /\ out \in Text /\ part.col \in Int /\ col_width \in Widths
      /\ lastcolumn \in 0..maxcolumns - 1 /\ maxcolumns \in Nat
  BY <1>1, InCell, UsageAssumption
<1>4. part.col \in 0..lastcolumn /\ Synced(col_width, part.col, 0, x, out)
  BY <1>1 DEF Laid, Tracked
<1>5. part.col # -1 /\ part.col \in 0..maxcolumns - 1
  BY <1>3, <1>4
<1>6. k \in Nat
  BY <1>3, <1>5, StopIs
<1>7. Unbroken(s) /\ m = Columns(s)
  BY <1>3, <1>5, PartEnds DEF AtCell, Cell
<1>8. Cursor(out \o s) = Cursor(out) + m
  BY <1>3, <1>7, CursorMoves
<1> HIDE DEF s, m, k
<1>9. Cursor(out) = k + 0 /\ x >= 0 /\ (x = Cursor(out) \/ (k = 0 /\ Wider(col_width, x)))
  BY <1>4 DEF Synced, k
<1>10. Cursor(out') = k + m /\ x' >= 0
  BY <1>1, <1>3, <1>6, <1>8, <1>9
<1>11. x' = Cursor(out') \/ (k = 0 /\ Wider(col_width, x'))
  <2>1. CASE x = Cursor(out)
    BY <1>1, <1>8, <2>1
  <2>2. CASE k = 0 /\ Wider(col_width, x)
    <3>1. \A i \in 0..maxcolumns - 1 : col_width[i] \in Nat
      BY <1>3 DEF Widths
    <3>2. x' = x + m
      BY <1>1
    <3>3. Wider(col_width, x')
      BY <1>3, <2>2, <3>1, <3>2 DEF Wider
    <3>4. QED
      BY <2>2, <3>3
  <2>3. QED
    BY <1>9, <2>1, <2>2
<1>12. Synced(col_width, part.col, m, x', out')
  BY <1>10, <1>11 DEF Synced, k
<1>13. Tracked'
  BY <1>1, <1>5, <1>10, <1>12 DEF Tracked, InCells, m
<1>14. QED
  BY <1>1, <1>2, <1>3, <1>13 DEF Laid, Cellular, Known, InCells

LEMMA WrappedPartLaid ==
  ASSUME Sane, Laid, wrapped_part
  PROVE  Laid'
<1> DEFINE l == IF column(part) = 0 THEN "interjection" ELSE "last"
<1>1. /\ pc = "put" /\ pc \in InCells /\ part' = part /\ x' = x /\ ~ OfLeft
      /\ usage' = usage /\ col_width' = col_width /\ lastcolumn' = lastcolumn
      /\ print_last_column_on_own_line' = print_last_column_on_own_line
      /\ begin_process(l, data(usage, part))
  BY DEF wrapped_part, input, layout_vars, InCells
<1>2. l \in Wrappers
  BY DEF Wrappers
<1> HIDE DEF l
<1>3. pc' = "wrap" /\ wrapper'["last"].x = wrapper["last"].x
  BY <1>1, <1>2, BegunHung DEF begin_process
<1>4. Searching' /\ Hung'
  BY <1>1, <1>3, SteadyLaid DEF Steady, Printing, InCells
<1>5. AtCell(usage, part) /\ LaidAt(usage, col_width, part) /\ part.col \in Int /\ lastcolumn \in Nat
  BY <1>1, InCell
<1>6. part.col \in 0..lastcolumn /\ x >= 0
  BY <1>1 DEF Laid, Tracked, Synced
<1>7. part.col # -1 /\ ~ LeftOf(usage, part, lastcolumn)
  BY <1>1, <1>5, <1>6 DEF LeftOf, OfLeft, column
<1>8. Tracked'
  BY <1>1, <1>3, <1>6, <1>7 DEF Tracked, InCells
<1>9. QED
  BY <1>1, <1>3, <1>4, <1>5, <1>8 DEF Laid, Cellular, Known, InCells

LEMMA EndRowLaid ==
  ASSUME Sane, Laid, last_part \/ last_own_line
  PROVE  Laid'
<1> DEFINE n == next(usage, part)
<1>1. /\ Steady /\ pc \in InCells /\ ~ n.ok
      /\ usage' = usage /\ col_width' = col_width /\ lastcolumn' = lastcolumn
      /\ print_last_column_on_own_line' = print_last_column_on_own_line
  <2>1. CASE last_part
    <3>1. pc' \in {"own", "flush"}
      BY <2>1 DEF last_part
    <3>2. QED
      BY <2>1, <3>1 DEF last_part, Steady, input, layout_vars, Printing, InCells
  <2>2. CASE last_own_line
    BY <2>2 DEF last_own_line, Steady, input, layout_vars, Printing, InCells
  <2>3. QED
    BY <2>1, <2>2
<1>2. Searching' /\ Hung'
  BY <1>1, SteadyLaid
<1>3. /\ LaidPast(usage, col_width, n.it) /\ out \in Text
      /\ AtCell(usage, restartRow(n.it)) /\ LaidAt(usage, col_width, restartRow(n.it))
  BY <1>1, InCell
<1>4. CASE last_part /\ print_last_column_on_own_line
  <2>1. pc' = "own" /\ part' = restartRow(n.it)
    BY <1>4 DEF last_part
  <2> HIDE DEF n
  <2>2. QED
    BY <1>1, <1>2, <1>3, <1>4, <2>1 DEF Laid, Cellular, Known, Tracked, InCells
<1>5. CASE ~ (last_part /\ print_last_column_on_own_line)
  <2>1. pc' = "flush" /\ part' = n.it /\ out' = Append(out, NL)
    BY <1>5 DEF last_part, last_own_line
  <2>2. Cursor(out') = 0
    BY <1>3, <2>1, CursorReturns
  <2> HIDE DEF n
  <2>3. QED
    BY <1>1, <1>2, <1>3, <2>1, <2>2 DEF Laid, Cellular, Known, Tracked, InCells
<1>6. QED
  BY <1>4, <1>5

LEMMA WrapLaid ==
  ASSUME Sane, Laid, wrap \/ end_process
  PROVE  Laid'
<1>1. /\ pc = "wrap" /\ pc \in InCells /\ part' = part /\ x' = x /\ lineWrapper' = lineWrapper
      /\ usage' = usage /\ col_width' = col_width /\ lastcolumn' = lastcolumn
      /\ print_last_column_on_own_line' = print_last_column_on_own_line
  <2>1. CASE wrap
    BY <2>1 DEF wrap, input, layout_vars, InCells
  <2>2. CASE end_process
    BY <2>2 DEF end_process, input, layout_vars, InCells
  <2>3. QED
    BY <2>1, <2>2
<1>2. /\ \/ pc' = "wrap"
         \/ pc' = IF print_last_column_on_own_line /\ lineWrapper = "last" THEN "own" ELSE "part"
  BY DEF wrap, end_process
<1>3. wrapper'["last"].x = wrapper["last"].x
  <2>1. PICK m : m = W
    OBVIOUS
  <2>2. Buffer(m) /\ m = wrapper[lineWrapper]
    BY <2>1, WIs
  <2>3. CASE wrap
    <3> DEFINE d == Split(rest, W.width).line
               v == buf_store(IF buf_full(m) THEN line_written(m) ELSE m, d)
    <3>1. wrapper' = [wrapper EXCEPT ![lineWrapper] = v]
      BY <2>1, <2>3 DEF wrap
    <3> HIDE DEF d
    <3>2. v.x = m.x
      BY <2>2, PlaceKept
    <3> HIDE DEF v
    <3>3. QED
      BY <2>1, <3>1, <3>2, StillHung
  <2>4. CASE end_process
    <3> DEFINE v == IF m.wrote_something THEN m ELSE line_written(m)
    <3>1. wrapper' = [wrapper EXCEPT ![lineWrapper] = v]
      BY <2>1, <2>4 DEF end_process
    <3>2. v.x = m.x
      BY <2>2, PlaceKept
    <3> HIDE DEF v
    <3>3. QED
      BY <2>1, <3>1, <3>2, StillHung
  <2>5. QED
    BY <2>3, <2>4
<1>4. pc' \in InCells /\ pc' # "put"
  BY <1>2 DEF InCells
<1>5. Searching' /\ Hung'
  BY <1>1, <1>3, <1>4, SteadyLaid DEF Steady, Printing
<1>6. AtCell(usage, part) /\ LaidAt(usage, col_width, part)
  BY <1>1, InCell
<1>7. /\ part.col # -1
      /\ \/ print_last_column_on_own_line /\ lineWrapper = "last"
         \/ x >= 0 /\ ~ LeftOf(usage, part, lastcolumn)
  BY <1>1 DEF Laid, Tracked
<1>8. Tracked'
  <2>1. CASE pc' = "wrap"
    BY <1>1, <1>7, <2>1 DEF Tracked, InCells
  <2>2. CASE pc' # "wrap" /\ print_last_column_on_own_line /\ lineWrapper = "last"
    <3>1. pc' = "own"
      BY <1>2, <2>2
    <3>2. QED
      BY <1>1, <2>2, <3>1 DEF Tracked, InCells
  <2>3. CASE pc' # "wrap" /\ ~ (print_last_column_on_own_line /\ lineWrapper = "last")
    <3>1. pc' = "part"
      BY <1>2, <2>3
    <3>2. QED
      BY <1>1, <1>7, <2>3, <3>1 DEF Tracked, InCells
  <2>4. QED
    BY <2>1, <2>2, <2>3
<1>9. QED
  BY <1>1, <1>4, <1>5, <1>6, <1>8 DEF Laid, Cellular, Known, InCells

LEMMA OwnLineLaid ==
  ASSUME Sane, Laid, own_line
  PROVE  Laid'
<1> DEFINE n == next(usage, part)
           t == data(usage, n.it)
<1>1. /\ pc = "own" /\ pc \in InCells /\ n.ok /\ part' = n.it
      /\ usage' = usage /\ col_width' = col_width /\ lastcolumn' = lastcolumn
      /\ print_last_column_on_own_line' = print_last_column_on_own_line
      /\ \/ begin_process("last", t)
         \/ pc' = pc /\ wrapper' = wrapper
  BY DEF own_line, input, layout_vars, lines, InCells
<1>2. print_last_column_on_own_line
  BY <1>1 DEF Laid, Tracked
<1>3. AtCell(usage, n.it) /\ LaidAt(usage, col_width, n.it) /\ n.it.col \in Nat
  BY <1>1, InCell
<1>4. n.it.col # -1
  BY <1>3
<1> HIDE DEF n, t
<1>5. CASE begin_process("last", t)
  <2>1. pc' = "wrap" /\ lineWrapper' = "last" /\ "last" \in Wrappers
    BY <1>5 DEF begin_process, Wrappers
  <2>2. wrapper'["last"].x = wrapper["last"].x
    BY <1>5, <2>1, BegunHung DEF begin_process
  <2>3. Searching' /\ Hung'
    BY <1>1, <2>1, <2>2, SteadyLaid DEF Steady, Printing, InCells
  <2>4. Tracked'
    BY <1>1, <1>2, <1>4, <2>1 DEF Tracked, InCells
  <2>5. QED
    BY <1>1, <1>3, <2>1, <2>3, <2>4 DEF Laid, Cellular, Known, InCells
<1>6. CASE pc' = pc /\ wrapper' = wrapper
  <2>1. Searching' /\ Hung'
    BY <1>1, <1>6, SteadyLaid DEF Steady, Printing, InCells
  <2>2. Tracked'
    BY <1>1, <1>2, <1>6 DEF Tracked, InCells
  <2>3. QED
    BY <1>1, <1>3, <1>6, <2>1, <2>2 DEF Laid, Cellular, Known, InCells
<1>7. QED
  BY <1>1, <1>5, <1>6

LEMMA FlushLaid ==
  ASSUME Sane, Laid, nothing_to_flush \/ end_flush \/ flush \/ flush_line
  PROVE  Laid'
<1>1. /\ pc \in {"flush", "line"} /\ part' = part
      /\ usage' = usage /\ col_width' = col_width /\ lastcolumn' = lastcolumn
      /\ print_last_column_on_own_line' = print_last_column_on_own_line
  <2>1. CASE nothing_to_flush
    BY <2>1 DEF nothing_to_flush, input, layout_vars
  <2>2. CASE end_flush
    BY <2>2 DEF end_flush, input, layout_vars
  <2>3. CASE flush
    BY <2>3 DEF flush, input, layout_vars
  <2>4. CASE flush_line
    BY <2>4 DEF flush_line, input, layout_vars
  <2>5. QED
    BY <2>1, <2>2, <2>3, <2>4
<1>2. pc' \in {"flush", "line", "row"}
  BY <1>1 DEF nothing_to_flush, end_flush, flush, flush_line, flushed
<1>3. wrapper'["last"].x = wrapper["last"].x
  <2>1. CASE nothing_to_flush \/ end_flush
    BY <2>1 DEF nothing_to_flush, end_flush
  <2>2. CASE flush
    <3>1. lineWrapper \in Wrappers
      BY DEF Sane, Texts
    <3>2. QED
      BY <2>2, <3>1, BegunHung DEF flush
  <2>3. CASE flush_line
    <3>1. PICK m : m = W
      OBVIOUS
    <3>2. Buffer(m)
      BY <3>1, WIs
    <3> DEFINE v == line_written(m)
    <3>3. wrapper' = [wrapper EXCEPT ![lineWrapper] = v]
      BY <2>3, <3>1 DEF flush_line
    <3>4. v.x = m.x
      BY <3>2, PlaceKept
    <3> HIDE DEF v
    <3>5. QED
      BY <3>1, <3>3, <3>4, StillHung
  <2>4. QED
    BY <2>1, <2>2, <2>3
<1>4. Searching' /\ Hung'
  BY <1>1, <1>2, <1>3, SteadyLaid DEF Steady, Printing
<1>5. LaidPast(usage, col_width, part)
  BY <1>1 DEF Laid, Known
<1>6. pc' # "line" => Cursor(out') = 0
  <2>1. out \in Text
    BY DEF Sane, Texts
  <2>2. CASE nothing_to_flush
    <3>1. pc = "flush" /\ out' = out
      BY <2>2 DEF nothing_to_flush
    <3>2. QED
      BY <3>1 DEF Laid, Tracked, InCells
  <2>3. CASE end_flush
    BY <2>1, <2>3, CursorReturns DEF end_flush
  <2>4. CASE flush \/ flush_line
    BY <2>4 DEF flush, flush_line
  <2>5. QED
    BY <2>2, <2>3, <2>4
<1>7. pc' \notin InCells
  BY <1>2 DEF InCells
<1>8. Tracked'
  BY <1>6, <1>7 DEF Tracked, InCells
<1>9. QED
  BY <1>1, <1>2, <1>4, <1>5, <1>7, <1>8 DEF Laid, Cellular, Known, InCells

LEMMA StutterLaid ==
  ASSUME Laid, UNCHANGED vars
  PROVE  Laid'
<1>1. /\ usage' = usage /\ pc' = pc /\ part' = part /\ x' = x /\ out' = out
      /\ overlong_column_threshold' = overlong_column_threshold /\ col_width' = col_width
      /\ lastcolumn' = lastcolumn /\ wrapper' = wrapper /\ lineWrapper' = lineWrapper
      /\ print_last_column_on_own_line' = print_last_column_on_own_line
  BY DEF vars, input, layout_vars, lines
<1>2. Cellular'
  BY <1>1 DEF Laid, Cellular
<1>3. Searching'
  BY <1>1 DEF Laid, Searching
<1>4. Known'
  BY <1>1 DEF Laid, Known
<1>5. Tracked'
  BY <1>1 DEF Laid, Tracked
<1>6. Hung'
  BY <1>1 DEF Laid, Hung
<1>7. QED
  BY <1>2, <1>3, <1>4, <1>5, <1>6 DEF Laid

LEMMA LaidNext == Sane /\ Laid /\ [Next]_vars => Laid'
<1> SUFFICES ASSUME Sane, Laid, [Next]_vars PROVE Laid'
  OBVIOUS
<1>1. CASE next_table \/ restart
  BY <1>1, TurnLaid
<1>2. CASE measure_row \/ next_row
  BY <1>2, RowLaid
<1>3. CASE measure
  BY <1>3, MeasureLaid
<1>4. CASE measured
  BY <1>4, MeasuredLaid
<1>5. CASE layout
  BY <1>5, LayoutLaid
<1>6. CASE drop_column \/ postpone
  BY <1>6, SkipLaid
<1>7. CASE indent
  BY <1>7, IndentLaid
<1>8. CASE left_part
  BY <1>8, LeftPartLaid
<1>9. CASE wrapped_part
  BY <1>9, WrappedPartLaid
<1>10. CASE last_part \/ last_own_line
  BY <1>10, EndRowLaid
<1>11. CASE wrap \/ end_process
  BY <1>11, WrapLaid
<1>12. CASE own_line
  BY <1>12, OwnLineLaid
<1>13. CASE nothing_to_flush \/ end_flush \/ flush \/ flush_line
  BY <1>13, FlushLaid
<1>14. CASE printed \/ UNCHANGED vars
  <2>1. UNCHANGED vars
    BY <1>14 DEF printed
  <2>2. QED
    BY <2>1, StutterLaid
<1>15. QED
  BY <1>1, <1>2, <1>3, <1>4, <1>5, <1>6, <1>7, <1>8, <1>9, <1>10, <1>11, <1>12, <1>13, <1>14 DEF Next

(* Every part begins at the tab stop of its column, and so do the further  *)
(* lines that one of the last column is broken into.                       *)
THEOREM PartsAligned == Spec => []Aligned
<1>1. Sane /\ Laid => Aligned
  <2> SUFFICES ASSUME Sane, Laid, pc = "put" PROVE Aligned
    BY DEF Aligned
  <2>1. part.col \in 0..lastcolumn /\ Synced(col_width, part.col, 0, x, out)
    BY DEF Laid, Tracked
  <2>2. col_width \in Widths /\ lastcolumn \in 0..maxcolumns - 1 /\ maxcolumns \in Nat
    BY UsageAssumption DEF Sane, Sizes, Widths
  <2>3. part.col \in 0..maxcolumns - 1
    BY <2>1, <2>2
  <2>4. Stop(col_width, part.col) \in Nat
    BY <2>2, <2>3, StopIs
  <2>5. Cursor(out) = Stop(col_width, part.col)
    BY <2>1, <2>4 DEF Synced
  <2>6. tabstop(part.col) = Stop(col_width, part.col)
    BY DEF tabstop, Stop
  <2>7. (part.col = lastcolumn /\ lastcolumn > 0 /\ ~ print_last_column_on_own_line)
            => wrapper["last"].x = Cursor(out)
    BY <2>5 DEF Laid, Hung, InCells
  <2>8. QED
    BY <2>5, <2>6, <2>7 DEF Aligned, column
<1>2. Init => Sane /\ Laid
  BY SaneInit, LaidInit
<1>3. Sane /\ Laid /\ [Next]_vars => (Sane /\ Laid)'
  BY SaneNext, LaidNext DEF Kept
<1>4. QED
  BY <1>1, <1>2, <1>3, PTL DEF Spec

-----------------------------------------------------------------------------
(***************************************************************************)
(* Pieces of a text.  What is between two separators is the piece whose    *)
(* number is that of the separators in front of it.                        *)
(***************************************************************************)

(* How often ch occurs in h from s on, and in front of p.                  *)
Marks(h, ch, s, p) == {i \in s..p - 1 : h[i] = ch}
Times(h, ch, s, p) == Cardinality(Marks(h, ch, s, p))

LEMMA TimesIs ==
  ASSUME NEW h, NEW ch, NEW s \in Nat, NEW p \in Nat
  PROVE  IsFiniteSet(Marks(h, ch, s, p)) /\ Times(h, ch, s, p) \in Nat
<1>1. p - 1 \in Int /\ s \in Int
  OBVIOUS
<1>2. IsFiniteSet(s..p - 1)
  BY <1>1, FS_Interval
<1>3. Marks(h, ch, s, p) \in SUBSET (s..p - 1)
  BY DEF Marks
<1>4. QED
  BY <1>2, <1>3, FS_Subset, FS_CardinalityType DEF Times

LEMMA TimesStart ==
  ASSUME NEW h, NEW ch, NEW s \in Nat
  PROVE  Times(h, ch, s, s) = 0
<1>1. Marks(h, ch, s, s) = {}
  BY DEF Marks
<1>2. QED
  BY <1>1, FS_EmptySet DEF Times

LEMMA TimesStep ==
  ASSUME NEW h, NEW ch, NEW s \in Nat, NEW p \in Nat, s <= p
  PROVE  Times(h, ch, s, p + 1) = IF h[p] = ch THEN Times(h, ch, s, p) + 1 ELSE Times(h, ch, s, p)
<1> DEFINE M == Marks(h, ch, s, p)
<1>1. (p + 1) - 1 = p /\ p \notin s..p - 1 /\ s..p = (s..p - 1) \cup {p}
  OBVIOUS
<1>2. Marks(h, ch, s, p + 1) = IF h[p] = ch THEN M \cup {p} ELSE M
  BY <1>1 DEF Marks
<1>3. IsFiniteSet(M) /\ p \notin M
  BY <1>1, TimesIs DEF Marks
<1> HIDE DEF M
<1>4. Cardinality(M \cup {p}) = Cardinality(M) + 1
  BY <1>3, FS_AddElement
<1>5. QED
  BY <1>2, <1>4 DEF Times, M

LEMMA TimesGrow ==
  ASSUME NEW h, NEW ch, NEW s \in Nat, NEW p \in Nat, NEW q \in Nat, s <= p, p <= q
  PROVE  /\ Times(h, ch, s, p) <= Times(h, ch, s, q)
         /\ (\A i \in p..q - 1 : h[i] # ch) => Times(h, ch, s, q) = Times(h, ch, s, p)
<1>1. \A i \in s..p - 1 : i \in s..q - 1
  OBVIOUS
<1>2. Marks(h, ch, s, p) \in SUBSET Marks(h, ch, s, q)
  BY <1>1 DEF Marks
<1>3. \A i \in s..q - 1 : i \in s..p - 1 \/ i \in p..q - 1
  OBVIOUS
<1>4. ASSUME \A i \in p..q - 1 : h[i] # ch PROVE Marks(h, ch, s, q) = Marks(h, ch, s, p)
  BY <1>1, <1>3, <1>4 DEF Marks
<1>5. Times(h, ch, s, p) <= Times(h, ch, s, q)
  BY <1>2, TimesIs, FS_Subset DEF Times
<1>6. QED
  BY <1>4, <1>5 DEF Times

LEMMA Moved ==
  ASSUME NEW S, IsFiniteSet(S), S \subseteq Int, NEW d \in Int, NEW B,
         \A j \in Int : j \in B <=> j - d \in S, B \subseteq Int
  PROVE  Cardinality(B) = Cardinality(S)
<1> DEFINE f == [i \in S |-> i + d]
<1>1. f \in [S -> B]
  <2>1. \A i \in S : i + d \in B
    <3> TAKE i \in S
    <3>1. i \in Int /\ i + d \in Int /\ (i + d) - d = i
      OBVIOUS
    <3>2. QED
      BY <3>1
  <2>2. QED
    BY <2>1
<1>2. \A i, j \in S : f[i] = f[j] => i = j
  OBVIOUS
<1>3. \A t \in B : \E i \in S : f[i] = t
  <2> TAKE t \in B
  <2>1. t \in Int /\ t - d \in S /\ (t - d) + d = t
    OBVIOUS
  <2>2. QED
    BY <2>1
<1> HIDE DEF f
<1>4. f \in Bijection(S, B)
  BY <1>1, <1>2, <1>3 DEF Bijection, Injection, Surjection, IsInjective
<1>5. ExistsBijection(S, B)
  BY <1>4 DEF ExistsBijection
<1>6. QED
  BY <1>5, FS_Bijection

(* The part of h from s to in front of e.                                  *)
LEMMA SliceIs ==
  ASSUME NEW h \in Seq(Nat), NEW s \in Nat, NEW e \in Nat, 1 <= s, s <= e, e <= Len(h) + 1
  PROVE  LET r == SubSeq(h, s, e - 1)
         IN  /\ r \in Seq(Nat) /\ Len(r) = e - s
             /\ \A j \in 1..e - s : r[j] = h[s + j - 1]
<1>1. Len(h) \in Nat /\ \A i \in 1..Len(h) : h[i] \in Nat
  BY ElementOfSeq, LenProperties
<1>2. \A i \in s..e - 1 : i \in 1..Len(h)
  BY <1>1
<1>3. s \in Int /\ e - 1 \in Int /\ \A i \in s..e - 1 : h[i] \in Nat
  BY <1>1, <1>2
<1> DEFINE m == e - 1
           r == SubSeq(h, s, m)
<1>4. m \in Int /\ \A i \in s..m : h[i] \in Nat
  BY <1>3
<1>5. m - s + 1 = e - s /\ (IF s <= m THEN m - s + 1 ELSE 0) = e - s
  OBVIOUS
<1> HIDE DEF m
<1>6. /\ r \in Seq(Nat) /\ Len(r) = (IF s <= m THEN m - s + 1 ELSE 0)
      /\ \A j \in 1..m - s + 1 : r[j] = h[s + j - 1]
  BY <1>3, <1>4, SubSeqProperties
<1>7. QED
  BY <1>5, <1>6 DEF m

LEMMA SliceOfSlice ==
  ASSUME NEW h \in Seq(Nat), NEW s \in Nat, NEW e \in Nat, 1 <= s, s <= e, e <= Len(h) + 1,
         NEW p \in s..e, NEW q \in p..e
  PROVE  SubSeq(SubSeq(h, s, e - 1), (p - s) + 1, (q - s + 1) - 1) = SubSeq(h, p, q - 1)
<1> DEFINE r == SubSeq(h, s, e - 1)
           a == p - s + 1
           b == q - s + 1
           y == SubSeq(r, a, b - 1)
           z == SubSeq(h, p, q - 1)
<1>0. /\ p \in Nat /\ q \in Nat /\ s <= p /\ p <= q /\ q <= e /\ 1 <= p /\ q <= Len(h) + 1
      /\ a \in Nat /\ b \in Nat /\ 1 <= a /\ a <= b /\ b - a = q - p /\ b <= e - s + 1
  <2>1. Len(h) \in Nat
    BY LenProperties
  <2>2. QED
    BY <2>1
<1>1. r \in Seq(Nat) /\ Len(r) = e - s /\ \A j \in 1..e - s : r[j] = h[s + j - 1]
  BY SliceIs
<1>2. z \in Seq(Nat) /\ Len(z) = q - p /\ \A j \in 1..q - p : z[j] = h[p + j - 1]
  BY <1>0, SliceIs
<1> HIDE DEF r
<1>3. b <= Len(r) + 1
  BY <1>0, <1>1
<1>4. y \in Seq(Nat) /\ Len(y) = b - a /\ \A j \in 1..b - a : y[j] = r[a + j - 1]
  <2>1. /\ r \in Seq(Nat) /\ a \in Nat /\ b \in Nat /\ 1 <= a /\ a <= b /\ b <= Len(r) + 1
    BY ONLY <1>0, <1>1, <1>3
  <2> HIDE DEF a, b
  <2>2. QED
    BY ONLY <2>1, SliceIs DEF y
<1>5. ASSUME NEW j \in 1..q - p PROVE y[j] = z[j]
  <2>1. j \in Nat /\ 1 <= j /\ j <= q - p /\ j \in 1..b - a /\ a = (p - s) + 1
    BY <1>0
  <2> HIDE DEF a, b
  <2>2. a + j - 1 \in 1..e - s /\ s + (a + j - 1) - 1 = p + j - 1
    BY <1>0, <2>1
  <2>3. y[j] = r[a + j - 1] /\ r[a + j - 1] = h[s + (a + j - 1) - 1] /\ z[j] = h[p + j - 1]
    BY <1>1, <1>2, <1>4, <2>1, <2>2
  <2>4. QED
    BY <2>2, <2>3
<1> HIDE DEF y, z, a, b
<1>6. Len(y) = q - p
  BY <1>0, <1>4
<1>7. y = z
  BY <1>2, <1>4, <1>5, <1>6, SeqEqual
<1>8. p - s + 1 = a /\ (q - s + 1) - 1 = b - 1
  BY DEF a, b
<1>9. QED
  BY <1>7, <1>8 DEF y, z, r

LEMMA TimesInSlice ==
  ASSUME NEW h \in Seq(Nat), NEW s \in Nat, NEW e \in Nat, 1 <= s, s <= e, e <= Len(h) + 1,
         NEW p \in s..e, NEW ch
  PROVE  Times(SubSeq(h, s, e - 1), ch, 1, p - s + 1) = Times(h, ch, s, p)
<1> DEFINE r == SubSeq(h, s, e - 1)
           m == p - s + 1
           d == 1 - s
           S == Marks(h, ch, s, p)
           B == Marks(r, ch, 1, m)
<1>1. \A j \in 1..e - s : r[j] = h[s + j - 1]
  BY SliceIs
<1> HIDE DEF r
<1>2. IsFiniteSet(S)
  BY TimesIs
<1>3. S \subseteq Int /\ B \subseteq Int /\ d \in Int
  BY DEF Marks
<1>4. ASSUME NEW j \in Int PROVE j \in B <=> j - d \in S
  <2>1. /\ j \in 1..m - 1 <=> j - d \in s..p - 1
        /\ j \in 1..m - 1 => j \in 1..e - s /\ j - d = s + j - 1
    OBVIOUS
  <2>2. j \in 1..m - 1 => r[j] = h[j - d]
    BY <1>1, <2>1
  <2> HIDE DEF m, d
  <2>3. QED
    BY <2>1, <2>2 DEF Marks
<1> HIDE DEF S, B, d
<1>5. Cardinality(B) = Cardinality(S)
  BY <1>2, <1>3, <1>4, Moved
<1>6. QED
  BY <1>5 DEF Times, S, B, r, m

(* Of a finite set of numbers no two have equally many below them.         *)
LEMMA RankOnce ==
  ASSUME NEW E \in SUBSET Nat, IsFiniteSet(E), NEW a \in E, NEW b \in E, a < b
  PROVE  Cardinality({c \in E : c < a}) < Cardinality({c \in E : c < b})
<1> DEFINE A == {c \in E : c < a}
           B == {c \in E : c < b}
<1>1. A \in SUBSET E /\ B \in SUBSET E /\ a \notin A
  OBVIOUS
<1>2. IsFiniteSet(A) /\ IsFiniteSet(B)
  BY <1>1, FS_Subset
<1>3. A \cup {a} \in SUBSET B
  <2>1. ASSUME NEW c \in E, c < a PROVE c < b
    <3>1. c \in Nat /\ a \in Nat /\ b \in Nat
      OBVIOUS
    <3>2. QED
      BY ONLY <2>1, <3>1, a < b
  <2>2. QED
    BY <2>1
<1> HIDE DEF A, B
<1>4. Cardinality(A \cup {a}) = Cardinality(A) + 1
  BY <1>1, <1>2, FS_AddElement
<1>5. Cardinality(A \cup {a}) <= Cardinality(B)
  BY <1>2, <1>3, FS_Subset
<1>6. Cardinality(A) \in Nat /\ Cardinality(B) \in Nat
  BY <1>2, FS_CardinalityType
<1>7. Cardinality(A) < Cardinality(B)
  BY <1>4, <1>5, <1>6
<1>8. QED
  BY <1>7 DEF A, B

LEMMA PieceOf ==
  ASSUME NEW r \in Seq(Nat), NEW sep, NEW a \in 0..Len(r) + 1, NEW b \in 0..Len(r) + 1, a < b,
         a = 0 \/ r[a] = sep, b = Len(r) + 1 \/ r[b] = sep, \A i \in a + 1..b - 1 : r[i] # sep
  PROVE  LET k == Times(r, sep, 1, a + 1) + 1
         IN  /\ Len(Pieces(r, sep)) = Times(r, sep, 1, Len(r) + 1) + 1
             /\ k \in 1..Len(Pieces(r, sep))
             /\ Pieces(r, sep)[k] = SubSeq(r, a + 1, b - 1)
<1> DEFINE n == Len(r)
           E == {0, n + 1} \cup {i \in DOMAIN r : r[i] = sep}
           rank(y) == Cardinality({c \in E : c < y})
           th(k) == CHOOSE y \in E : rank(y) = k
           N == Cardinality(E) - 1
           k == Times(r, sep, 1, a + 1) + 1
<1>1. n \in Nat /\ DOMAIN r = 1..n
  BY LenProperties
<1>2. Pieces(r, sep) = [i \in 1..N |-> SubSeq(r, th(i - 1) + 1, th(i) - 1)]
  BY DEF Pieces
<1>3. E \in SUBSET Nat /\ E \subseteq 0..n + 1
  BY <1>1
<1>4. IsFiniteSet(E)
  <2>1. IsFiniteSet(0..n + 1)
    BY <1>1, FS_Interval
  <2> HIDE DEF E
  <2>2. QED
    BY <1>3, <2>1, FS_Subset
<1>5. ASSUME NEW y \in 1..n + 1
      PROVE  {c \in E : c < y} = Marks(r, sep, 1, y) \cup {0}
  BY <1>1 DEF Marks
<1>6. ASSUME NEW y \in 1..n + 1
      PROVE  rank(y) = Times(r, sep, 1, y) + 1
  <2>1. y \in Nat /\ 1 \in Nat
    OBVIOUS
  <2>5. IsFiniteSet(Marks(r, sep, 1, y))
    BY <2>1, TimesIs
  <2>6. 0 \notin Marks(r, sep, 1, y)
    BY DEF Marks
  <2>2. IsFiniteSet(Marks(r, sep, 1, y)) /\ 0 \notin Marks(r, sep, 1, y)
    BY <2>5, <2>6
  <2>3. Cardinality(Marks(r, sep, 1, y) \cup {0}) = Cardinality(Marks(r, sep, 1, y)) + 1
    BY <2>2, FS_AddElement
  <2>4. QED
    BY <1>5, <2>3 DEF Times
<1>7. rank(0) = 0
  <2>1. {c \in E : c < 0} = {}
    BY <1>1
  <2>2. QED
    BY <2>1, FS_EmptySet
<1>8. N = Times(r, sep, 1, n + 1) + 1
  <2> DEFINE D == {c \in E : c < n + 1}
  <2>1. E = D \cup {n + 1} /\ n + 1 \notin D
    BY <1>1, <1>3
  <2>2. D \in SUBSET E
    OBVIOUS
  <2> HIDE DEF E
  <2>3. IsFiniteSet(D)
    BY <1>4, <2>2, FS_Subset
  <2>4. Cardinality(D) = Times(r, sep, 1, n + 1) + 1 /\ Cardinality(D) \in Nat
    BY <1>1, <1>6, <2>3, FS_CardinalityType
  <2> HIDE DEF D
  <2>5. Cardinality(D \cup {n + 1}) = Cardinality(D) + 1
    BY <2>1, <2>3, FS_AddElement
  <2>6. Cardinality(E) = Cardinality(D) + 1
    BY <2>1, <2>5
  <2>7. QED
    BY <2>4, <2>6
<1>9. a \in E /\ b \in E /\ a \in Nat /\ b \in Nat /\ a <= n /\ a + 1 \in 1..n + 1 /\ b \in 1..n + 1 /\ a + 1 <= b
  BY <1>1
<1>10. rank(a) = k - 1 /\ rank(b) = k /\ k \in Nat /\ k >= 1 /\ k <= N
  <2> HIDE DEF E, rank, N
  <2>1. Times(r, sep, 1, a + 1) \in Nat /\ Times(r, sep, 1, b) \in Nat /\ Times(r, sep, 1, n + 1) \in Nat
    BY <1>1, <1>9, TimesIs
  <2>2. Times(r, sep, 1, b) = Times(r, sep, 1, a + 1)
    <3>1. 1 \in Nat /\ a + 1 \in Nat /\ 1 <= a + 1
      BY <1>9
    <3>2. QED
      BY <1>9, <3>1, TimesGrow
  <2>3. rank(b) = k
    BY <1>6, <1>9, <2>2
  <2>4. rank(a) = k - 1
    <3>1. CASE a = 0
      <4>1. Times(r, sep, 1, 1) = 0
        BY TimesStart
      <4>2. QED
        BY <1>7, <3>1, <4>1
    <3>2. CASE a # 0
      <4>1. a \in 1..n + 1 /\ 1 <= a /\ r[a] = sep /\ 1 \in Nat
        BY <1>9, <3>2
      <4>2. rank(a) = Times(r, sep, 1, a) + 1
        BY <1>6, <4>1
      <4>3. Times(r, sep, 1, a + 1) = Times(r, sep, 1, a) + 1
        BY <1>9, <4>1, TimesStep
      <4>4. QED
        BY <2>1, <4>2, <4>3
    <3>3. QED
      BY <3>1, <3>2
  <2>5. Times(r, sep, 1, a + 1) <= Times(r, sep, 1, n + 1)
    <3>1. 1 \in Nat /\ a + 1 \in Nat /\ 1 <= a + 1 /\ n + 1 \in Nat /\ a + 1 <= n + 1
      BY <1>1, <1>9
    <3>2. QED
      BY <3>1, TimesGrow
  <2>6. QED
    BY <1>8, <2>1, <2>3, <2>4, <2>5
<1> HIDE DEF E
<1>11. ASSUME NEW y \in E, NEW z \in E, rank(y) = rank(z)
       PROVE  y = z
  <2>1. y \in Nat /\ z \in Nat
    BY <1>3
  <2>2. CASE y < z
    <3>1. rank(y) < rank(z)
      BY <1>3, <1>4, <2>2, RankOnce
    <3>2. IsFiniteSet({c \in E : c < y})
      BY <1>4, FS_Subset
    <3>3. rank(y) \in Nat
      BY <3>2, FS_CardinalityType
    <3> HIDE DEF rank
    <3>4. QED
      BY <1>11, <3>1, <3>3
  <2>3. CASE z < y
    <3>1. rank(z) < rank(y)
      BY <1>3, <1>4, <2>3, RankOnce
    <3>2. IsFiniteSet({c \in E : c < y})
      BY <1>4, FS_Subset
    <3>3. rank(y) \in Nat
      BY <3>2, FS_CardinalityType
    <3> HIDE DEF rank
    <3>4. QED
      BY <1>11, <3>1, <3>3
  <2>4. QED
    BY <2>1, <2>2, <2>3
<1> HIDE DEF rank, k, n
<1>12. th(k - 1) = a
  <2>1. \E y \in E : rank(y) = k - 1
    BY <1>9, <1>10
  <2>2. th(k - 1) \in E /\ rank(th(k - 1)) = k - 1
    BY <2>1
  <2> HIDE DEF th
  <2>3. QED
    BY <1>9, <1>10, <1>11, <2>2
<1>13. th(k) = b
  <2>1. \E y \in E : rank(y) = k
    BY <1>9, <1>10
  <2>2. th(k) \in E /\ rank(th(k)) = k
    BY <2>1
  <2> HIDE DEF th
  <2>3. QED
    BY <1>9, <1>10, <1>11, <2>2
<1> HIDE DEF th
<1>14. N \in Nat /\ k \in 1..N
  <2>1. Times(r, sep, 1, n + 1) \in Nat
    BY <1>1, TimesIs
  <2> HIDE DEF N
  <2>2. QED
    BY <1>8, <1>10, <2>1
<1> HIDE DEF N
<1>15. Len(Pieces(r, sep)) = N /\ Pieces(r, sep)[k] = SubSeq(r, th(k - 1) + 1, th(k) - 1)
  <2> DEFINE P == Pieces(r, sep)
             v(i) == SubSeq(r, th(i - 1) + 1, th(i) - 1)
  <2>1. P = [i \in 1..N |-> v(i)]
    BY <1>2
  <2>2. v(k) = SubSeq(r, th(k - 1) + 1, th(k) - 1)
    OBVIOUS
  <2> HIDE DEF P, v
  <2>3. DOMAIN P = 1..N /\ P[k] = v(k)
    BY <1>14, <2>1
  <2>4. Len(P) = N
    <3> DEFINE T == {v(i) : i \in 1..N}
    <3>1. P \in [1..N -> T]
      BY <2>1
    <3> HIDE DEF T
    <3>2. P \in Seq(T)
      <4>1. Seq(T) = UNION {[1..j -> T] : j \in Nat}
        BY SeqDef
      <4>2. QED
        BY <1>14, <3>1, <4>1
    <3>3. QED
      BY <1>14, <2>3, <3>2, LenProperties
  <2>5. QED
    BY <2>2, <2>3, <2>4 DEF P
<1>16. QED
  BY <1>8, <1>12, <1>13, <1>14, <1>15 DEF k, n

(* The piece of the text from s to in front of e that goes from p to in    *)
(* front of q is the one that has as many separators in front of it.       *)
PieceAt(h, sep, s, e, p, q) ==
    /\ p \in s..e /\ q \in p..e
    /\ p = s \/ h[p - 1] = sep
    /\ q = e \/ h[q] = sep
    /\ \A i \in p..q - 1 : h[i] # sep

PieceHas(h, sep, s, e, p, q) ==
    LET P == Pieces(SubSeq(h, s, e - 1), sep)
        c == Times(h, sep, s, p)
    IN  /\ Len(P) = Times(h, sep, s, e) + 1
        /\ c \in Nat /\ c < Len(P) /\ P[c + 1] = SubSeq(h, p, q - 1)

LEMMA PieceIs ==
  ASSUME NEW h \in Seq(Nat), NEW s \in Nat, NEW e \in Nat, 1 <= s, s <= e, e <= Len(h) + 1,
         NEW sep, NEW p, NEW q, PieceAt(h, sep, s, e, p, q)
  PROVE  PieceHas(h, sep, s, e, p, q)
<1> DEFINE r == SubSeq(h, s, e - 1)
           n == Len(r)
           a == p - s
           b == q - s + 1
           P == Pieces(r, sep)
           c == Times(h, sep, s, p)
<1>a. /\ p \in s..e /\ q \in p..e
      /\ p = s \/ h[p - 1] = sep
      /\ q = e \/ h[q] = sep
      /\ \A i \in p..q - 1 : h[i] # sep
  BY DEF PieceAt
<1>0. /\ p \in Nat /\ q \in Nat /\ s <= p /\ p <= q /\ q <= e
      /\ a \in Nat /\ b \in Nat
  BY <1>a
<1>1. r \in Seq(Nat) /\ n = e - s /\ \A j \in 1..e - s : r[j] = h[s + j - 1]
  BY SliceIs
<1>2. SubSeq(r, a + 1, b - 1) = SubSeq(h, p, q - 1)
  BY <1>a, SliceOfSlice
<1>3. Times(r, sep, 1, a + 1) = c
  BY <1>a, TimesInSlice
<1>4. Times(r, sep, 1, n + 1) = Times(h, sep, s, e)
  <2>1. e \in s..e /\ n + 1 = e - s + 1
    BY <1>1
  <2>2. QED
    BY <2>1, TimesInSlice
<1> HIDE DEF r, n
<1>5. a \in 0..n + 1 /\ b \in 0..n + 1 /\ a < b
  BY <1>0, <1>1
<1>6. a = 0 \/ r[a] = sep
  <2>1. CASE p = s
    BY <1>0, <2>1
  <2>2. CASE p # s
    <3>1. a \in 1..e - s /\ s + a - 1 = p - 1
      BY <1>0, <2>2
    <3>2. r[a] = h[s + a - 1]
      BY <1>1, <3>1
    <3>3. QED
      BY <1>a, <2>2, <3>1, <3>2
  <2>3. QED
    BY <2>1, <2>2
<1>7. b = n + 1 \/ r[b] = sep
  <2>1. CASE q = e
    BY <1>1, <2>1
  <2>2. CASE q # e
    <3>1. b \in 1..e - s /\ s + b - 1 = q
      BY <1>0, <2>2
    <3>2. r[b] = h[s + b - 1]
      BY <1>1, <3>1
    <3>3. QED
      BY <1>a, <2>2, <3>1, <3>2
  <2>3. QED
    BY <2>1, <2>2
<1>8. ASSUME NEW i \in a + 1..b - 1 PROVE r[i] # sep
  <2>1. i \in 1..e - s /\ s + i - 1 \in p..q - 1
    BY <1>0
  <2>2. r[i] = h[s + i - 1]
    BY <1>1, <2>1
  <2>3. QED
    BY <1>a, <2>1, <2>2
<1> HIDE DEF a, b
<1>9. /\ Len(P) = Times(r, sep, 1, n + 1) + 1
      /\ Times(r, sep, 1, a + 1) + 1 \in 1..Len(P)
      /\ P[Times(r, sep, 1, a + 1) + 1] = SubSeq(r, a + 1, b - 1)
  <2>1. n = Len(r)
    BY DEF n
  <2>2. a \in 0..Len(r) + 1 /\ b \in 0..Len(r) + 1 /\ (b = Len(r) + 1 \/ r[b] = sep)
    BY <1>5, <1>7, <2>1
  <2>3. LET k == Times(r, sep, 1, a + 1) + 1
        IN  /\ Len(Pieces(r, sep)) = Times(r, sep, 1, Len(r) + 1) + 1
            /\ k \in 1..Len(Pieces(r, sep))
            /\ Pieces(r, sep)[k] = SubSeq(r, a + 1, b - 1)
    <3> HIDE DEF P, c
    <3>1. QED
      BY <1>1, <1>5, <1>6, <1>8, <2>2, PieceOf
  <2>4. QED
    BY <2>1, <2>3
<1>10. c \in Nat /\ Times(h, sep, s, e) \in Nat
  BY <1>0, TimesIs
<1> HIDE DEF P, c
<1>11. c + 1 \in 1..Len(P) /\ P[c + 1] = SubSeq(h, p, q - 1) /\ Len(P) = Times(h, sep, s, e) + 1
  BY <1>2, <1>3, <1>4, <1>9
<1>12. c < Len(P)
  BY <1>10, <1>11
<1>13. QED
  BY <1>10, <1>11, <1>12 DEF P, c, r, PieceHas

-----------------------------------------------------------------------------
(***************************************************************************)
(* The order of the parts.  A row goes from s to in front of e, a cell of  *)
(* it from p to in front of q; its column is the number of tabs in front   *)
(* of it, and the number of \v in it is the index of its last line.        *)
(***************************************************************************)

Row(h, s, e) ==
    /\ h \in Seq(Nat) /\ s \in Nat /\ e \in Nat /\ 1 <= s /\ s <= e /\ e <= Len(h) + 1
    /\ \A i \in s..e - 1 : h[i] \notin {NUL, NL}
    /\ e <= Len(h) => h[e] \in {NUL, NL}

Span(h, s, e, p, q) ==
    /\ p \in s..e /\ q \in p..e
    /\ p = s \/ h[p - 1] = TAB
    /\ q = e \/ h[q] = TAB
    /\ \A i \in p..q - 1 : h[i] # TAB

Place(h, s, p)  == Times(h, TAB, s, p)
Bottom(h, p, q) == Times(h, VT, p, q)

(* What max_line_in_block says of the cells that have been gone through,   *)
(* which are all of them from the second lines on.                         *)
Deep(h, s, e, i) ==
    /\ i.target_line_in_block <= i.max_line_in_block /\ i.line_in_block <= i.max_line_in_block
    /\ \A p, q \in s..e :
          Span(h, s, e, p, q) /\ (Place(h, s, p) < i.col \/ i.target_line_in_block > 0)
              => Bottom(h, p, q) <= i.max_line_in_block
    /\ \/ i.max_line_in_block = 0
       \/ \E p, q \in s..e : Span(h, s, e, p, q) /\ i.max_line_in_block <= Bottom(h, p, q)

(* The iterator is in its column's cell, in line line_in_block of it.      *)
InSpan(h, s, e, i, p, q) ==
    /\ Span(h, s, e, p, q) /\ i.col = Place(h, s, p)
    /\ i.ptr \in p..q /\ i.line_in_block = Times(h, VT, p, i.ptr)

RowEnd(u, it) == Find(u, it, it.rowstart, {NUL, NL})

(* In front of the first part of its row, or at the part it is asked for:  *)
(* at the start of the line in question, or at the end of a cell without.  *)
At(h, it, p, q) ==
    IF it.target_line_in_block <= Bottom(h, p, q)
    THEN (it.ptr = p \/ h[it.ptr - 1] = VT) /\ it.line_in_block = it.target_line_in_block
    ELSE it.ptr = q

Ordered(u, it) ==
    LET h == help(u, it.rowdesc)
        s == it.rowstart
        e == RowEnd(u, it)
    IN  IF it.col = -1
        THEN /\ it.ptr = s /\ it.line_in_block = 0
             /\ it.max_line_in_block = 0 /\ it.target_line_in_block = 0
        ELSE \E p, q \in s..e :
                InSpan(h, s, e, it, p, q) /\ At(h, it, p, q) /\ Deep(h, s, e, it)

Ordering == pc \in {"width part"} \cup InCells => Ordered(usage, part)

LEMMA SpanIs ==
  ASSUME NEW h, NEW s, NEW e, Row(h, s, e), NEW p, NEW q, Span(h, s, e, p, q)
  PROVE  /\ h \in Seq(Nat) /\ s \in Nat /\ e \in Nat /\ p \in Nat /\ q \in Nat /\ Len(h) \in Nat
         /\ 1 <= s /\ s <= p /\ p <= q /\ q <= e /\ e <= Len(h) + 1
         /\ p \in s..e /\ q \in s..e
<1>1. h \in Seq(Nat) /\ s \in Nat /\ e \in Nat /\ 1 <= s /\ s <= e /\ e <= Len(h) + 1
  BY DEF Row
<1>2. p \in s..e /\ q \in p..e
  BY DEF Span
<1>3. Len(h) \in Nat
  BY <1>1, LenProperties
<1>4. QED
  BY <1>1, <1>2, <1>3

(* A cell begins in front of a row and behind each tab.                    *)
LEMMA SpanFrom ==
  ASSUME NEW h, NEW s, NEW e, Row(h, s, e), NEW p \in s..e, p = s \/ h[p - 1] = TAB
  PROVE  \E q \in s..e : Span(h, s, e, p, q)
<1> DEFINE S == {i \in p..e : i = e \/ h[i] = TAB}
           q == Min(S)
<1>1. s \in Nat /\ e \in Nat /\ p \in Nat /\ s <= p /\ p <= e
  BY DEF Row
<1>2. S \in SUBSET Nat /\ S # {}
  BY <1>1
<1>3. q \in S /\ \A y \in S : q <= y
  BY <1>2, MinIs
<1>4. q \in p..e /\ (q = e \/ h[q] = TAB) /\ q \in s..e
  BY <1>1, <1>3
<1>5. ASSUME NEW i \in p..q - 1 PROVE h[i] # TAB
  <2> HIDE DEF S, q
  <2>1. i \in p..e /\ ~ (q <= i)
    BY <1>1, <1>4
  <2>2. i \notin S
    BY <1>3, <2>1
  <2>3. QED
    BY <2>1, <2>2 DEF S
<1> HIDE DEF q
<1>6. Span(h, s, e, p, q)
  BY <1>4, <1>5 DEF Span
<1>7. QED
  BY <1>4, <1>6

(* Behind a tab, and at the start, a cell has as many tabs in front of it  *)
(* as no other.                                                            *)
LEMMA PlaceBehind ==
  ASSUME NEW h, NEW s, NEW e, Row(h, s, e), NEW p, NEW q, Span(h, s, e, p, q)
  PROVE  /\ Place(h, s, p) \in Nat /\ Place(h, s, e) \in Nat /\ Place(h, s, q) = Place(h, s, p)
         /\ Place(h, s, p) <= Place(h, s, e)
         /\ q = e <=> Place(h, s, p) = Place(h, s, e)
         /\ q < e => Place(h, s, q + 1) = Place(h, s, p) + 1
<1>1. s \in Nat /\ e \in Nat /\ p \in Nat /\ q \in Nat /\ s <= p /\ p <= q /\ q <= e /\ s <= q
  BY SpanIs
<1>2. Place(h, s, p) \in Nat /\ Place(h, s, e) \in Nat /\ Place(h, s, q) \in Nat
  BY <1>1, TimesIs DEF Place
<1>3. Place(h, s, q) = Place(h, s, p)
  BY <1>1, TimesGrow DEF Place, Span
<1>4. ASSUME q < e
      PROVE  Place(h, s, q + 1) = Place(h, s, p) + 1 /\ Place(h, s, q + 1) <= Place(h, s, e)
  <2>1. h[q] = TAB
    BY <1>1, <1>4 DEF Span
  <2>2. Place(h, s, q + 1) = Place(h, s, q) + 1
    BY <1>1, <2>1, TimesStep DEF Place
  <2>3. q + 1 \in Nat /\ s <= q + 1 /\ q + 1 <= e
    BY <1>1, <1>4
  <2>4. Place(h, s, q + 1) <= Place(h, s, e)
    BY <1>1, <2>3, TimesGrow DEF Place
  <2>5. QED
    BY <1>3, <2>2, <2>4
<1>5. CASE q = e
  BY <1>1, <1>2, <1>3, <1>5
<1>6. CASE q < e
  BY <1>1, <1>2, <1>3, <1>4, <1>6
<1>7. QED
  BY <1>1, <1>5, <1>6

LEMMA SpanOnce ==
  ASSUME NEW h, NEW s, NEW e, Row(h, s, e), NEW p, NEW q, Span(h, s, e, p, q),
         NEW v, NEW w, Span(h, s, e, v, w), Place(h, s, p) = Place(h, s, v)
  PROVE  p = v /\ q = w
<1>1. ASSUME NEW a, NEW b, Span(h, s, e, a, b), NEW c, NEW d, Span(h, s, e, c, d), a < c
      PROVE  Place(h, s, a) < Place(h, s, c)
  <2>1. s \in Nat /\ e \in Nat /\ a \in Nat /\ b \in Nat /\ s <= a /\ a <= b /\ b <= e
    BY <1>1, SpanIs
  <2>2. c \in Nat /\ s <= c
    BY <1>1, SpanIs
  <2>3. c # s /\ h[c - 1] = TAB /\ c - 1 \in Nat /\ a <= c - 1 /\ s <= c - 1 /\ (c - 1) + 1 = c
    BY <1>1, <2>1, <2>2 DEF Span
  <2>4. Place(h, s, c) = Place(h, s, c - 1) + 1
    BY <2>1, <2>3, TimesStep DEF Place
  <2>5. Place(h, s, a) <= Place(h, s, c - 1)
    BY <2>1, <2>3, TimesGrow DEF Place
  <2>6. Place(h, s, a) \in Nat /\ Place(h, s, c - 1) \in Nat
    BY <2>1, <2>3, TimesIs DEF Place
  <2>7. QED
    BY <2>4, <2>5, <2>6
<1>2. p \in Nat /\ q \in Nat /\ v \in Nat /\ w \in Nat
  BY SpanIs
<1>3. Place(h, s, p) \in Nat
  BY PlaceBehind
<1>4. p = v
  <2>1. ~ (p < v)
    BY <1>1, <1>3
  <2>2. ~ (v < p)
    BY <1>1, <1>3
  <2>3. QED
    BY <1>2, <2>1, <2>2
<1>5. ASSUME NEW b, Span(h, s, e, p, b), NEW d, Span(h, s, e, p, d)
      PROVE  ~ (b < d)
  <2> SUFFICES ASSUME b < d PROVE FALSE
    OBVIOUS
  <2>1. p \in Nat /\ b \in Nat /\ p <= b /\ d \in Nat /\ d <= e /\ e \in Nat
    BY <1>5, SpanIs
  <2>2. h[b] = TAB /\ b \in p..d - 1
    BY <1>5, <2>1 DEF Span
  <2>3. QED
    BY <1>5, <2>2 DEF Span
<1>6. QED
  BY <1>2, <1>4, <1>5

(* There is a cell for each column up to the last one.                     *)
LEMMA SpanExists ==
  ASSUME NEW h, NEW s, NEW e, Row(h, s, e), NEW c \in Nat, c <= Place(h, s, e)
  PROVE  \E p, q \in s..e : Span(h, s, e, p, q) /\ Place(h, s, p) = c
<1> DEFINE S == {i \in s..e : c <= Place(h, s, i)}
           p == Min(S)
<1>1. s \in Nat /\ e \in Nat /\ s <= e
  BY DEF Row
<1>2. S \in SUBSET Nat /\ S # {}
  BY <1>1
<1>3. p \in S /\ \A y \in S : p <= y
  BY <1>2, MinIs
<1>4. p \in s..e /\ p \in Nat /\ c <= Place(h, s, p)
  BY <1>1, <1>3
<1>5. (p = s \/ h[p - 1] = TAB) /\ Place(h, s, p) = c
  <2>1. CASE p = s
    <3>1. Place(h, s, s) = 0
      BY <1>1, TimesStart DEF Place
    <3>2. QED
      BY <1>4, <2>1, <3>1
  <2>2. CASE p # s
    <3> HIDE DEF p, S
    <3>1. p - 1 \in s..e /\ p - 1 \in Nat /\ s <= p - 1 /\ (p - 1) + 1 = p /\ ~ (p <= p - 1)
      BY <1>1, <1>4, <2>2
    <3>2. p - 1 \notin S
      BY <1>3, <3>1
    <3>3. ~ (c <= Place(h, s, p - 1))
      BY <3>1, <3>2 DEF S
    <3>4. Place(h, s, p) = IF h[p - 1] = TAB THEN Place(h, s, p - 1) + 1 ELSE Place(h, s, p - 1)
      BY <1>1, <3>1, TimesStep DEF Place
    <3>5. Place(h, s, p - 1) \in Nat /\ Place(h, s, p) \in Nat
      BY <1>1, <1>4, <3>1, TimesIs DEF Place
    <3>6. QED
      BY <1>4, <3>3, <3>4, <3>5
  <2>3. QED
    BY <2>1, <2>2
<1> HIDE DEF p
<1>6. PICK q \in s..e : Span(h, s, e, p, q)
  BY <1>4, <1>5, SpanFrom
<1>7. QED
  BY <1>4, <1>5, <1>6

(* The text of an iterator's row.                                          *)
RowOf(u, it, h, s, e) ==
    /\ u \in Helps /\ it \in Iterator /\ Row(h, s, e)
    /\ h = help(u, it.rowdesc) /\ s = it.rowstart

LEMMA RowIs ==
  ASSUME NEW u \in Helps, NEW it, Inside(u, it)
  PROVE  Row(help(u, it.rowdesc), it.rowstart, RowEnd(u, it))
<1> DEFINE h == help(u, it.rowdesc)
           s == it.rowstart
           e == Find(u, it, s, {NUL, NL})
           n == Len(h)
<1>1. h \in Seq(Nat) /\ n \in Nat /\ Long(u, it) = n
  BY HelpIs DEF Long
<1>2. s \in 1..n + 1 /\ s \in Nat
  BY <1>1 DEF Inside, Iterator
<1>3. /\ e \in Nat /\ e <= n + 1 /\ s <= e /\ (e <= n => h[e] \in {NUL, NL})
      /\ \A j \in s..n : h[j] \in {NUL, NL} => e <= j
  BY <1>1, <1>2, FindIs
<1>4. RowEnd(u, it) = e
  BY DEF RowEnd
<1> HIDE DEF e, n, h, s
<1>5. \A i \in s..e - 1 : h[i] \notin {NUL, NL}
  <2> TAKE i \in s..e - 1
  <2>1. i \in s..n /\ ~ (e <= i)
    BY <1>1, <1>2, <1>3
  <2>2. QED
    BY <1>3, <2>1
<1>6. Row(h, s, e)
  BY <1>1, <1>2, <1>3, <1>5 DEF Row, n
<1>7. QED
  BY <1>4, <1>6 DEF h, s

(* The next separator in a cell is a \v, or what ends it.                  *)
LEMMA AheadInSpan ==
  ASSUME NEW u, NEW i, NEW h, NEW s, NEW e, RowOf(u, i, h, s, e),
         NEW p, NEW q, Span(h, s, e, p, q), i.ptr \in p..q
  PROVE  LET f == Find(u, i, i.ptr, Separators)
         IN  /\ f \in Nat /\ f \in i.ptr..q /\ f \in p..q
             /\ Mark(u, i) = VT <=> f < q
             /\ Mark(u, i) = TAB <=> f = q /\ q < e
             /\ f < q => h[f] = VT
             /\ \A j \in i.ptr..f - 1 : h[j] # VT
             /\ Times(h, VT, p, f) = Times(h, VT, p, i.ptr)
<1> DEFINE f == Find(u, i, i.ptr, Separators)
           n == Len(h)
<1>1. /\ u \in Helps /\ i \in Iterator /\ h = help(u, i.rowdesc) /\ Long(u, i) = n
      /\ i.ptr \in Nat
  BY DEF RowOf, Iterator, Long
<1>2. /\ s \in Nat /\ e \in Nat /\ p \in Nat /\ q \in Nat /\ n \in Nat
      /\ 1 <= s /\ s <= p /\ p <= q /\ q <= e /\ e <= n + 1
  BY SpanIs DEF RowOf
<1>3. i.ptr <= n + 1 /\ p <= i.ptr /\ i.ptr <= q
  BY <1>1, <1>2
<1>4. /\ f \in Nat /\ f <= n + 1 /\ i.ptr <= f /\ (f <= n => h[f] \in Separators)
      /\ \A j \in i.ptr..n : h[j] \in Separators => f <= j
  BY <1>1, <1>3, FindIs
<1>5. Mark(u, i) = IF f > n THEN NUL ELSE h[f]
  <2>1. Ahead(u, i).rowdesc = i.rowdesc /\ Ahead(u, i).ptr = f
    BY <1>1 DEF Ahead, Iterator
  <2>2. QED
    BY <1>1, <2>1 DEF Mark, Char
<1> HIDE DEF f, n
<1>6. /\ \A j \in s..e - 1 : h[j] \notin {NUL, NL}
      /\ e <= n => h[e] \in {NUL, NL}
  BY DEF RowOf, Row, n
<1>7. (q = e \/ h[q] = TAB) /\ \A j \in p..q - 1 : h[j] # TAB
  BY DEF Span
<1>8. NUL # TAB /\ NUL # VT /\ NL # TAB /\ NL # VT /\ TAB # VT /\ Separators = {NUL, TAB, NL, VT}
  BY DEF NUL, TAB, NL, VT, Separators
<1>9. f <= q
  <2>1. CASE q <= n
    <3>1. h[q] \in Separators
      BY <1>6, <1>7, <1>8, <2>1
    <3>2. q \in i.ptr..n
      BY <1>1, <1>2, <1>3, <2>1
    <3>3. QED
      BY <1>4, <3>1, <3>2
  <2>2. CASE ~ (q <= n)
    BY <1>2, <1>4, <2>2
  <2>3. QED
    BY <2>1, <2>2
<1>10. f \in i.ptr..q /\ f \in p..q
  BY <1>1, <1>2, <1>3, <1>4, <1>9
<1>11. ASSUME f < q PROVE h[f] = VT /\ Mark(u, i) = VT
  <2>1. f <= n /\ f \in s..e - 1 /\ f \in p..q - 1 /\ ~ (f > n)
    BY <1>1, <1>2, <1>3, <1>4, <1>11
  <2>2. h[f] \in Separators /\ h[f] \notin {NUL, NL} /\ h[f] # TAB
    BY <1>4, <1>6, <1>7, <2>1
  <2>3. h[f] = VT
    BY <1>8, <2>2
  <2>4. QED
    BY <1>5, <2>1, <2>3
<1>12. ASSUME f = q, q < e PROVE Mark(u, i) = TAB
  <2>1. ~ (f > n) /\ h[q] = TAB
    BY <1>2, <1>7, <1>12
  <2>2. QED
    BY <1>5, <1>12, <2>1
<1>13. ASSUME f = q, q = e PROVE Mark(u, i) \in {NUL, NL}
  <2>1. CASE f > n
    BY <1>5, <2>1
  <2>2. CASE ~ (f > n)
    <3>1. e <= n
      BY <1>2, <1>13, <2>2
    <3>2. QED
      BY <1>5, <1>6, <1>13, <2>2, <3>1
  <2>3. QED
    BY <2>1, <2>2
<1>14. (Mark(u, i) = VT <=> f < q) /\ (Mark(u, i) = TAB <=> (f = q /\ q < e))
  <2>1. f < q \/ (f = q /\ q < e) \/ (f = q /\ q = e)
    BY <1>2, <1>4, <1>9
  <2>2. CASE f < q
    BY <1>8, <1>11, <2>2, <1>2, <1>4
  <2>3. CASE f = q /\ q < e
    BY <1>8, <1>12, <2>3, <1>2, <1>4
  <2>4. CASE f = q /\ q = e
    BY <1>8, <1>13, <2>4, <1>2, <1>4
  <2>5. QED
    BY <2>1, <2>2, <2>3, <2>4
<1>15. ASSUME NEW j \in i.ptr..f - 1 PROVE h[j] # VT
  <2>1. j \in i.ptr..n /\ ~ (f <= j)
    BY <1>1, <1>2, <1>3, <1>4
  <2>2. QED
    BY <1>4, <1>8, <2>1
<1>16. Times(h, VT, p, f) = Times(h, VT, p, i.ptr)
  BY <1>1, <1>2, <1>3, <1>4, <1>15, TimesGrow
<1>17. QED
  BY <1>4, <1>10, <1>11, <1>14, <1>15, <1>16 DEF f

(* What the steps of the loop do to max_line_in_block.                     *)
LEMMA BehindMax ==
  ASSUME NEW u \in Helps, NEW i \in Iterator
  PROVE  Behind(u, i).max_line_in_block =
             IF Mark(u, i) = VT THEN upmax(i.max_line_in_block, i.line_in_block + 1)
             ELSE i.max_line_in_block
<1> DEFINE j == Ahead(u, i)
           m == upmax(j.max_line_in_block, j.line_in_block + 1)
<1>1. j \in Iterator /\ j = [i EXCEPT !.ptr = j.ptr]
  BY AheadIs
<1> HIDE DEF j
<1>2. j.line_in_block = i.line_in_block /\ j.max_line_in_block = i.max_line_in_block
  BY <1>1 DEF Iterator
<1>3. CASE Mark(u, i) = VT
  <2>1. Behind(u, i) = Down(j)
    BY <1>3 DEF Behind, j
  <2>2. Down(j) = [j EXCEPT !.line_in_block = @ + 1, !.ptr = @ + 1, !.max_line_in_block = m]
    BY DEF Down
  <2> HIDE DEF m
  <2>3. Down(j).max_line_in_block = m
    BY <1>1, <2>2 DEF Iterator
  <2>4. QED
    BY <1>2, <1>3, <2>1, <2>3 DEF m
<1>4. CASE Mark(u, i) # VT
  <2>1. Behind(u, i) = Right(j)
    BY <1>4 DEF Behind, j
  <2>2. Right(j).max_line_in_block = j.max_line_in_block
    BY <1>1 DEF Right, Iterator
  <2>3. QED
    BY <1>2, <1>4, <2>1, <2>2
<1>5. QED
  BY <1>3, <1>4

LEMMA FoundMax ==
  ASSUME NEW u \in Helps, NEW k, Inside(u, k)
  PROVE  Found(u, k).it.max_line_in_block = k.max_line_in_block
<1> DEFINE i == update_length(u, k)
<1>1. Found(u, k).it = [i EXCEPT !.hit_target_line = TRUE]
  BY DEF Found
<1>2. k \in Iterator
  BY DEF Inside
<1>3. Inside(u, i) /\ i = [k EXCEPT !.len = i.len, !.screenlen = i.screenlen]
  BY UpdateIs
<1> HIDE DEF i
<1>4. i \in Iterator
  BY <1>3 DEF Inside
<1>5. i.max_line_in_block = k.max_line_in_block
  BY <1>2, <1>3 DEF Iterator
<1>6. QED
  BY <1>1, <1>4, <1>5 DEF Iterator

(* No line of a cell is below its bottom.                                  *)
LEMMA DepthIs ==
  ASSUME NEW h, NEW s, NEW e, Row(h, s, e), NEW p, NEW q, Span(h, s, e, p, q), NEW f \in p..q
  PROVE  /\ Times(h, VT, p, f) \in Nat /\ Bottom(h, p, q) \in Nat
         /\ Times(h, VT, p, f) <= Bottom(h, p, q)
<1>1. p \in Nat /\ q \in Nat /\ f \in Nat /\ p <= f /\ f <= q /\ p <= q
  <2>1. p \in Nat /\ q \in Nat
    BY SpanIs
  <2>2. QED
    BY <2>1
<1>2. QED
  BY <1>1, TimesIs, TimesGrow DEF Bottom

(* A cell has been gone through at its end, and a row at its last cell's.  *)
LEMMA CellEnds ==
  ASSUME NEW u, NEW i, NEW h, NEW s, NEW e, RowOf(u, i, h, s, e), Deep(h, s, e, i),
         NEW p, NEW q, InSpan(h, s, e, i, p, q), Mark(u, i) # VT
  PROVE  /\ Find(u, i, i.ptr, Separators) = q /\ i.line_in_block = Bottom(h, p, q)
         /\ Bottom(h, p, q) <= i.max_line_in_block
         /\ \A v, w \in s..e : Span(h, s, e, v, w)
                   /\ (Place(h, s, v) <= i.col \/ i.target_line_in_block > 0)
                => Bottom(h, v, w) <= i.max_line_in_block
         /\ Mark(u, i) # TAB =>
               q = e /\ \A v, w \in s..e : Span(h, s, e, v, w) => Bottom(h, v, w) <= i.max_line_in_block
<1> DEFINE f == Find(u, i, i.ptr, Separators)
           m == i.max_line_in_block
<1>0. Row(h, s, e) /\ Span(h, s, e, p, q) /\ i.ptr \in p..q /\ i.col = Place(h, s, p)
      /\ i.line_in_block = Times(h, VT, p, i.ptr)
  BY DEF RowOf, InSpan
<1>1. /\ f \in p..q /\ (Mark(u, i) = VT <=> f < q) /\ (Mark(u, i) = TAB <=> (f = q /\ q < e))
      /\ Times(h, VT, p, f) = Times(h, VT, p, i.ptr)
  BY <1>0, AheadInSpan
<1>2. p \in Nat /\ q \in Nat /\ e \in Nat /\ q <= e
  BY <1>0, SpanIs
<1> HIDE DEF f, m
<1>3. f = q
  BY <1>1, <1>2
<1>4. i.line_in_block = Bottom(h, p, q)
  BY <1>0, <1>1, <1>3 DEF Bottom
<1>5. Bottom(h, p, q) <= m
  BY <1>4 DEF Deep, m
<1>6. ASSUME NEW v \in s..e, NEW w \in s..e, Span(h, s, e, v, w),
             Place(h, s, v) <= i.col \/ i.target_line_in_block > 0
      PROVE  Bottom(h, v, w) <= m
  <2>1. CASE Place(h, s, v) < i.col \/ i.target_line_in_block > 0
    BY <1>6, <2>1 DEF Deep, m
  <2>2. CASE Place(h, s, v) = i.col
    <3>1. p = v /\ q = w
      BY <1>0, <1>6, <2>2, SpanOnce
    <3>2. QED
      BY <1>5, <3>1
  <2>3. Place(h, s, v) \in Nat /\ i.col \in Nat
    BY <1>0, <1>6, PlaceBehind
  <2>4. QED
    BY <1>6, <2>1, <2>2, <2>3
<1>7. ASSUME Mark(u, i) # TAB
      PROVE  q = e /\ \A v, w \in s..e : Span(h, s, e, v, w) => Bottom(h, v, w) <= m
  <2>1. q = e
    BY <1>1, <1>2, <1>3, <1>7
  <2>2. ASSUME NEW v \in s..e, NEW w \in s..e, Span(h, s, e, v, w) PROVE Bottom(h, v, w) <= m
    <3>1. Place(h, s, v) <= Place(h, s, e) /\ Place(h, s, p) = Place(h, s, e)
      BY <1>0, <2>1, <2>2, PlaceBehind
    <3>2. QED
      BY <1>0, <1>6, <2>2, <3>1
  <2>3. QED
    BY <2>1, <2>2
<1>8. QED
  BY <1>3, <1>4, <1>5, <1>6, <1>7 DEF f, m

(* The loop goes down to the next line of the cell.                        *)
LEMMA DownInSpan ==
  ASSUME NEW u, NEW i, NEW h, NEW s, NEW e, RowOf(u, i, h, s, e), Deep(h, s, e, i),
         NEW p, NEW q, InSpan(h, s, e, i, p, q), Mark(u, i) = VT
  PROVE  LET b == Behind(u, i)
         IN  RowOf(u, b, h, s, e) /\ Deep(h, s, e, b) /\ InSpan(h, s, e, b, p, q) /\ h[b.ptr - 1] = VT
<1> DEFINE f == Find(u, i, i.ptr, Separators)
           b == Behind(u, i)
           m == i.max_line_in_block
           l == i.line_in_block
<1>0. /\ u \in Helps /\ i \in Iterator /\ Row(h, s, e) /\ h = help(u, i.rowdesc) /\ s = i.rowstart
      /\ Span(h, s, e, p, q) /\ i.ptr \in p..q /\ i.col = Place(h, s, p)
      /\ l = Times(h, VT, p, i.ptr)
  BY DEF RowOf, InSpan
<1>1. /\ f \in p..q /\ f < q /\ h[f] = VT /\ Times(h, VT, p, f) = Times(h, VT, p, i.ptr)
  BY <1>0, AheadInSpan
<1>2. p \in Nat /\ q \in Nat /\ e \in Nat /\ q <= e /\ p \in s..e /\ q \in s..e
  BY <1>0, SpanIs
<1>3. Ahead(u, i).ptr = f
  BY <1>0, AheadIs
<1>4. /\ b \in Iterator /\ b.ptr = f + 1 /\ b.rowdesc = i.rowdesc /\ b.rowstart = i.rowstart
      /\ b.target_line_in_block = i.target_line_in_block /\ b.col = i.col
      /\ b.line_in_block = l + 1
  <2>1. /\ b \in Iterator /\ b.ptr = Ahead(u, i).ptr + 1 /\ b.rowdesc = i.rowdesc /\ b.rowstart = i.rowstart
        /\ b.target_line_in_block = i.target_line_in_block
        /\ b.col = (IF Mark(u, i) = VT THEN i.col ELSE i.col + 1)
        /\ b.line_in_block = (IF Mark(u, i) = VT THEN i.line_in_block + 1 ELSE 0)
    BY <1>0, BehindIs
  <2> HIDE DEF b, f
  <2>2. QED
    BY <1>3, <2>1
<1>5. b.max_line_in_block = upmax(m, l + 1)
  BY <1>0, BehindMax
<1>6. m \in Nat /\ l \in Nat /\ i.target_line_in_block \in Nat
  BY <1>0 DEF Iterator
<1> HIDE DEF f, b, m, l
<1>7. f \in Nat /\ p <= f /\ f + 1 \in p..q /\ (f + 1) - 1 = f
  BY <1>1, <1>2
<1>8. Times(h, VT, p, f + 1) = l + 1
  BY <1>0, <1>1, <1>2, <1>7, TimesStep
<1>9. InSpan(h, s, e, b, p, q) /\ h[b.ptr - 1] = VT
  BY <1>0, <1>1, <1>4, <1>7, <1>8 DEF InSpan
<1>10. RowOf(u, b, h, s, e)
  BY <1>0, <1>4 DEF RowOf
<1>11. b.max_line_in_block \in {m, l + 1} /\ b.max_line_in_block >= m /\ b.max_line_in_block >= l + 1
       /\ b.max_line_in_block \in Nat
  BY <1>5, <1>6 DEF upmax
<1>12. Deep(h, s, e, b)
  <2>1. b.target_line_in_block <= b.max_line_in_block /\ b.line_in_block <= b.max_line_in_block
    BY <1>4, <1>6, <1>11 DEF Deep, m
  <2>2. ASSUME NEW v \in s..e, NEW w \in s..e, Span(h, s, e, v, w),
               Place(h, s, v) < b.col \/ b.target_line_in_block > 0
        PROVE  Bottom(h, v, w) <= b.max_line_in_block
    <3>1. Bottom(h, v, w) <= m
      BY <1>4, <2>2 DEF Deep, m
    <3>2. Bottom(h, v, w) \in Nat
      <4>1. w \in v..w
        BY <2>2 DEF Span
      <4>2. QED
        BY <1>0, <2>2, <4>1, DepthIs
    <3>3. QED
      BY <1>6, <1>11, <3>1, <3>2
  <2>3. b.max_line_in_block = 0
        \/ \E v, w \in s..e : Span(h, s, e, v, w) /\ b.max_line_in_block <= Bottom(h, v, w)
    <3>1. CASE b.max_line_in_block = m
      BY <3>1 DEF Deep, m
    <3>2. CASE b.max_line_in_block = l + 1
      <4>1. l + 1 <= Bottom(h, p, q)
        BY <1>0, <1>7, <1>8, DepthIs
      <4>2. QED
        BY <1>0, <1>2, <3>2, <4>1
    <3>3. QED
      BY <1>11, <3>1, <3>2
  <2>4. QED
    BY <2>1, <2>2, <2>3 DEF Deep
<1>13. QED
  BY <1>9, <1>10, <1>12 DEF b

(* It goes right to the next cell.                                         *)
LEMMA RightInSpan ==
  ASSUME NEW u, NEW i, NEW h, NEW s, NEW e, RowOf(u, i, h, s, e), Deep(h, s, e, i),
         NEW p, NEW q, InSpan(h, s, e, i, p, q), Mark(u, i) = TAB
  PROVE  LET b == Behind(u, i)
         IN  /\ RowOf(u, b, h, s, e) /\ Deep(h, s, e, b) /\ q < e
             /\ \E w \in s..e : InSpan(h, s, e, b, q + 1, w) /\ b.ptr = q + 1
<1> DEFINE f == Find(u, i, i.ptr, Separators)
           b == Behind(u, i)
           m == i.max_line_in_block
<1>0. /\ u \in Helps /\ i \in Iterator /\ Row(h, s, e) /\ h = help(u, i.rowdesc) /\ s = i.rowstart
      /\ Span(h, s, e, p, q) /\ i.ptr \in p..q /\ i.col = Place(h, s, p)
  BY DEF RowOf, InSpan
<1>1. f = q /\ q < e
  BY <1>0, AheadInSpan
<1>2. p \in Nat /\ q \in Nat /\ e \in Nat /\ q <= e /\ p \in s..e /\ q \in s..e /\ s \in Nat /\ s <= q
  BY <1>0, SpanIs
<1>3. Ahead(u, i).ptr = f
  BY <1>0, AheadIs
<1>4. TAB # VT
  BY DEF TAB, VT
<1>5. /\ b \in Iterator /\ b.ptr = f + 1 /\ b.rowdesc = i.rowdesc /\ b.rowstart = i.rowstart
      /\ b.target_line_in_block = i.target_line_in_block /\ b.col = i.col + 1
      /\ b.line_in_block = 0
  <2>1. /\ b \in Iterator /\ b.ptr = Ahead(u, i).ptr + 1 /\ b.rowdesc = i.rowdesc /\ b.rowstart = i.rowstart
        /\ b.target_line_in_block = i.target_line_in_block
        /\ b.col = (IF Mark(u, i) = VT THEN i.col ELSE i.col + 1)
        /\ b.line_in_block = (IF Mark(u, i) = VT THEN i.line_in_block + 1 ELSE 0)
    BY <1>0, BehindIs
  <2> HIDE DEF b, f
  <2>2. QED
    BY <1>3, <1>4, <2>1
<1>6. b.max_line_in_block = m
  BY <1>0, <1>4, BehindMax
<1>7. m \in Nat /\ i.target_line_in_block \in Nat
  BY <1>0 DEF Iterator
<1>8. \A v, w \in s..e : Span(h, s, e, v, w)
                   /\ (Place(h, s, v) <= i.col \/ i.target_line_in_block > 0)
                => Bottom(h, v, w) <= m
  BY <1>4, CellEnds
<1> HIDE DEF f, b, m
<1>9. q + 1 \in s..e /\ (q + 1) - 1 = q /\ h[q] = TAB
  <2>1. h[q] = TAB
    BY <1>0, <1>1, <1>2 DEF Span
  <2>2. QED
    BY <1>1, <1>2, <2>1
<1>10. PICK w \in s..e : Span(h, s, e, q + 1, w)
  BY <1>0, <1>9, SpanFrom
<1>11. Place(h, s, q + 1) = i.col + 1
  BY <1>0, <1>1, PlaceBehind
<1>12. q + 1 \in q + 1..w /\ Times(h, VT, q + 1, q + 1) = 0
  <2>1. q + 1 \in Nat /\ w \in Nat /\ q + 1 <= w
    BY <1>0, <1>10, SpanIs
  <2>2. QED
    BY <2>1, TimesStart
<1>13. InSpan(h, s, e, b, q + 1, w) /\ b.ptr = q + 1
  BY <1>1, <1>5, <1>10, <1>11, <1>12 DEF InSpan
<1>14. RowOf(u, b, h, s, e)
  BY <1>0, <1>5 DEF RowOf
<1>15. Deep(h, s, e, b)
  <2>1. b.target_line_in_block <= b.max_line_in_block /\ b.line_in_block <= b.max_line_in_block
    BY <1>5, <1>6, <1>7 DEF Deep, m
  <2>2. ASSUME NEW v \in s..e, NEW y \in s..e, Span(h, s, e, v, y),
               Place(h, s, v) < b.col \/ b.target_line_in_block > 0
        PROVE  Bottom(h, v, y) <= b.max_line_in_block
    <3>1. Place(h, s, v) \in Nat /\ i.col \in Nat
      BY <1>0, <2>2, PlaceBehind
    <3>2. Place(h, s, v) <= i.col \/ i.target_line_in_block > 0
      BY <1>5, <2>2, <3>1
    <3>3. QED
      BY <1>6, <1>8, <2>2, <3>2
  <2>3. b.max_line_in_block = 0
        \/ \E v, y \in s..e : Span(h, s, e, v, y) /\ b.max_line_in_block <= Bottom(h, v, y)
    BY <1>6 DEF Deep, m
  <2>4. QED
    BY <2>1, <2>2, <2>3 DEF Deep
<1>16. QED
  BY <1>1, <1>13, <1>14, <1>15 DEF b

(* It starts again with the first cell.                                    *)
LEMMA AgainInSpan ==
  ASSUME NEW u, NEW i, NEW h, NEW s, NEW e, RowOf(u, i, h, s, e), Deep(h, s, e, i),
         NEW p, NEW q, InSpan(h, s, e, i, p, q), Mark(u, i) \notin {VT, TAB},
         i.target_line_in_block < i.max_line_in_block
  PROVE  LET a == Again(Ahead(u, i))
         IN  /\ RowOf(u, a, h, s, e) /\ Deep(h, s, e, a) /\ a.ptr = s
             /\ \E w \in s..e : InSpan(h, s, e, a, s, w)
<1> DEFINE j == Ahead(u, i)
           a == Again(j)
           m == i.max_line_in_block
           t == i.target_line_in_block
<1>0. /\ u \in Helps /\ i \in Iterator /\ Row(h, s, e) /\ h = help(u, i.rowdesc) /\ s = i.rowstart
      /\ Span(h, s, e, p, q) /\ i.ptr \in p..q /\ i.col = Place(h, s, p)
  BY DEF RowOf, InSpan
<1>1. s \in Nat /\ e \in Nat /\ s <= e /\ s \in s..e
  BY <1>0 DEF Row
<1>2. j \in Iterator /\ j = [i EXCEPT !.ptr = j.ptr]
  BY <1>0, AheadIs
<1> HIDE DEF j
<1>3. /\ j.rowdesc = i.rowdesc /\ j.rowstart = i.rowstart /\ j.target_line_in_block = t
      /\ j.max_line_in_block = m /\ m \in Nat /\ t \in Nat
  BY <1>0, <1>2 DEF Iterator
<1>4. /\ a \in Iterator /\ a.ptr = s /\ a.rowdesc = i.rowdesc /\ a.rowstart = s
      /\ a.target_line_in_block = t + 1 /\ a.line_in_block = 0
      /\ a.max_line_in_block = m /\ a.col = 0
  BY <1>0, <1>2, <1>3, AgainIs
<1>5. \A v, w \in s..e : Span(h, s, e, v, w) => Bottom(h, v, w) <= m
  BY CellEnds
<1> HIDE DEF a, m, t
<1>6. PICK w \in s..e : Span(h, s, e, s, w)
  BY <1>0, <1>1, SpanFrom
<1>7. Place(h, s, s) = 0 /\ Times(h, VT, s, s) = 0 /\ s \in s..w
  BY <1>1, <1>6, TimesStart DEF Place
<1>8. InSpan(h, s, e, a, s, w)
  BY <1>4, <1>6, <1>7 DEF InSpan
<1>9. RowOf(u, a, h, s, e)
  BY <1>0, <1>4 DEF RowOf
<1>10. Deep(h, s, e, a)
  <2>1. t + 1 <= m
    BY <1>3 DEF t, m
  <2>2. \/ m = 0
        \/ \E v, y \in s..e : Span(h, s, e, v, y) /\ m <= Bottom(h, v, y)
    BY DEF Deep, m
  <2>3. QED
    BY <1>3, <1>4, <1>5, <2>1, <2>2 DEF Deep
<1>11. QED
  BY <1>4, <1>8, <1>9, <1>10 DEF a, j

(* The parts of a row have the same text around them.                      *)
LEMMA SameRowOf ==
  ASSUME NEW u \in Helps, NEW a \in Iterator, NEW b \in Iterator, SameRow(a, b), Inside(u, b)
  PROVE  /\ RowEnd(u, a) = RowEnd(u, b)
         /\ RowOf(u, a, help(u, b.rowdesc), b.rowstart, RowEnd(u, b))
<1>1. a.rowdesc = b.rowdesc /\ a.rowstart = b.rowstart
  BY DEF SameRow
<1>2. RowEnd(u, a) = RowEnd(u, b)
  BY <1>1 DEF RowEnd, Find
<1>3. Row(help(u, b.rowdesc), b.rowstart, RowEnd(u, b))
  BY RowIs
<1>4. QED
  BY <1>1, <1>2, <1>3 DEF RowOf

(* What Deep and InSpan look at.                                           *)
LEMMA SameDepth ==
  ASSUME NEW h, NEW s, NEW e, NEW a, NEW b, Deep(h, s, e, b), a.col = b.col,
         a.target_line_in_block = b.target_line_in_block, a.line_in_block = b.line_in_block,
         a.max_line_in_block = b.max_line_in_block
  PROVE  Deep(h, s, e, a)
BY DEF Deep

LEMMA FoundOrdered ==
  ASSUME NEW u \in Helps, NEW it \in Iterator, Inside(u, it), NEW k, Inside(u, k), k.col >= 0, SameRow(k, it),
         NEW h, NEW s, NEW e, h = help(u, it.rowdesc), s = it.rowstart, e = RowEnd(u, it),
         NEW p \in s..e, NEW q \in s..e, InSpan(h, s, e, k, p, q), At(h, k, p, q), Deep(h, s, e, k)
  PROVE  LET f == Found(u, k).it
         IN  /\ Found(u, k).ok /\ Ordered(u, f) /\ f.col = k.col
             /\ f.target_line_in_block = k.target_line_in_block
<1> DEFINE f == Found(u, k).it
<1>1. /\ Found(u, k).ok /\ AtText(u, f) /\ SameRow(f, k) /\ f.col = k.col /\ f.ptr = k.ptr
      /\ f.line_in_block = k.line_in_block /\ f.target_line_in_block = k.target_line_in_block
  BY FoundCell
<1>2. f.max_line_in_block = k.max_line_in_block
  BY FoundMax
<1> HIDE DEF f
<1>3. f \in Iterator /\ SameRow(f, it)
  BY <1>1 DEF AtText, Inside, SameRow
<1>4. RowEnd(u, f) = e /\ help(u, f.rowdesc) = h /\ f.rowstart = s
  BY <1>3, SameRowOf DEF SameRow
<1>5. Deep(h, s, e, f)
  BY <1>1, <1>2, SameDepth
<1>6. InSpan(h, s, e, f, p, q)
  BY <1>1 DEF InSpan
<1>7. At(h, f, p, q)
  BY <1>1 DEF At
<1>8. f.col # -1
  <2>1. k.col \in Int
    BY DEF Inside, Iterator
  <2>2. QED
    BY <1>1, <2>1
<1>9. Ordered(u, f)
  BY <1>4, <1>5, <1>6, <1>7, <1>8 DEF Ordered
<1>10. QED
  BY <1>1, <1>9 DEF f

(* The part that comes next: that of the next cell, or the next one of the *)
(* first.                                                                  *)
More(u, it)     == it.col < Place(help(u, it.rowdesc), it.rowstart, RowEnd(u, it))
NextCol(u, it)  == IF More(u, it) THEN it.col + 1 ELSE 0
NextLine(u, it) == IF More(u, it) THEN it.target_line_in_block ELSE it.target_line_in_block + 1

LEMMA NextOrdered ==
  ASSUME NEW u \in Helps, NEW it, AtCell(u, it), Ordered(u, it), it.col # -1
  PROVE  LET n == next(u, it)
             h == help(u, it.rowdesc)
             s == it.rowstart
             e == RowEnd(u, it)
         IN  /\ n.ok => /\ Ordered(u, n.it) /\ n.it.col = NextCol(u, it)
                        /\ n.it.target_line_in_block = NextLine(u, it)
             /\ ~ n.ok => /\ ~ More(u, it)
                          /\ \A v, w \in s..e : Span(h, s, e, v, w) => Bottom(h, v, w) < NextLine(u, it)
<1> DEFINE h == help(u, it.rowdesc)
           s == it.rowstart
           e == RowEnd(u, it)
           c == it.col
           l == it.target_line_in_block
           p0 == it.ptr + it.len
           j == [it EXCEPT !.ptr = p0]
           Hit(i) == /\ i.col = c /\ i.target_line_in_block = l
                     /\ i.line_in_block >= l \/ Mark(u, i) # VT
           Next1(i) == i.col = NextCol(u, it) /\ i.target_line_in_block = NextLine(u, it)
           Miss(i) == Next1(i) /\ i.line_in_block < i.target_line_in_block
           G == {i \in Iterator : /\ Inside(u, i) /\ SameRow(i, it) /\ i.col >= 0
                                  /\ Deep(h, s, e, i) /\ (\E p, q \in s..e : InSpan(h, s, e, i, p, q))
                                  /\ IF i.hit_target_line THEN Hit(i) ELSE Miss(i)}
<1>1. /\ it \in Iterator /\ it.ptr # 0 /\ it.ptr \in Nat /\ it.hit_target_line /\ AtText(u, it)
      /\ it.len \in Nat /\ Inside(u, it) /\ Cell(u, it) /\ AtPart(u, it)
      /\ c \in Nat /\ it.line_in_block \in Nat /\ l \in Nat
  <2>1. it \in Iterator /\ AtText(u, it) /\ Inside(u, it) /\ Cell(u, it) /\ AtPart(u, it) /\ it.hit_target_line
    BY DEF AtCell, AtText, Inside, Cell
  <2>2. it.col \in Int /\ it.col >= -1 /\ it.col # -1
    BY <2>1 DEF AtText, Iterator
  <2>3. QED
    BY <2>1, <2>2 DEF Inside, Iterator
<1>2. next(u, it) = Loop(u, j)
  BY <1>1 DEF next
<1>3. p0 \in 1..Long(u, it) + 1 /\ p0 = Find(u, it, it.ptr, Separators) /\ Find(u, it, p0, Separators) = p0
  BY <1>1, PartEnds
<1>4. it.line_in_block < p0
  BY <1>1 DEF Inside
<1>5. behind(u, it) = Char(u, it, p0)
  BY DEF behind
<1> HIDE DEF p0
<1>6. /\ j \in Iterator /\ j.ptr = p0 /\ SameRow(j, it) /\ j.col = c
      /\ j.line_in_block = it.line_in_block /\ j.target_line_in_block = l
      /\ j.max_line_in_block = it.max_line_in_block /\ j.hit_target_line
  <2>1. p0 \in Nat
    BY <1>3
  <2>2. QED
    BY <1>1, <2>1 DEF Iterator, SameRow
<1> HIDE DEF j
<1>7. Long(u, j) = Long(u, it)
  BY <1>6 DEF Long, SameRow
<1>8. Inside(u, j)
  BY <1>1, <1>3, <1>4, <1>6, <1>7 DEF Inside, SameRow
<1>9. Mark(u, j) = behind(u, it)
  <2>1. Find(u, j, j.ptr, Separators) = p0
    BY <1>3, <1>6 DEF Find, SameRow
  <2>2. Ahead(u, j).rowdesc = j.rowdesc /\ Ahead(u, j).ptr = p0
    BY <1>6, <2>1 DEF Ahead, Iterator
  <2>3. Mark(u, j) = Char(u, j, p0)
    BY <2>2 DEF Mark, Char
  <2>4. QED
    BY <1>5, <1>6, <2>3 DEF Char, SameRow
<1>10. PICK p1 \in s..e, q1 \in s..e : InSpan(h, s, e, it, p1, q1) /\ Deep(h, s, e, it)
  BY DEF Ordered
<1>11. RowOf(u, it, h, s, e)
  BY <1>1, SameRowOf DEF SameRow
<1> HIDE DEF h, s, e, c, l
<1>12. j \in G
  <2>1. j.line_in_block >= l \/ Mark(u, j) # VT
    BY <1>1, <1>6, <1>9 DEF Cell, l
  <2>2. Deep(h, s, e, j)
    BY <1>6, <1>10, SameDepth DEF c, l
  <2>3. Span(h, s, e, p1, q1) /\ it.ptr \in p1..q1 /\ it.line_in_block = Times(h, VT, p1, it.ptr)
        /\ c = Place(h, s, p1)
    BY <1>10 DEF InSpan, c
  <2>4. p0 \in p1..q1 /\ Times(h, VT, p1, p0) = Times(h, VT, p1, it.ptr)
    BY <1>3, <1>11, <2>3, AheadInSpan
  <2>5. InSpan(h, s, e, j, p1, q1)
    BY <1>6, <2>3, <2>4 DEF InSpan
  <2>6. Hit(j) /\ j.col >= 0
    BY <1>1, <1>6, <2>1
  <2> HIDE DEF Hit
  <2>7. QED
    BY <1>6, <1>8, <2>2, <2>5, <2>6
<1>13. ASSUME NEW i \in G
       PROVE  /\ i \in Iterator /\ Inside(u, i) /\ SameRow(i, it) /\ i.col >= 0 /\ Deep(h, s, e, i)
              /\ RowOf(u, i, h, s, e)
              /\ \E p, q \in s..e : InSpan(h, s, e, i, p, q)
              /\ i.col \in Int /\ i.line_in_block \in Nat /\ i.target_line_in_block \in Nat
              /\ i.hit_target_line \in BOOLEAN /\ i.max_line_in_block \in Nat
              /\ i.hit_target_line => Hit(i)
              /\ ~ i.hit_target_line => Miss(i)
  <2>1. /\ i \in Iterator /\ Inside(u, i) /\ SameRow(i, it) /\ i.col >= 0 /\ Deep(h, s, e, i)
        /\ \E p, q \in s..e : InSpan(h, s, e, i, p, q)
        /\ i.hit_target_line => Hit(i)
        /\ ~ i.hit_target_line => Miss(i)
    OBVIOUS
  <2>2. RowOf(u, i, h, s, e)
    BY <1>1, <2>1, SameRowOf DEF h, s, e
  <2> HIDE DEF G, Hit, Miss
  <2>3. /\ i.col \in Int /\ i.line_in_block \in Nat /\ i.target_line_in_block \in Nat
        /\ i.hit_target_line \in BOOLEAN /\ i.max_line_in_block \in Nat
    BY <2>1 DEF Iterator
  <2>4. QED
    BY <2>1, <2>2, <2>3
<1> HIDE DEF G
<1>14. TAB # VT
  BY DEF TAB, VT
<1>15. More(u, it) <=> c < Place(h, s, e)
  BY DEF More, c, h, s, e
(* The turns of the loop.                                                  *)
<1>16. ASSUME NEW i \in G, Mark(u, i) = VT
       PROVE  LET b == Behind(u, i)
              IN  /\ b \in Iterator /\ Inside(u, b) /\ SameRow(b, it) /\ b.col >= 0 /\ Deep(h, s, e, b)
                  /\ \E p, q \in s..e : InSpan(h, s, e, b, p, q) /\ h[b.ptr - 1] = VT
                  /\ b.hit_target_line => Hit(b) /\ b.line_in_block > b.target_line_in_block
                  /\ ~ b.hit_target_line => Next1(b) /\ b.line_in_block <= b.target_line_in_block
  <2> DEFINE b == Behind(u, i)
  <2>1. PICK p \in s..e, q \in s..e : InSpan(h, s, e, i, p, q)
    BY <1>13
  <2>2. RowOf(u, i, h, s, e) /\ Deep(h, s, e, i)
    BY <1>13
  <2>3. Deep(h, s, e, b) /\ InSpan(h, s, e, b, p, q) /\ h[b.ptr - 1] = VT
    BY <1>16, <2>1, <2>2, DownInSpan
  <2>4. i \in Iterator /\ Inside(u, i) /\ i.col >= 0 /\ i.line_in_block \in Nat /\ i.target_line_in_block \in Nat
        /\ SameRow(i, it)
    BY <1>13
  <2>5. /\ b \in Iterator
        /\ b.rowdesc = i.rowdesc /\ b.rowstart = i.rowstart /\ b.tablestart = i.tablestart
        /\ b.target_line_in_block = i.target_line_in_block
        /\ b.col = (IF Mark(u, i) = VT THEN i.col ELSE i.col + 1)
        /\ b.hit_target_line = (IF Mark(u, i) = VT THEN i.hit_target_line ELSE FALSE)
        /\ b.line_in_block = (IF Mark(u, i) = VT THEN i.line_in_block + 1 ELSE 0)
    BY <2>4, BehindIs
  <2>6. Inside(u, b)
    BY <1>16, <2>4, BehindIs
  <2> HIDE DEF b
  <2>7. b.col = i.col /\ b.hit_target_line = i.hit_target_line /\ b.line_in_block = i.line_in_block + 1
    BY <1>16, <2>5
  <2>8. SameRow(b, it)
    BY <2>4, <2>5 DEF SameRow
  <2>9. b.hit_target_line => Hit(b) /\ b.line_in_block > b.target_line_in_block
    <3> SUFFICES ASSUME b.hit_target_line PROVE Hit(b) /\ b.line_in_block > b.target_line_in_block
      OBVIOUS
    <3>1. i.col = c /\ i.target_line_in_block = l /\ i.line_in_block >= l
      BY <1>13, <1>16, <2>7
    <3>2. b.line_in_block >= l /\ b.line_in_block > b.target_line_in_block
      BY <2>4, <2>5, <2>7, <3>1
    <3>3. QED
      BY <2>5, <2>7, <3>1, <3>2
  <2>10. ~ b.hit_target_line => Next1(b) /\ b.line_in_block <= b.target_line_in_block
    <3> SUFFICES ASSUME ~ b.hit_target_line PROVE Next1(b) /\ b.line_in_block <= b.target_line_in_block
      OBVIOUS
    <3>1. Next1(i) /\ i.line_in_block < i.target_line_in_block
      BY <1>13, <2>7
    <3>2. b.line_in_block <= b.target_line_in_block
      BY <2>4, <2>5, <2>7, <3>1
    <3>3. QED
      BY <2>5, <2>7, <3>1, <3>2
  <2>11. b.col >= 0
    BY <2>4, <2>7
  <2> HIDE DEF Hit, Next1
  <2>12. QED
    BY <2>3, <2>5, <2>6, <2>8, <2>9, <2>10, <2>11 DEF b
<1>17. ASSUME NEW i \in G, Mark(u, i) = TAB, i.hit_target_line
       PROVE  LET b == Behind(u, i)
              IN  /\ b \in Iterator /\ Inside(u, b) /\ SameRow(b, it) /\ b.col >= 0 /\ Deep(h, s, e, b)
                  /\ \E p, q \in s..e : InSpan(h, s, e, b, p, q) /\ b.ptr = p
                  /\ ~ b.hit_target_line /\ Next1(b) /\ b.line_in_block = 0
  <2> DEFINE b == Behind(u, i)
  <2>1. PICK p \in s..e, q \in s..e : InSpan(h, s, e, i, p, q)
    BY <1>13
  <2>2. RowOf(u, i, h, s, e) /\ Deep(h, s, e, i)
    BY <1>13
  <2>3. /\ Deep(h, s, e, b) /\ q < e
        /\ \E w \in s..e : InSpan(h, s, e, b, q + 1, w) /\ b.ptr = q + 1
    BY <1>17, <2>1, <2>2, RightInSpan
  <2>4. i \in Iterator /\ Inside(u, i) /\ i.col >= 0 /\ i.col \in Int
        /\ SameRow(i, it) /\ i.col = c /\ i.target_line_in_block = l
    BY <1>13, <1>17
  <2>5. /\ b \in Iterator
        /\ b.rowdesc = i.rowdesc /\ b.rowstart = i.rowstart /\ b.tablestart = i.tablestart
        /\ b.target_line_in_block = i.target_line_in_block
        /\ b.col = (IF Mark(u, i) = VT THEN i.col ELSE i.col + 1)
        /\ b.hit_target_line = (IF Mark(u, i) = VT THEN i.hit_target_line ELSE FALSE)
        /\ b.line_in_block = (IF Mark(u, i) = VT THEN i.line_in_block + 1 ELSE 0)
    BY <2>4, BehindIs
  <2>6. Inside(u, b)
    BY <1>17, <2>4, BehindIs
  <2> HIDE DEF b
  <2>7. b.col = i.col + 1 /\ b.hit_target_line = FALSE /\ b.line_in_block = 0
    BY <1>14, <1>17, <2>5
  <2>8. SameRow(b, it)
    BY <2>4, <2>5 DEF SameRow
  <2>9. Span(h, s, e, p, q) /\ i.col = Place(h, s, p) /\ Row(h, s, e)
    BY <2>1, <2>2 DEF InSpan, RowOf
  <2>10. More(u, it)
    <3>1. /\ Place(h, s, p) \in Nat /\ Place(h, s, e) \in Nat /\ Place(h, s, p) <= Place(h, s, e)
          /\ (q = e <=> Place(h, s, p) = Place(h, s, e))
      BY <2>9, PlaceBehind
    <3>2. q # e
      <4>1. q \in Nat /\ e \in Nat
        BY <2>9, SpanIs
      <4>2. QED
        BY <2>3, <4>1
    <3>3. QED
      BY <1>15, <2>4, <2>9, <3>1, <3>2
  <2>11. Next1(b) /\ b.col >= 0
    <3>1. NextCol(u, it) = c + 1 /\ NextLine(u, it) = l
      BY <2>10 DEF NextCol, NextLine, c, l
    <3>2. QED
      BY <1>1, <2>4, <2>5, <2>7, <3>1
  <2>12. \E v, w \in s..e : InSpan(h, s, e, b, v, w) /\ b.ptr = v
    <3>1. PICK w \in s..e : InSpan(h, s, e, b, q + 1, w) /\ b.ptr = q + 1
      BY <2>3
    <3>2. Span(h, s, e, q + 1, w)
      BY <3>1 DEF InSpan
    <3>3. q + 1 \in s..e
      BY <2>9, <3>2, SpanIs
    <3>4. QED
      BY <3>1, <3>3
  <2> HIDE DEF Next1
  <2>13. QED
    BY <2>3, <2>5, <2>6, <2>7, <2>8, <2>11, <2>12 DEF b
<1>18. ASSUME NEW i \in G, Mark(u, i) \notin {VT, TAB}, i.hit_target_line
       PROVE  /\ ~ More(u, it)
              /\ \A v, w \in s..e : Span(h, s, e, v, w) => Bottom(h, v, w) <= i.max_line_in_block
  <2>1. PICK p \in s..e, q \in s..e : InSpan(h, s, e, i, p, q)
    BY <1>13
  <2>2. RowOf(u, i, h, s, e) /\ Deep(h, s, e, i) /\ i.col = c
    BY <1>13, <1>18
  <2>3. q = e /\ \A v, w \in s..e : Span(h, s, e, v, w) => Bottom(h, v, w) <= i.max_line_in_block
    BY <1>18, <2>1, <2>2, CellEnds
  <2>4. Span(h, s, e, p, q) /\ i.col = Place(h, s, p) /\ Row(h, s, e)
    BY <2>1, <2>2 DEF InSpan, RowOf
  <2>5. Place(h, s, p) = Place(h, s, e) /\ Place(h, s, e) \in Nat
    BY <2>3, <2>4, PlaceBehind
  <2>6. QED
    BY <1>15, <2>2, <2>3, <2>4, <2>5
<1>19. ASSUME NEW i \in G
       PROVE  Inside(u, i) /\ (~ Stops(u, i) => Onward(u, i) \in G)
  <2> SUFFICES ASSUME ~ Stops(u, i) PROVE Onward(u, i) \in G
    BY <1>13
  <2>1. ~ Here(u, i) /\ ~ There(u, i) /\ ~ Over(u, i)
    BY DEF Stops
  <2>2. CASE Mark(u, i) = VT
    <3> DEFINE b == Behind(u, i)
    <3>1. /\ b \in Iterator /\ Inside(u, b) /\ SameRow(b, it) /\ b.col >= 0 /\ Deep(h, s, e, b)
          /\ \E p, q \in s..e : InSpan(h, s, e, b, p, q)
          /\ b.hit_target_line => Hit(b)
          /\ ~ b.hit_target_line => Next1(b) /\ b.line_in_block <= b.target_line_in_block
      BY <1>16, <2>2
    <3>2. Onward(u, i) = b /\ b.line_in_block # b.target_line_in_block
      BY <2>1, <2>2 DEF Onward, There
    <3> HIDE DEF b, Hit, Next1
    <3>3. b.line_in_block \in Nat /\ b.target_line_in_block \in Nat
      BY <3>1 DEF Iterator
    <3>4. ~ b.hit_target_line => Miss(b)
      BY <3>1, <3>2, <3>3
    <3> HIDE DEF Miss
    <3>5. b \in G
      BY <3>1, <3>4 DEF G
    <3>6. QED
      BY <3>2, <3>5
  <2>3. CASE Mark(u, i) = TAB
    <3> DEFINE b == Behind(u, i)
    <3>0. i.hit_target_line
      BY <1>14, <2>1, <2>3 DEF Here
    <3>1. /\ b \in Iterator /\ Inside(u, b) /\ SameRow(b, it) /\ b.col >= 0 /\ Deep(h, s, e, b)
          /\ \E p, q \in s..e : InSpan(h, s, e, b, p, q)
          /\ ~ b.hit_target_line /\ Next1(b) /\ b.line_in_block = 0
      BY <1>17, <2>3, <3>0
    <3>2. Onward(u, i) = b /\ b.line_in_block # b.target_line_in_block
      BY <2>1, <2>3 DEF Onward, There
    <3> HIDE DEF b, Hit, Next1
    <3>3. b.line_in_block \in Nat /\ b.target_line_in_block \in Nat
      BY <3>1 DEF Iterator
    <3>4. Miss(b)
      BY <3>1, <3>2, <3>3
    <3> HIDE DEF Miss
    <3>5. b \in G
      BY <3>1, <3>4 DEF G
    <3>6. QED
      BY <3>2, <3>5
  <2>4. CASE Mark(u, i) \notin {VT, TAB}
    <3> DEFINE a == Ahead(u, i)
               o == Again(a)
    <3>0. i.hit_target_line /\ i.target_line_in_block < i.max_line_in_block
      BY <2>1, <2>4 DEF Here, Over
    <3>1. Onward(u, i) = o
      BY <2>4 DEF Onward
    <3>2. /\ o \in Iterator /\ o.rowdesc = i.rowdesc /\ o.rowstart = i.rowstart /\ o.tablestart = i.tablestart
          /\ Inside(u, o)
      BY <1>13, <3>1, OnwardIs
    <3>3. a \in Iterator /\ a = [i EXCEPT !.ptr = a.ptr] /\ i \in Iterator
      BY <1>13, AheadIs
    <3>4. /\ o.col = 0 /\ o.hit_target_line = FALSE /\ o.line_in_block = 0
          /\ o.target_line_in_block = a.target_line_in_block + 1
      BY <3>3, AgainIs
    <3>5. PICK p \in s..e, q \in s..e : InSpan(h, s, e, i, p, q)
      BY <1>13
    <3>6. RowOf(u, i, h, s, e) /\ Deep(h, s, e, i) /\ i.target_line_in_block = l
      BY <1>13, <3>0
    <3>7. Deep(h, s, e, o) /\ \E w \in s..e : InSpan(h, s, e, o, s, w)
      BY <2>4, <3>0, <3>5, <3>6, AgainInSpan
    <3> HIDE DEF o, a
    <3>8. SameRow(o, it)
      BY <1>13, <3>2 DEF SameRow
    <3>9. a.target_line_in_block = l
      BY <3>3, <3>6 DEF Iterator
    <3>10. NextCol(u, it) = 0 /\ NextLine(u, it) = l + 1
      BY <1>18, <2>4, <3>0 DEF NextCol, NextLine, l
    <3>11. Miss(o)
      BY <1>1, <3>4, <3>9, <3>10
    <3>12. s \in s..e
      <4>1. s \in Nat /\ e \in Nat /\ s <= e
        BY <1>11 DEF RowOf, Row
      <4>2. QED
        BY <4>1
    <3>13. \E v, w \in s..e : InSpan(h, s, e, o, v, w)
      BY <3>7, <3>12
    <3>14. o.col >= 0
      BY <3>4
    <3> HIDE DEF Miss, Hit
    <3>15. o \in G
      BY <3>2, <3>4, <3>7, <3>8, <3>11, <3>13, <3>14 DEF G
    <3>16. QED
      BY <3>1, <3>15
  <2>5. QED
    BY <2>2, <2>3, <2>4
<1>20. PICK k \in G : Stops(u, k) /\ Loop(u, j) = Returned(u, k)
  BY <1>12, <1>19, LoopIs
<1>21. /\ k \in Iterator /\ Inside(u, k) /\ SameRow(k, it) /\ k.col >= 0 /\ Deep(h, s, e, k)
       /\ RowOf(u, k, h, s, e) /\ k.hit_target_line \in BOOLEAN
       /\ k.line_in_block \in Nat /\ k.target_line_in_block \in Nat /\ k.max_line_in_block \in Nat
       /\ k.hit_target_line => Hit(k)
       /\ ~ k.hit_target_line => Miss(k)
  BY <1>13
<1>22. CASE Here(u, k)
  <2> DEFINE a == Ahead(u, k)
             f == Found(u, a).it
  <2>1. next(u, it) = Found(u, a)
    BY <1>2, <1>20, <1>22 DEF Returned
  <2>2. Mark(u, k) # VT /\ ~ k.hit_target_line
    BY <1>22 DEF Here
  <2>3. /\ a \in Iterator /\ a = [k EXCEPT !.ptr = a.ptr] /\ Inside(u, a)
        /\ a.ptr = Find(u, k, k.ptr, Separators)
    BY <1>21, AheadIs
  <2>4. PICK p \in s..e, q \in s..e : InSpan(h, s, e, k, p, q)
    BY <1>13
  <2>5. Find(u, k, k.ptr, Separators) = q /\ k.line_in_block = Bottom(h, p, q)
    BY <1>21, <2>2, <2>4, CellEnds
  <2> HIDE DEF a
  <2>6. /\ SameRow(a, k) /\ a.col = k.col /\ a.line_in_block = k.line_in_block
        /\ a.target_line_in_block = k.target_line_in_block
        /\ a.max_line_in_block = k.max_line_in_block
    BY <1>21, <2>3 DEF Iterator, SameRow
  <2>7. SameRow(a, it) /\ a.col >= 0
    BY <1>21, <2>6 DEF SameRow
  <2>8. Deep(h, s, e, a)
    BY <1>21, <2>6, SameDepth
  <2>9. InSpan(h, s, e, a, p, q)
    <3>1. Span(h, s, e, p, q) /\ k.col = Place(h, s, p) /\ Row(h, s, e)
      BY <1>21, <2>4 DEF InSpan, RowOf
    <3>2. q \in p..q
      <4>1. p \in Nat /\ q \in Nat /\ p <= q
        BY <3>1, SpanIs
      <4>2. QED
        BY <4>1
    <3>3. QED
      BY <2>3, <2>5, <2>6, <3>1, <3>2 DEF InSpan, Bottom
  <2>10. Next1(k) /\ k.line_in_block < k.target_line_in_block
    BY <1>21, <2>2
  <2>11. At(h, a, p, q)
    <3>1. ~ (a.target_line_in_block <= Bottom(h, p, q))
      BY <1>21, <2>5, <2>6, <2>10
    <3>2. QED
      BY <2>3, <2>5, <3>1 DEF At
  <2>12. /\ Found(u, a).ok /\ Ordered(u, f) /\ f.col = a.col
         /\ f.target_line_in_block = a.target_line_in_block
    BY <1>1, <2>3, <2>7, <2>8, <2>9, <2>11, FoundOrdered DEF h, s, e
  <2> HIDE DEF f
  <2>13. f.col = NextCol(u, it) /\ f.target_line_in_block = NextLine(u, it)
    BY <2>6, <2>10, <2>12
  <2>14. QED
    BY <2>1, <2>12, <2>13 DEF f
<1>23. CASE ~ Here(u, k) /\ There(u, k)
  <2> DEFINE b == Behind(u, k)
             f == Found(u, b).it
  <2>1. next(u, it) = Found(u, b)
    BY <1>2, <1>20, <1>23 DEF Returned
  <2>2. Mark(u, k) \in {VT, TAB} /\ b.line_in_block = b.target_line_in_block
    BY <1>23 DEF There
  <2>3. /\ b \in Iterator /\ Inside(u, b) /\ SameRow(b, it) /\ b.col >= 0 /\ Deep(h, s, e, b)
        /\ Next1(b)
        /\ \E p, q \in s..e : InSpan(h, s, e, b, p, q) /\ (b.ptr = p \/ h[b.ptr - 1] = VT)
    <3>1. CASE Mark(u, k) = VT
      <4>1. /\ b \in Iterator /\ Inside(u, b) /\ SameRow(b, it) /\ b.col >= 0 /\ Deep(h, s, e, b)
            /\ \E p, q \in s..e : InSpan(h, s, e, b, p, q) /\ h[b.ptr - 1] = VT
            /\ b.hit_target_line => b.line_in_block > b.target_line_in_block
            /\ ~ b.hit_target_line => Next1(b)
        BY <1>16, <3>1
      <4> HIDE DEF b, Next1
      <4>2. b.line_in_block \in Nat /\ b.target_line_in_block \in Nat
        BY <4>1 DEF Iterator
      <4>3. ~ (b.line_in_block > b.target_line_in_block)
        BY <2>2, <4>2
      <4>4. QED
        BY <4>1, <4>3
    <3>2. CASE Mark(u, k) = TAB
      <4>0. k.hit_target_line
        BY <1>14, <1>23, <3>2 DEF Here
      <4>1. /\ b \in Iterator /\ Inside(u, b) /\ SameRow(b, it) /\ b.col >= 0 /\ Deep(h, s, e, b)
            /\ \E p, q \in s..e : InSpan(h, s, e, b, p, q) /\ b.ptr = p
            /\ Next1(b)
        BY <1>17, <3>2, <4>0
      <4> HIDE DEF b, Next1
      <4>2. QED
        BY <4>1
    <3>3. QED
      BY <2>2, <3>1, <3>2
  <2> HIDE DEF b
  <2>4. PICK p \in s..e, q \in s..e : InSpan(h, s, e, b, p, q) /\ (b.ptr = p \/ h[b.ptr - 1] = VT)
    BY <2>3
  <2>5. b.line_in_block <= Bottom(h, p, q)
    <3>1. Span(h, s, e, p, q) /\ b.ptr \in p..q /\ b.line_in_block = Times(h, VT, p, b.ptr) /\ Row(h, s, e)
      BY <1>11, <2>4 DEF InSpan, RowOf
    <3>2. QED
      BY <3>1, DepthIs
  <2>6. At(h, b, p, q)
    BY <2>2, <2>4, <2>5 DEF At
  <2>7. /\ Found(u, b).ok /\ Ordered(u, f) /\ f.col = b.col
        /\ f.target_line_in_block = b.target_line_in_block
    BY <1>1, <2>3, <2>4, <2>6, FoundOrdered DEF h, s, e
  <2> HIDE DEF f
  <2>8. f.col = NextCol(u, it) /\ f.target_line_in_block = NextLine(u, it)
    BY <2>3, <2>7
  <2>9. QED
    BY <2>1, <2>7, <2>8 DEF f
<1>24. CASE ~ Here(u, k) /\ ~ There(u, k)
  <2>1. ~ next(u, it).ok
    BY <1>2, <1>20, <1>24 DEF Returned
  <2>2. Mark(u, k) \notin {VT, TAB} /\ ~ (k.target_line_in_block < k.max_line_in_block)
    BY <1>20, <1>24 DEF Stops, Over
  <2>3. k.hit_target_line
    BY <1>24, <2>2 DEF Here
  <2>4. /\ ~ More(u, it)
        /\ \A v, w \in s..e : Span(h, s, e, v, w) => Bottom(h, v, w) <= k.max_line_in_block
    BY <1>18, <2>2, <2>3
  <2>5. k.target_line_in_block = l
    BY <1>21, <2>3
  <2>6. NextLine(u, it) = l + 1
    BY <2>4 DEF NextLine, l
  <2>7. ASSUME NEW v \in s..e, NEW w \in s..e, Span(h, s, e, v, w)
        PROVE  Bottom(h, v, w) < NextLine(u, it)
    <3>1. Bottom(h, v, w) <= k.max_line_in_block
      BY <2>4, <2>7
    <3>2. Bottom(h, v, w) \in Nat
      <4>1. w \in v..w /\ Row(h, s, e)
        BY <1>11, <2>7 DEF Span, RowOf
      <4>2. QED
        BY <2>7, <4>1, DepthIs
    <3>3. QED
      BY <1>1, <1>21, <2>2, <2>5, <2>6, <3>1, <3>2
  <2>8. QED
    BY <2>1, <2>4, <2>7 DEF h, s, e
<1>25. QED
  BY <1>22, <1>23, <1>24

-----------------------------------------------------------------------------
(***************************************************************************)
(* The parts of a row are the lines of its cells.                          *)
(***************************************************************************)

(* A piece begins in front of a text and behind each separator.            *)
LEMMA PieceFrom ==
  ASSUME NEW h, NEW sep, NEW p \in Nat, NEW e \in Nat, p <= e
  PROVE  \E q \in p..e : PieceAt(h, sep, p, e, p, q)
<1> DEFINE S == {i \in p..e : i = e \/ h[i] = sep}
           q == Min(S)
<1>1. S \in SUBSET Nat /\ S # {}
  OBVIOUS
<1>2. q \in S /\ \A y \in S : q <= y
  BY <1>1, MinIs
<1>3. q \in p..e /\ (q = e \/ h[q] = sep)
  BY <1>2
<1>4. ASSUME NEW i \in p..q - 1 PROVE h[i] # sep
  <2> HIDE DEF S, q
  <2>1. i \in p..e /\ ~ (q <= i)
    BY <1>3
  <2>2. i \notin S
    BY <1>2, <2>1
  <2>3. QED
    BY <2>1, <2>2 DEF S
<1> HIDE DEF q
<1>5. QED
  BY <1>3, <1>4 DEF PieceAt

LEMMA PiecesCount ==
  ASSUME NEW h \in Seq(Nat), NEW s \in Nat, NEW e \in Nat, 1 <= s, s <= e, e <= Len(h) + 1, NEW sep
  PROVE  Len(Pieces(SubSeq(h, s, e - 1), sep)) = Times(h, sep, s, e) + 1
<1>1. PICK q \in s..e : PieceAt(h, sep, s, e, s, q)
  BY PieceFrom
<1>2. PieceHas(h, sep, s, e, s, q)
  BY <1>1, PieceIs
<1>3. QED
  BY <1>2 DEF PieceHas

(* The cells of a row, and the lines of one.                               *)
CellHas(h, s, p, q, C) ==
    /\ Place(h, s, p) \in 0..Len(C) - 1 /\ C[Place(h, s, p) + 1] = SubSeq(h, p, q - 1)
    /\ Len(Pieces(C[Place(h, s, p) + 1], VT)) = Bottom(h, p, q) + 1
    /\ Bottom(h, p, q) \in Nat

LEMMA CellsAre ==
  ASSUME NEW h, NEW s, NEW e, Row(h, s, e)
  PROVE  LET C == Pieces(SubSeq(h, s, e - 1), TAB)
         IN  /\ Len(C) = Place(h, s, e) + 1 /\ Place(h, s, e) \in Nat
             /\ \A p, q \in s..e : Span(h, s, e, p, q) => CellHas(h, s, p, q, C)
<1> DEFINE C == Pieces(SubSeq(h, s, e - 1), TAB)
<1>1. h \in Seq(Nat) /\ s \in Nat /\ e \in Nat /\ 1 <= s /\ s <= e /\ e <= Len(h) + 1
  BY DEF Row
<1>2. Len(C) = Place(h, s, e) + 1
  BY <1>1, PiecesCount DEF Place
<1>3. Place(h, s, e) \in Nat
  BY <1>1, TimesIs DEF Place
<1>4. ASSUME NEW p \in s..e, NEW q \in s..e, Span(h, s, e, p, q)
      PROVE  CellHas(h, s, p, q, C)
  <2>1. /\ q \in p..e /\ (p = s \/ h[p - 1] = TAB) /\ (q = e \/ h[q] = TAB)
        /\ \A i \in p..q - 1 : h[i] # TAB
    BY <1>4 DEF Span
  <2>2. /\ Place(h, s, p) \in Nat /\ Place(h, s, p) < Len(C)
        /\ C[Place(h, s, p) + 1] = SubSeq(h, p, q - 1)
    <3>1. PieceAt(h, TAB, s, e, p, q)
      BY <2>1 DEF PieceAt
    <3>2. PieceHas(h, TAB, s, e, p, q)
      BY <1>1, <3>1, PieceIs
    <3>3. QED
      BY <3>2 DEF PieceHas, Place
  <2> HIDE DEF C
  <2>3. p \in Nat /\ q \in Nat /\ 1 <= p /\ p <= q /\ q <= Len(h) + 1
    <3>1. /\ p \in Nat /\ q \in Nat /\ Len(h) \in Nat
          /\ 1 <= s /\ s <= p /\ p <= q /\ q <= e /\ e <= Len(h) + 1
      BY <1>4, SpanIs
    <3>2. QED
      BY <1>1, <3>1
  <2>4. Len(Pieces(SubSeq(h, p, q - 1), VT)) = Times(h, VT, p, q) + 1
    BY <1>1, <2>3, PiecesCount
  <2>5. Bottom(h, p, q) \in Nat
    BY <2>3, TimesIs DEF Bottom
  <2>6. Place(h, s, p) \in 0..Len(C) - 1
    BY <1>2, <1>3, <2>2
  <2>7. QED
    BY <2>2, <2>4, <2>5, <2>6 DEF Bottom, CellHas
<1> HIDE DEF C
<1>5. QED
  BY <1>2, <1>3, <1>4 DEF C

RowCells(u, it) ==
    Pieces(SubSeq(help(u, it.rowdesc), it.rowstart, RowEnd(u, it) - 1), TAB)
CellLines(u, it, c) == Pieces(RowCells(u, it)[c + 1], VT)

(* A part is the line that its cell has, and empty if it has not.          *)
LEMMA PartIs ==
  ASSUME NEW u \in Helps, NEW it, AtCell(u, it), Ordered(u, it), it.col # -1
  PROVE  LET l == it.target_line_in_block
             N(c) == Len(CellLines(u, it, c))
         IN  /\ \E d \in 0..Len(RowCells(u, it)) - 1 : ~ (l >= N(d))
             /\ data(u, it) = IF l < N(it.col) THEN CellLines(u, it, it.col)[l + 1] ELSE << >>
<1> DEFINE h == help(u, it.rowdesc)
           s == it.rowstart
           e == RowEnd(u, it)
           l == it.target_line_in_block
           C == RowCells(u, it)
           N(c) == Len(CellLines(u, it, c))
           m == it.max_line_in_block
           f == it.ptr + it.len
<1>1. /\ it \in Iterator /\ Inside(u, it) /\ AtPart(u, it)
  BY DEF AtCell, Cell, AtText, Inside
<1>2. PICK p \in s..e, q \in s..e : InSpan(h, s, e, it, p, q) /\ At(h, it, p, q) /\ Deep(h, s, e, it)
  BY DEF Ordered
<1>3. RowOf(u, it, h, s, e)
  BY <1>1, SameRowOf DEF SameRow
<1>4. f = Find(u, it, it.ptr, Separators)
  BY <1>1, PartEnds
<1>5. data(u, it) = SubSeq(h, it.ptr, f - 1)
  <2>1. it.ptr \in Nat /\ it.len \in Nat
    BY <1>1 DEF Iterator
  <2>2. it.ptr + it.len - 1 = (it.ptr + it.len) - 1
    BY <2>1
  <2>3. QED
    BY <2>2 DEF data
<1>6. l \in Nat /\ m \in Nat /\ it.ptr \in Nat
  BY <1>1 DEF Iterator
<1>7. C = Pieces(SubSeq(h, s, e - 1), TAB)
  BY DEF RowCells
<1>8. \A c : CellLines(u, it, c) = Pieces(C[c + 1], VT)
  BY DEF CellLines
<1> HIDE DEF h, s, e, C, l, m, f
<1>9. /\ Span(h, s, e, p, q) /\ it.ptr \in p..q /\ it.line_in_block = Times(h, VT, p, it.ptr)
      /\ it.col = Place(h, s, p) /\ Row(h, s, e)
  BY <1>2, <1>3 DEF InSpan, RowOf
<1>10. \A v, w \in s..e : Span(h, s, e, v, w) =>
                   /\ Place(h, s, v) \in 0..Len(C) - 1 /\ C[Place(h, s, v) + 1] = SubSeq(h, v, w - 1)
                   /\ N(Place(h, s, v)) = Bottom(h, v, w) + 1
                   /\ Bottom(h, v, w) \in Nat
  <2>1. \A v, w \in s..e : Span(h, s, e, v, w) => CellHas(h, s, v, w, C)
    <3> HIDE DEF N
    <3>1. QED
      BY <1>7, <1>9, CellsAre
  <2>2. \A c : N(c) = Len(Pieces(C[c + 1], VT))
    BY <1>8
  <2> HIDE DEF N
  <2>3. QED
    BY <2>1, <2>2 DEF CellHas
<1>11. C[it.col + 1] = SubSeq(h, p, q - 1) /\ N(it.col) = Bottom(h, p, q) + 1 /\ Bottom(h, p, q) \in Nat
  BY <1>9, <1>10
<1>12. \E d \in 0..Len(C) - 1 : ~ (l >= N(d))
  <2>1. l <= m
    BY <1>2 DEF Deep, l, m
  <2>2. CASE m = 0
    <3>1. l = 0
      BY <1>6, <2>1, <2>2
    <3>2. it.col \in 0..Len(C) - 1
      BY <1>9, <1>10
    <3> HIDE DEF N
    <3>3. ~ (l >= N(it.col))
      BY <1>11, <3>1
    <3>4. QED
      BY <3>2, <3>3
  <2>3. CASE m # 0
    <3>1. PICK v \in s..e, w \in s..e : Span(h, s, e, v, w) /\ m <= Bottom(h, v, w)
      BY <1>2, <2>3 DEF Deep, m
    <3> DEFINE d == Place(h, s, v)
    <3>2. d \in 0..Len(C) - 1 /\ N(d) = Bottom(h, v, w) + 1 /\ Bottom(h, v, w) \in Nat
      BY <1>10, <3>1
    <3> HIDE DEF d, N
    <3>3. ~ (l >= N(d))
      BY <1>6, <2>1, <3>1, <3>2
    <3>4. QED
      BY <3>2, <3>3
  <2>4. QED
    BY <2>2, <2>3
<1>13. /\ f \in Nat /\ f \in it.ptr..q /\ (f < q => h[f] = VT) /\ \A j \in it.ptr..f - 1 : h[j] # VT
  BY <1>3, <1>4, <1>9, AheadInSpan
<1>14. /\ h \in Seq(Nat) /\ p \in Nat /\ q \in Nat /\ Len(h) \in Nat /\ 1 <= p /\ p <= q /\ q <= Len(h) + 1
  <2>1. /\ h \in Seq(Nat) /\ s \in Nat /\ e \in Nat /\ p \in Nat /\ q \in Nat /\ Len(h) \in Nat
        /\ 1 <= s /\ s <= p /\ p <= q /\ q <= e /\ e <= Len(h) + 1
    BY <1>9, SpanIs
  <2>2. QED
    BY <2>1
<1>15. CASE l <= Bottom(h, p, q)
  <2>1. (it.ptr = p \/ h[it.ptr - 1] = VT) /\ it.line_in_block = l
    BY <1>2, <1>15 DEF At, l
  <2>2. f = q \/ h[f] = VT
    BY <1>13, <1>14
  <2>3. Pieces(SubSeq(h, p, q - 1), VT)[Times(h, VT, p, it.ptr) + 1] = SubSeq(h, it.ptr, f - 1)
    <3> DEFINE y == it.ptr
    <3>1. /\ y \in p..q /\ f \in y..q /\ (y = p \/ h[y - 1] = VT)
          /\ \A i \in y..f - 1 : h[i] # VT
      BY <1>9, <1>13, <2>1
    <3> HIDE DEF y, N
    <3>2. PieceAt(h, VT, p, q, y, f)
      BY <2>2, <3>1 DEF PieceAt
    <3>3. PieceHas(h, VT, p, q, y, f)
      BY <1>14, <3>2, PieceIs
    <3>4. QED
      BY <3>3 DEF PieceHas, y
  <2>4. CellLines(u, it, it.col)[l + 1] = data(u, it)
    BY <1>5, <1>8, <1>9, <1>11, <2>1, <2>3
  <2> HIDE DEF N
  <2>5. l < N(it.col)
    BY <1>6, <1>11, <1>15
  <2>6. QED
    BY <1>12, <2>4, <2>5 DEF l, C, N
<1>16. CASE ~ (l <= Bottom(h, p, q))
  <2>1. it.ptr = q
    BY <1>2, <1>16 DEF At, l
  <2>2. f = q
    BY <1>13, <1>14, <2>1
  <2>3. data(u, it) = SubSeq(h, q, q - 1)
    BY <1>5, <2>1, <2>2
  <2>4. SubSeq(h, q, q - 1) \in Seq(Nat) /\ Len(SubSeq(h, q, q - 1)) = 0
    <3>1. 1 <= q /\ q <= q /\ q - q = 0
      BY <1>14
    <3>2. QED
      BY <1>14, <3>1, SliceIs
  <2>5. data(u, it) = << >>
    BY <2>3, <2>4, EmptySeq
  <2> HIDE DEF N
  <2>6. ~ (l < N(it.col))
    BY <1>6, <1>11, <1>16
  <2>7. QED
    BY <1>12, <2>5, <2>6 DEF l, C, N
<1>17. QED
  BY <1>15, <1>16

LEMMA FirstOrdered ==
  ASSUME NEW u \in Helps, NEW it, AtCell(u, it), Ordered(u, it), it.col = -1
  PROVE  LET n == next(u, it)
         IN  Ordered(u, n.it) /\ n.it.col = 0 /\ n.it.target_line_in_block = 0
<1> DEFINE j == [it EXCEPT !.col = 0]
           i == update_length(u, j)
           h == help(u, it.rowdesc)
           s == it.rowstart
           e == RowEnd(u, it)
<1>1. it \in Iterator /\ it.ptr # 0 /\ Inside(u, it)
  BY DEF AtCell, AtText, Inside, Iterator
<1>2. next(u, it) = [ok |-> TRUE, it |-> i]
  BY <1>1 DEF next
<1>3. /\ it.ptr = s /\ it.line_in_block = 0
      /\ it.max_line_in_block = 0 /\ it.target_line_in_block = 0
  BY DEF Ordered
<1>4. /\ j \in Iterator /\ SameRow(j, it) /\ j.ptr = it.ptr /\ j.col = 0
      /\ j.line_in_block = 0 /\ j.target_line_in_block = 0
      /\ j.max_line_in_block = 0
  BY <1>1, <1>3 DEF Iterator, SameRow
<1> HIDE DEF j
<1>5. Inside(u, j)
  BY <1>1, <1>3, <1>4 DEF Inside, Long, SameRow
<1>6. Inside(u, i) /\ i = [j EXCEPT !.len = i.len, !.screenlen = i.screenlen]
  BY <1>5, UpdateIs
<1> HIDE DEF i
<1>7. i \in Iterator
  BY <1>6 DEF Inside
<1>8. /\ SameRow(i, it) /\ i.ptr = s /\ i.col = 0
      /\ i.line_in_block = 0 /\ i.target_line_in_block = 0
      /\ i.max_line_in_block = 0
  BY <1>3, <1>4, <1>6, <1>7 DEF Iterator, SameRow
<1>9. RowEnd(u, i) = e /\ help(u, i.rowdesc) = h /\ i.rowstart = s /\ Row(h, s, e)
  BY <1>1, <1>7, <1>8, SameRowOf, RowIs DEF SameRow
<1> HIDE DEF h, s, e
<1>10. s \in Nat /\ e \in Nat /\ s <= e /\ s \in s..e
  BY <1>9 DEF Row
<1>11. PICK q \in s..e : Span(h, s, e, s, q)
  BY <1>9, <1>10, SpanFrom
<1>12. Place(h, s, s) = 0 /\ Times(h, VT, s, s) = 0 /\ s \in s..q
  BY <1>10, TimesStart DEF Place
<1>13. InSpan(h, s, e, i, s, q)
  BY <1>8, <1>11, <1>12 DEF InSpan
<1>14. At(h, i, s, q)
  <2>1. Bottom(h, s, q) \in Nat
    <3>1. s \in s..q
      BY <1>12
    <3>2. QED
      BY <1>9, <1>11, <3>1, DepthIs
  <2>2. i.target_line_in_block <= Bottom(h, s, q)
    BY <1>8, <2>1
  <2>3. QED
    BY <1>8, <2>2 DEF At
<1>15. Deep(h, s, e, i)
  <2>1. ASSUME NEW v \in s..e, NEW w \in s..e, Span(h, s, e, v, w),
               Place(h, s, v) < i.col \/ i.target_line_in_block > 0
        PROVE  Bottom(h, v, w) <= i.max_line_in_block
    <3>1. Place(h, s, v) \in Nat
      BY <1>9, <2>1, PlaceBehind
    <3>2. QED
      BY <1>8, <2>1, <3>1
  <2>2. QED
    BY <1>8, <2>1 DEF Deep
<1>16. Ordered(u, i)
  <2>1. i.col # -1
    BY <1>8
  <2>2. QED
    BY <1>9, <1>10, <1>13, <1>14, <1>15, <2>1 DEF Ordered
<1>17. QED
  BY <1>2, <1>8, <1>16

(* What next() comes to is what the order of the cells and their lines     *)
(* asks for.                                                               *)
InOrder(u, it) ==
    LET n    == next(u, it)
        more == column(it) + 1 < Len(RowCells(u, it))
        c    == IF more THEN column(it) + 1 ELSE 0
        l    == IF more THEN line(it) ELSE line(it) + 1
    IN  IF \A d \in 0..Len(RowCells(u, it)) - 1 : l >= Len(CellLines(u, it, d)) THEN ~ n.ok
        ELSE /\ n.ok /\ column(n.it) = c /\ line(n.it) = l
             /\ data(u, n.it) = IF l < Len(CellLines(u, it, c)) THEN CellLines(u, it, c)[l + 1]
                                ELSE << >>

LEMMA NextInOrder ==
  ASSUME NEW u \in Helps, NEW it, AtCell(u, it), Ordered(u, it)
  PROVE  InOrder(u, it) /\ (next(u, it).ok => Ordered(u, next(u, it).it))
<1> DEFINE n == next(u, it)
           h == help(u, it.rowdesc)
           s == it.rowstart
           e == RowEnd(u, it)
           C == RowCells(u, it)
           more == it.col + 1 < Len(C)
           c == IF more THEN it.col + 1 ELSE 0
           l == IF more THEN it.target_line_in_block ELSE it.target_line_in_block + 1
<1>1. it \in Iterator /\ Inside(u, it) /\ it.col \in Int /\ it.target_line_in_block \in Nat
  BY DEF AtCell, AtText, Inside, Iterator
<1>2. Row(h, s, e)
  BY <1>1, RowIs
<1>3. /\ Len(C) = Place(h, s, e) + 1 /\ Place(h, s, e) \in Nat
      /\ \A p, q \in s..e : Span(h, s, e, p, q) =>
            /\ Place(h, s, p) \in 0..Len(C) - 1
            /\ Len(CellLines(u, it, Place(h, s, p))) = Bottom(h, p, q) + 1
            /\ Bottom(h, p, q) \in Nat
  BY <1>2, CellsAre DEF RowCells, CellLines, CellHas
<1>4. /\ n.ok \in BOOLEAN /\ SameRow(n.it, it) /\ (n.ok => AtCell(u, n.it) /\ n.it.col # -1)
      /\ it.col = -1 => n.ok
  <2>1. CASE it.col = -1
    <3>1. n.ok \in BOOLEAN
      BY <2>1, <1>1, NextIs DEF AtCell
    <3>2. n.ok /\ n.it.col = 0 /\ AtCell(u, n.it) /\ SameRow(n.it, it)
      BY <2>1, FirstCell
    <3> HIDE DEF n
    <3>3. QED
      BY <3>1, <3>2
  <2>2. CASE it.col # -1
    <3>1. /\ n.ok \in BOOLEAN /\ SameRow(n.it, it)
          /\ n.ok => AtCell(u, n.it) /\ n.it.col >= 0 /\ n.it.col \in {0, it.col + 1}
      BY <2>2, NextCell
    <3> HIDE DEF n
    <3>2. n.ok => n.it.col # -1
      BY <1>1, <2>2, <3>1
    <3>3. QED
      BY <2>2, <3>1, <3>2
  <2>3. QED
    BY <2>1, <2>2
<1> HIDE DEF h, s, e, C, n
<1>5. /\ n.ok => Ordered(u, n.it) /\ n.it.col = c /\ n.it.target_line_in_block = l
      /\ ~ n.ok => \A p, q \in s..e : Span(h, s, e, p, q) => Bottom(h, p, q) < l
  <2>1. CASE it.col = -1
    <3>1. Ordered(u, n.it) /\ n.it.col = 0 /\ n.it.target_line_in_block = 0
      BY <2>1, FirstOrdered DEF n
    <3>2. it.target_line_in_block = 0
      BY <2>1 DEF Ordered
    <3>3. more /\ c = 0 /\ l = 0
      BY <1>3, <2>1, <3>2
    <3> HIDE DEF c, l
    <3>4. QED
      BY <1>4, <2>1, <3>1, <3>3
  <2>2. CASE it.col # -1
    <3>1. /\ n.ok => /\ Ordered(u, n.it) /\ n.it.col = NextCol(u, it)
                     /\ n.it.target_line_in_block = NextLine(u, it)
          /\ ~ n.ok => \A v, w \in s..e : Span(h, s, e, v, w) => Bottom(h, v, w) < NextLine(u, it)
      BY <2>2, NextOrdered DEF n, h, s, e
    <3>2. More(u, it) <=> it.col < Place(h, s, e)
      BY DEF More, h, s, e
    <3>3. more <=> More(u, it)
      BY <1>1, <1>3, <3>2
    <3>4. NextCol(u, it) = c /\ NextLine(u, it) = l
      BY <3>3 DEF NextCol, NextLine
    <3> HIDE DEF c, l
    <3>5. QED
      BY <3>1, <3>4
  <2>3. QED
    BY <2>1, <2>2
<1>6. CASE n.ok
  <2>1. /\ AtCell(u, n.it) /\ Ordered(u, n.it) /\ n.it.col # -1 /\ n.it.col = c
        /\ n.it.target_line_in_block = l
    BY <1>4, <1>5, <1>6
  <2>2. /\ \E d \in 0..Len(RowCells(u, n.it)) - 1 : ~ (l >= Len(CellLines(u, n.it, d)))
        /\ data(u, n.it) = IF l < Len(CellLines(u, n.it, c)) THEN CellLines(u, n.it, c)[l + 1] ELSE << >>
    <3> HIDE DEF c, l
    <3>1. QED
      BY <2>1, PartIs
  <2>3. RowCells(u, n.it) = C
    <3>1. n.it.rowdesc = it.rowdesc /\ n.it.rowstart = it.rowstart
      BY <1>4 DEF SameRow
    <3>2. RowEnd(u, n.it) = RowEnd(u, it)
      BY <3>1 DEF RowEnd, Find
    <3>3. QED
      BY <3>1, <3>2 DEF RowCells, C
  <2>4. \A d : CellLines(u, n.it, d) = CellLines(u, it, d)
    BY <2>3 DEF CellLines, C
  <2> HIDE DEF c, l
  <2>5. \E d \in 0..Len(C) - 1 : ~ (l >= Len(CellLines(u, it, d)))
    BY <2>2, <2>3, <2>4
  <2>6. data(u, n.it) = IF l < Len(CellLines(u, it, c)) THEN CellLines(u, it, c)[l + 1] ELSE << >>
    BY <2>2, <2>4
  <2>7. QED
    BY <1>6, <2>1, <2>5, <2>6 DEF InOrder, column, line, c, l, C, n
<1>7. CASE ~ n.ok
  <2>1. ASSUME NEW d \in 0..Len(C) - 1 PROVE l >= Len(CellLines(u, it, d))
    <3>1. d \in Nat /\ d <= Place(h, s, e)
      BY <1>3
    <3>2. PICK p \in s..e, q \in s..e : Span(h, s, e, p, q) /\ Place(h, s, p) = d
      BY <1>2, <3>1, SpanExists
    <3>3. Len(CellLines(u, it, d)) = Bottom(h, p, q) + 1 /\ Bottom(h, p, q) \in Nat /\ Bottom(h, p, q) < l
      BY <1>3, <1>5, <1>7, <3>2
    <3>4. l \in Nat
      BY <1>1
    <3> HIDE DEF l
    <3>5. QED
      BY <3>3, <3>4
  <2> HIDE DEF c, l
  <2>2. QED
    BY <1>7, <2>1 DEF InOrder, column, line, c, l, C, n
<1>8. QED
  BY <1>6, <1>7

-----------------------------------------------------------------------------
(* A row is begun in front of its first part.                              *)
LEMMA RestartOrdered ==
  ASSUME NEW u, NEW it \in Iterator
  PROVE  Ordered(u, restartRow(it))
<1> DEFINE i == restartRow(it)
<1>1. /\ SameRow(i, it) /\ i.ptr = it.rowstart /\ i.col = -1 /\ i.line_in_block = 0
      /\ i.max_line_in_block = 0 /\ i.target_line_in_block = 0
  BY RestartIs
<1> HIDE DEF i
<1>2. i.rowstart = it.rowstart
  BY <1>1 DEF SameRow
<1>3. Ordered(u, i)
  BY <1>1, <1>2 DEF Ordered
<1>4. QED
  BY <1>3 DEF i

LEMMA OrderingInit == Init => Ordering
BY DEF Init, Ordering, InCells

LEMMA RowOrdering ==
  ASSUME Sane, measure_row \/ next_row
  PROVE  Ordering'
<1> DEFINE r == nextRow(usage, part)
<1>1. usage' = usage /\ part' = r.it /\ (r.ok \/ pc' = "table")
  <2>1. CASE measure_row
    BY <2>1 DEF measure_row, input
  <2>2. CASE next_row
    BY <2>2 DEF next_row, input
  <2>3. QED
    BY <2>1, <2>2
<1>2. usage \in Helps /\ Placed(usage, part)
  BY DEF Sane, Given, InPlace
<1>3. r.ok => AtCell(usage, r.it) /\ restartRow(r.it) = r.it
  BY <1>2, NextRowCell
<1> HIDE DEF r
<1>4. CASE r.ok
  <2>1. r.it \in Iterator
    BY <1>3, <1>4 DEF AtCell, AtText, Inside
  <2>2. Ordered(usage, restartRow(r.it))
    BY <2>1, RestartOrdered
  <2>3. Ordered(usage, r.it)
    BY <1>3, <1>4, <2>2
  <2>4. QED
    BY <1>1, <2>3 DEF Ordering
<1>5. CASE ~ r.ok
  <2>1. pc' = "table"
    BY <1>1, <1>5
  <2>2. QED
    BY <2>1 DEF Ordering, InCells
<1>6. QED
  BY <1>4, <1>5

(* Actions that go on to the next part.                                    *)
LEMMA PartOrdering ==
  ASSUME Sane, Laid, Ordering, measure \/ drop_column \/ indent \/ own_line
  PROVE  Ordering'
<1> DEFINE n == next(usage, part)
<1>1. usage' = usage /\ part' = n.it /\ (n.ok \/ pc' = "width row") /\ pc \in {"width part"} \cup InCells
  <2>1. CASE measure
    BY <2>1 DEF measure, input
  <2>2. CASE drop_column
    BY <2>2 DEF drop_column, input, InCells
  <2>3. CASE indent
    BY <2>3 DEF indent, input, InCells
  <2>4. CASE own_line
    BY <2>4 DEF own_line, input, InCells
  <2>5. QED
    BY <2>1, <2>2, <2>3, <2>4
<1>2. usage \in Helps /\ AtCell(usage, part) /\ Ordered(usage, part)
  BY <1>1 DEF Sane, Given, Laid, Cellular, Ordering
<1>3. n.ok => Ordered(usage, n.it)
  BY <1>2, NextInOrder
<1> HIDE DEF n
<1>4. CASE n.ok
  BY <1>1, <1>3, <1>4 DEF Ordering
<1>5. CASE ~ n.ok
  <2>1. pc' = "width row"
    BY <1>1, <1>5
  <2>2. QED
    BY <2>1 DEF Ordering, InCells
<1>6. QED
  BY <1>4, <1>5

LEMMA EndOrdering ==
  ASSUME Sane, Laid, last_part \/ last_own_line
  PROVE  Ordering'
<1> DEFINE n == next(usage, part)
<1>1. pc \in InCells /\ usage' = usage /\ (pc' = "flush" \/ part' = restartRow(n.it))
  <2>1. CASE last_part
    BY <2>1 DEF last_part, input, InCells
  <2>2. CASE last_own_line
    BY <2>2 DEF last_own_line, input, InCells
  <2>3. QED
    BY <2>1, <2>2
<1>2. n.it \in Iterator
  BY <1>1, InCell
<1>3. Ordered(usage, restartRow(n.it))
  BY <1>2, RestartOrdered
<1> HIDE DEF n
<1>4. CASE pc' = "flush"
  BY <1>4 DEF Ordering, InCells
<1>5. CASE part' = restartRow(n.it)
  BY <1>1, <1>3, <1>5 DEF Ordering
<1>6. QED
  BY <1>1, <1>4, <1>5

(* Actions that stay at a part, and those that leave the rows.             *)
LEMMA StayOrdering ==
  ASSUME Ordering, left_part \/ postpone \/ wrapped_part \/ wrap \/ end_process
  PROVE  Ordering'
<1>1. usage' = usage /\ part' = part /\ pc \in InCells
  <2>1. CASE left_part
    BY <2>1 DEF left_part, input, InCells
  <2>2. CASE postpone
    BY <2>2 DEF postpone, input, InCells
  <2>3. CASE wrapped_part
    BY <2>3 DEF wrapped_part, input, InCells
  <2>4. CASE wrap
    BY <2>4 DEF wrap, input, InCells
  <2>5. CASE end_process
    BY <2>5 DEF end_process, input, InCells
  <2>6. QED
    BY <2>1, <2>2, <2>3, <2>4, <2>5
<1>2. QED
  BY <1>1 DEF Ordering

LEMMA ElsewhereOrdering ==
  ASSUME \/ next_table \/ restart \/ measured \/ layout
         \/ nothing_to_flush \/ flush \/ flush_line \/ end_flush
  PROVE  Ordering'
<1>1. pc' \in {"widths", "width row", "layout", "row", "flush", "line", "done"}
  <2>1. CASE next_table
    BY <2>1 DEF next_table
  <2>2. CASE restart
    BY <2>2 DEF restart
  <2>3. CASE measured
    BY <2>3 DEF measured
  <2>4. CASE layout
    BY <2>4 DEF layout
  <2>5. CASE nothing_to_flush \/ end_flush
    BY <2>5 DEF nothing_to_flush, end_flush, flushed
  <2>6. CASE flush
    BY <2>6 DEF flush
  <2>7. CASE flush_line
    BY <2>7 DEF flush_line
  <2>8. QED
    BY <2>1, <2>2, <2>3, <2>4, <2>5, <2>6, <2>7
<1>2. QED
  BY <1>1 DEF Ordering, InCells

LEMMA OrderingNext == Sane /\ Laid /\ Ordering /\ [Next]_vars => Ordering'
<1> SUFFICES ASSUME Sane, Laid, Ordering, [Next]_vars PROVE Ordering'
  OBVIOUS
<1>1. CASE measure_row \/ next_row
  BY <1>1, RowOrdering
<1>2. CASE measure \/ drop_column \/ indent \/ own_line
  BY <1>2, PartOrdering
<1>3. CASE last_part \/ last_own_line
  BY <1>3, EndOrdering
<1>4. CASE left_part \/ postpone \/ wrapped_part \/ wrap \/ end_process
  BY <1>4, StayOrdering
<1>5. CASE \/ next_table \/ restart \/ measured \/ layout
           \/ nothing_to_flush \/ flush \/ flush_line \/ end_flush
  BY <1>5, ElsewhereOrdering
<1>6. CASE printed \/ UNCHANGED vars
  <2>1. usage' = usage /\ pc' = pc /\ part' = part
    BY <1>6 DEF printed, vars, input
  <2>2. QED
    BY <2>1 DEF Ordering
<1>7. QED
  BY <1>1, <1>2, <1>3, <1>4, <1>5, <1>6 DEF Next

(* LinePartIterator goes through a row as its comment says: the first      *)
(* parts of all cells from left to right, then the second ones and so on,  *)
(* with an empty part for each cell that has fewer, and no further.        *)
THEOREM PartsOrdered == Spec => []PartsInOrder
<1>1. Sane /\ Laid /\ Ordering => PartsInOrder
  <2> SUFFICES ASSUME Sane, Laid, Ordering, pc \in {"part", "width part", "own"}
               PROVE  LET n    == next(usage, part)
                          more == column(part) + 1 < Len(Cells)
                          c    == IF more THEN column(part) + 1 ELSE 0
                          l    == IF more THEN line(part) ELSE line(part) + 1
                      IN  IF \A d \in 0..Len(Cells) - 1 : l >= Len(Lines(d)) THEN ~ n.ok
                          ELSE /\ n.ok /\ column(n.it) = c /\ line(n.it) = l
                               /\ data(usage, n.it) = IF l < Len(Lines(c)) THEN Lines(c)[l + 1]
                                                      ELSE << >>
    BY DEF PartsInOrder
  <2>1. usage \in Helps /\ AtCell(usage, part) /\ Ordered(usage, part)
    BY DEF Sane, Given, Laid, Cellular, Ordering, InCells
  <2>2. InOrder(usage, part)
    BY <2>1, NextInOrder
  <2>3. Cells = RowCells(usage, part)
    BY DEF Cells, CurrentRow, RowCells, RowEnd
  <2>4. \A d : Lines(d) = CellLines(usage, part, d)
    BY <2>3 DEF Lines, CellLines
  <2>5. QED
    BY <2>2, <2>3, <2>4 DEF InOrder
<1>2. Init => Sane /\ Laid /\ Ordering
  BY SaneInit, LaidInit, OrderingInit
<1>3. Sane /\ Laid /\ Ordering /\ [Next]_vars => (Sane /\ Laid /\ Ordering)'
  BY SaneNext, LaidNext, OrderingNext DEF Kept
<1>4. QED
  BY <1>1, <1>2, <1>3, PTL DEF Spec

=============================================================================
