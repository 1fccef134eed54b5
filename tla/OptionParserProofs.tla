------------------------- MODULE OptionParserProofs -------------------------
(***************************************************************************)
(* The workhorse of the option parser for all usage arrays, argument       *)
(* vectors and parameters: it stays within the vector, comes to its end    *)
(* step by step, and reorders the vector as ArgumentOrder allows.          *)
(***************************************************************************)
EXTENDS OptionParser, SequenceTheorems, TLAPS

-----------------------------------------------------------------------------
(***************************************************************************)
(* Rotating a vector.                                                      *)
(***************************************************************************)

Values(a) == {a[i] : i \in DOMAIN a}

(* b is a after the n arguments at p were moved over the k before them.    *)
Rotated(a, b, p, k, n) ==
    /\ b \in Seq(Nat) /\ Len(b) = Len(a)
    /\ \A i \in p - k .. p - k + n - 1 : b[i] = a[i + k]
    /\ \A i \in p - k + n .. p + n - 1 : b[i] = a[i - n]
    /\ \A i \in 1..Len(a) : i < p - k \/ p + n <= i => b[i] = a[i]

LEMMA ShiftRotates ==
  ASSUME NEW a \in Seq(Nat), NEW p \in 1..Len(a), NEW k \in 0..p - 1
  PROVE  Rotated(a, shift(a, p, k), p, k, 1)
<1> DEFINE b == shift(a, p, k)
<1>1. /\ DOMAIN a = 1..Len(a) /\ Len(a) \in Nat
      /\ \A i \in 1..Len(a) : a[i] \in Nat
  BY LenProperties, ElementOfSeq
<1>2. /\ b[p - k] = a[p]
      /\ \A i \in p - k + 1 .. p : b[i] = a[i - 1]
      /\ \A i \in 1..Len(a) : i < p - k \/ p + 1 <= i => b[i] = a[i]
  BY <1>1 DEF shift
<1>3. \A i \in p - k + 1 .. p : i - 1 \in 1..Len(a)
  BY <1>1
<1>4. b = [i \in 1..Len(a) |-> b[i]]
  BY <1>1 DEF shift
<1> HIDE DEF b
<1>5. \A i \in 1..Len(a) : b[i] \in Nat
  <2> SUFFICES ASSUME NEW i \in 1..Len(a) PROVE b[i] \in Nat
    OBVIOUS
  <2>1. CASE i = p - k
    BY <1>1, <1>2, <2>1
  <2>2. CASE i \in p - k + 1 .. p
    BY <1>1, <1>2, <1>3, <2>2
  <2>3. CASE i < p - k \/ p + 1 <= i
    BY <1>1, <1>2, <2>3
  <2>4. QED
    BY <1>1, <2>1, <2>2, <2>3
<1>6. b \in Seq(Nat) /\ Len(b) = Len(a)
  BY <1>1, <1>4, <1>5
<1>7. \A i \in p - k .. p - k + 1 - 1 : b[i] = a[i + k]
  BY <1>2
<1>8. Rotated(a, b, p, k, 1)
  BY <1>2, <1>6, <1>7 DEF Rotated
<1>9. QED
  BY <1>8 DEF b

LEMMA ShiftRotatesTwice ==
  ASSUME NEW a \in Seq(Nat), NEW p \in 1..Len(a) - 1, NEW k \in 0..p - 1
  PROVE  Rotated(a, shift(shift(a, p, k), p + 1, k), p, k, 2)
<1> DEFINE b == shift(a, p, k)
           c == shift(b, p + 1, k)
<1>1. Len(a) \in Nat /\ p \in 1..Len(a)
  OBVIOUS
<1>2. Rotated(a, b, p, k, 1)
  BY <1>1, ShiftRotates
<1>3. b \in Seq(Nat) /\ Len(b) = Len(a)
  BY <1>2 DEF Rotated
<1> HIDE DEF b
<1>4. p + 1 \in 1..Len(b) /\ k \in 0..(p + 1) - 1
  BY <1>1, <1>3
<1>5. Rotated(b, c, p + 1, k, 1)
  BY <1>3, <1>4, ShiftRotates
<1> HIDE DEF c
<1>6. \A i \in p - k .. p - k + 2 - 1 : c[i] = a[i + k]
  <2>1. c[p - k] = b[p - k] /\ b[p - k] = a[p]
    BY <1>1, <1>2, <1>3, <1>5 DEF Rotated
  <2>2. c[p - k + 1] = b[p + 1] /\ b[p + 1] = a[p + 1]
    <3>1. p - k + 1 \in (p + 1) - k .. (p + 1) - k + 1 - 1 /\ p - k + 1 + k = p + 1
      BY <1>1
    <3>2. c[p - k + 1] = b[p - k + 1 + k]
      BY <1>5, <3>1 DEF Rotated
    <3>3. b[p + 1] = a[p + 1]
      BY <1>1, <1>2 DEF Rotated
    <3>4. QED
      BY <3>1, <3>2, <3>3
  <2>3. SUFFICES ASSUME NEW i \in p - k .. p - k + 2 - 1 PROVE c[i] = a[i + k]
    OBVIOUS
  <2>4. CASE i = p - k
    <3>1. i + k = p
      BY <2>4
    <3>2. QED
      BY <2>1, <2>4, <3>1
  <2>5. CASE i = p - k + 1
    <3>1. i + k = p + 1
      BY <2>5
    <3>2. QED
      BY <2>2, <2>5, <3>1
  <2>6. QED
    BY <1>1, <2>4, <2>5
<1>7. \A i \in p - k + 2 .. p + 2 - 1 : c[i] = a[i - 2]
  <2> SUFFICES ASSUME NEW i \in p - k + 2 .. p + 2 - 1 PROVE c[i] = a[i - 2]
    OBVIOUS
  <2>1. /\ i \in (p + 1) - k + 1 .. (p + 1) + 1 - 1
        /\ i - 1 \in p - k + 1 .. p + 1 - 1
        /\ (i - 1) - 1 = i - 2
    BY <1>1
  <2>2. c[i] = b[i - 1]
    BY <1>5, <2>1 DEF Rotated
  <2>3. b[i - 1] = a[(i - 1) - 1]
    BY <1>2, <2>1 DEF Rotated
  <2>4. QED
    BY <2>1, <2>2, <2>3
<1>8. \A i \in 1..Len(a) : i < p - k \/ p + 2 <= i => c[i] = a[i]
  <2> SUFFICES ASSUME NEW i \in 1..Len(a), i < p - k \/ p + 2 <= i PROVE c[i] = a[i]
    OBVIOUS
  <2>1. i < (p + 1) - k \/ (p + 1) + 1 <= i
    BY <1>1
  <2>2. c[i] = b[i]
    BY <1>3, <1>5, <2>1 DEF Rotated
  <2>3. b[i] = a[i]
    BY <1>1, <1>2 DEF Rotated
  <2>4. QED
    BY <2>2, <2>3
<1>9. Rotated(a, c, p, k, 2)
  BY <1>3, <1>5, <1>6, <1>7, <1>8 DEF Rotated
<1>10. QED
  BY <1>9 DEF b, c

(* A rotation keeps the values of the vector.                              *)
LEMMA RotatedValues ==
  ASSUME NEW a \in Seq(Nat), NEW b, NEW p \in Nat \ {0}, NEW k \in 0..p - 1, NEW n \in Nat,
         p + n - 1 <= Len(a), Rotated(a, b, p, k, n)
  PROVE  Values(b) = Values(a)
<1>1. /\ DOMAIN a = 1..Len(a) /\ DOMAIN b = 1..Len(a) /\ Len(a) \in Nat
  BY LenProperties DEF Rotated
<1>2. ASSUME NEW i \in 1..Len(a)
      PROVE  \E j \in 1..Len(a) : b[i] = a[j]
  <2>1. CASE i \in p - k .. p - k + n - 1
    <3>1. i + k \in 1..Len(a) /\ b[i] = a[i + k]
      BY <1>1, <2>1 DEF Rotated
    <3>2. QED
      BY <3>1
  <2>2. CASE i \in p - k + n .. p + n - 1
    <3>1. i - n \in 1..Len(a) /\ b[i] = a[i - n]
      BY <1>1, <2>2 DEF Rotated
    <3>2. QED
      BY <3>1
  <2>3. CASE i < p - k \/ p + n <= i
    BY <2>3 DEF Rotated
  <2>4. QED
    BY <1>1, <2>1, <2>2, <2>3
<1>3. ASSUME NEW j \in 1..Len(a)
      PROVE  \E i \in 1..Len(a) : a[j] = b[i]
  <2>1. CASE j \in p .. p + n - 1
    <3>1. j - k \in 1..Len(a) /\ j - k \in p - k .. p - k + n - 1 /\ (j - k) + k = j
      BY <1>1, <2>1
    <3>2. b[j - k] = a[j]
      BY <3>1 DEF Rotated
    <3>3. QED
      BY <3>1, <3>2
  <2>2. CASE j \in p - k .. p - 1
    <3>1. j + n \in 1..Len(a) /\ j + n \in p - k + n .. p + n - 1 /\ (j + n) - n = j
      BY <1>1, <2>2
    <3>2. b[j + n] = a[j]
      BY <3>1 DEF Rotated
    <3>3. QED
      BY <3>1, <3>2
  <2>3. CASE j < p - k \/ p + n <= j
    BY <2>3 DEF Rotated
  <2>4. QED
    BY <1>1, <2>1, <2>2, <2>3
<1>4. Values(b) \subseteq Values(a)
  BY <1>1, <1>2 DEF Values
<1>5. Values(a) \subseteq Values(b)
  BY <1>1, <1>3 DEF Values
<1>6. QED
  BY <1>4, <1>5

-----------------------------------------------------------------------------
(***************************************************************************)
(* The parts of a vector at position p with k arguments left before it.    *)
(***************************************************************************)

LEMMA PartsAre ==
  ASSUME NEW a \in Seq(Nat), NEW p \in 1..Len(a) + 1, NEW k \in 0..p - 1
  PROVE  LET T == SubSeq(a, 1, p - k - 1)
             L == SubSeq(a, p - k, p - 1)
             R == SubSeq(a, p, Len(a))
         IN  /\ T \in Seq(Nat) /\ Len(T) = p - k - 1
             /\ \A i \in 1..p - k - 1 : T[i] = a[i]
             /\ L \in Seq(Nat) /\ Len(L) = k
             /\ \A i \in 1..k : L[i] = a[p - k + i - 1]
             /\ R \in Seq(Nat) /\ Len(R) = Len(a) - p + 1
             /\ \A i \in 1..Len(a) - p + 1 : R[i] = a[p + i - 1]
<1>1. Len(a) \in Nat /\ \A i \in 1..Len(a) : a[i] \in Nat
  BY LenProperties, ElementOfSeq
<1>2. /\ SubSeq(a, 1, p - k - 1) \in Seq(Nat)
      /\ Len(SubSeq(a, 1, p - k - 1)) = p - k - 1
      /\ \A i \in 1..p - k - 1 : SubSeq(a, 1, p - k - 1)[i] = a[i]
  <2>1. p - k - 1 \in Int /\ \A i \in 1..p - k - 1 : a[i] \in Nat
    BY <1>1
  <2>2. QED
    BY <1>1, <2>1, SubSeqProperties
<1>3. /\ SubSeq(a, p - k, p - 1) \in Seq(Nat)
      /\ Len(SubSeq(a, p - k, p - 1)) = k
      /\ \A i \in 1..k : SubSeq(a, p - k, p - 1)[i] = a[p - k + i - 1]
  <2>1. p - k \in Int /\ p - 1 \in Int /\ \A i \in p - k .. p - 1 : a[i] \in Nat
    BY <1>1
  <2>2. QED
    BY <1>1, <2>1, SubSeqProperties
<1>4. /\ SubSeq(a, p, Len(a)) \in Seq(Nat)
      /\ Len(SubSeq(a, p, Len(a))) = Len(a) - p + 1
      /\ \A i \in 1..Len(a) - p + 1 : SubSeq(a, p, Len(a))[i] = a[p + i - 1]
  <2>1. p \in Int /\ Len(a) \in Int /\ \A i \in p .. Len(a) : a[i] \in Nat
    BY <1>1
  <2>2. QED
    BY <1>1, <2>1, SubSeqProperties
<1>5. QED
  BY <1>2, <1>3, <1>4

PartTaken(a, p, k) == SubSeq(a, 1, p - k - 1)
PartLeft(a, p, k)  == SubSeq(a, p - k, p - 1)
PartRest(a, p)     == SubSeq(a, p, Len(a))

(* Between a at p and b at q, n arguments are taken.                       *)
Takes(a, p, b, q, k, n) ==
    /\ PartTaken(b, q, k) = PartTaken(a, p, k) \o SubSeq(PartRest(a, p), 1, n)
    /\ PartLeft(b, q, k) = PartLeft(a, p, k)
    /\ PartRest(b, q) = SubSeq(PartRest(a, p), n + 1, Len(PartRest(a, p)))

(* A rotation takes n arguments, in front of those left.                   *)
LEMMA RotationTakes ==
  ASSUME NEW a \in Seq(Nat), NEW b, NEW p \in Nat \ {0}, NEW k \in 0..p - 1, NEW n \in Nat,
         NEW q, p + n - 1 <= Len(a), Rotated(a, b, p, k, n), q = p + n
  PROVE  Takes(a, p, b, q, k, n)
<1> DEFINE T == SubSeq(a, 1, p - k - 1)
           L == SubSeq(a, p - k, p - 1)
           R == SubSeq(a, p, Len(a))
           T2 == SubSeq(b, 1, p + n - k - 1)
           L2 == SubSeq(b, p + n - k, p + n - 1)
           R2 == SubSeq(b, p + n, Len(b))
           H == SubSeq(R, 1, n)
           E == SubSeq(R, n + 1, Len(R))
<1>1. /\ b \in Seq(Nat) /\ Len(b) = Len(a) /\ Len(a) \in Nat
      /\ p \in 1..Len(a) + 1 /\ p + n \in 1..Len(b) + 1 /\ k \in 0..(p + n) - 1
  BY LenProperties DEF Rotated
<1>0. /\ p \in Int /\ k \in Int /\ n \in Int /\ Len(a) \in Int
      /\ 1 <= p /\ 0 <= k /\ k < p /\ 0 <= n /\ p + n <= Len(a) + 1
  BY <1>1
<1>2. /\ T \in Seq(Nat) /\ Len(T) = p - k - 1
      /\ \A i \in 1..p - k - 1 : T[i] = a[i]
      /\ L \in Seq(Nat) /\ Len(L) = k
      /\ \A i \in 1..k : L[i] = a[p - k + i - 1]
      /\ R \in Seq(Nat) /\ Len(R) = Len(a) - p + 1
      /\ \A i \in 1..Len(a) - p + 1 : R[i] = a[p + i - 1]
  BY <1>1, PartsAre
<1>4. /\ T2 \in Seq(Nat) /\ Len(T2) = p + n - k - 1
      /\ L2 \in Seq(Nat) /\ Len(L2) = k
      /\ R2 \in Seq(Nat) /\ Len(R2) = Len(b) - (p + n) + 1
      /\ \A i \in 1..p + n - k - 1 : T2[i] = b[i]
      /\ \A i \in 1..k : L2[i] = b[p + n - k + i - 1]
      /\ \A i \in 1..Len(b) - (p + n) + 1 : R2[i] = b[p + n + i - 1]
  <2>1. q \in 1..Len(b) + 1 /\ k \in 0..q - 1 /\ b \in Seq(Nat)
    BY <1>1
  <2>2. LET TT == SubSeq(b, 1, q - k - 1)
            LL == SubSeq(b, q - k, q - 1)
            RR == SubSeq(b, q, Len(b))
        IN  /\ TT \in Seq(Nat) /\ Len(TT) = q - k - 1
            /\ \A i \in 1..q - k - 1 : TT[i] = b[i]
            /\ LL \in Seq(Nat) /\ Len(LL) = k
            /\ \A i \in 1..k : LL[i] = b[q - k + i - 1]
            /\ RR \in Seq(Nat) /\ Len(RR) = Len(b) - q + 1
            /\ \A i \in 1..Len(b) - q + 1 : RR[i] = b[q + i - 1]
    BY <2>1, PartsAre
  <2>3. QED
    BY <2>2
<1> HIDE DEF T, L, R, T2, L2, R2
<1>5. /\ Len(b) = Len(a)
      /\ Len(T) = p - k - 1 /\ Len(L) = k /\ Len(R) = Len(a) - p + 1
      /\ Len(T2) = p + n - k - 1 /\ Len(L2) = k /\ Len(R2) = Len(a) - (p + n) + 1
  BY <1>1, <1>2, <1>4
<1>6. \A i \in 1..Len(R) : R[i] \in Nat
  BY <1>2, ElementOfSeq
<1>7. /\ 1 \in Int /\ n \in Int /\ n + 1 \in Int /\ Len(R) \in Int /\ n <= Len(R)
      /\ \A i \in 1..n : R[i] \in Nat
      /\ \A i \in n + 1..Len(R) : R[i] \in Nat
  BY <1>0, <1>5, <1>6, SMTT(30)
<1>8. /\ H \in Seq(Nat) /\ Len(H) = n
      /\ \A i \in 1..n : H[i] = R[i]
  BY <1>7, SubSeqProperties, SMTT(30)
<1>9. /\ E \in Seq(Nat) /\ Len(E) = Len(R) - n
      /\ \A i \in 1..Len(R) - n : E[i] = R[n + i]
  BY <1>7, SubSeqProperties
<1> HIDE DEF H, E
<1>10. T2 = T \o H
  <2>1. /\ T \o H \in Seq(Nat) /\ Len(T \o H) = Len(T) + Len(H)
        /\ \A i \in 1..Len(T) + Len(H) :
              (T \o H)[i] = IF i <= Len(T) THEN T[i] ELSE H[i - Len(T)]
    <3>1. T \in Seq(Nat) /\ H \in Seq(Nat)
      BY <1>2, <1>8
    <3>2. QED
      BY <3>1, ConcatProperties
  <2>2. Len(T2) = Len(T \o H) /\ Len(T) + Len(H) = p + n - k - 1
    BY <1>5, <1>8, <2>1
  <2>3. ASSUME NEW i \in 1..p + n - k - 1
        PROVE  T2[i] = (T \o H)[i]
    <3>1. CASE i < p - k
      <4>1. i \in 1..p - k - 1 /\ i \in 1..Len(a) /\ i <= Len(T)
        BY <1>0, <1>5, <3>1
      <4>2. T2[i] = b[i] /\ b[i] = a[i]
        BY <1>4, <1>5, <3>1, <4>1 DEF Rotated
      <4>3. (T \o H)[i] = T[i] /\ T[i] = a[i]
        BY <1>2, <2>1, <2>2, <4>1
      <4>4. QED
        BY <4>2, <4>3
    <3>2. CASE p - k <= i
      <4>1. i \in p - k .. p - k + n - 1
        BY <1>0, <3>2
      <4>2. T2[i] = b[i] /\ b[i] = a[i + k]
        BY <1>4, <1>5, <4>1 DEF Rotated
      <4>3. DEFINE j == i - Len(T)
      <4>4. /\ j \in 1..n /\ ~(i <= Len(T)) /\ p + j - 1 = i + k
            /\ j \in 1..Len(a) - p + 1
        BY <1>0, <1>5, <4>1
      <4>5. (T \o H)[i] = H[j]
        BY <2>1, <2>2, <4>4
      <4> HIDE DEF j
      <4>6. H[j] = R[j] /\ R[j] = a[p + j - 1]
        BY <1>2, <1>8, <4>4
      <4>7. QED
        BY <4>2, <4>4, <4>5, <4>6
    <3>3. i < p - k \/ p - k <= i
      BY <1>0
    <3>4. QED
      BY <3>1, <3>2, <3>3
  <2>4. QED
    BY <1>4, <2>1, <2>2, <2>3, SeqEqual
<1>11. L2 = L
  <2>1. ASSUME NEW i \in 1..k
        PROVE  L2[i] = L[i]
    <3>1. /\ p + n - k + i - 1 \in p - k + n .. p + n - 1
          /\ (p + n - k + i - 1) - n = p - k + i - 1
      BY <1>0
    <3>2. b[p + n - k + i - 1] = a[(p + n - k + i - 1) - n]
      BY <3>1 DEF Rotated
    <3>3. QED
      BY <1>2, <1>4, <3>1, <3>2
  <2>2. QED
    BY <1>2, <1>4, <2>1, SeqEqual
<1>12. R2 = E
  <2>1. Len(R2) = Len(E)
    <3>1. Len(E) = Len(R) - n
      BY <1>9
    <3>2. QED
      BY <1>0, <1>5, <3>1
  <2>2. ASSUME NEW i \in 1..Len(R2)
        PROVE  R2[i] = E[i]
    <3>1. /\ p + n + i - 1 \in 1..Len(a) /\ p + n <= p + n + i - 1
          /\ i \in 1..Len(b) - (p + n) + 1 /\ i \in 1..Len(R) - n
          /\ n + i \in 1..Len(a) - p + 1 /\ p + (n + i) - 1 = p + n + i - 1
      BY <1>0, <1>5
    <3>2. R2[i] = b[p + n + i - 1] /\ b[p + n + i - 1] = a[p + n + i - 1]
      BY <1>4, <1>5, <3>1 DEF Rotated
    <3>3. E[i] = R[n + i] /\ R[n + i] = a[p + (n + i) - 1]
      BY <1>2, <1>9, <3>1
    <3>4. QED
      BY <3>1, <3>2, <3>3
  <2>3. QED
    BY <1>4, <1>9, <2>1, <2>2, SeqEqual
<1>13. QED
  <2>1. /\ PartTaken(a, p, k) = T /\ PartLeft(a, p, k) = L /\ PartRest(a, p) = R
        /\ PartTaken(b, q, k) = T2 /\ PartLeft(b, q, k) = L2 /\ PartRest(b, q) = R2
    BY DEF PartTaken, PartLeft, PartRest, T, L, R, T2, L2, R2
  <2>2. QED
    BY <1>10, <1>11, <1>12, <2>1 DEF Takes, H, E

-----------------------------------------------------------------------------
(***************************************************************************)
(* The type invariant.                                                     *)
(***************************************************************************)

(* What TypeOK says of the vector that is parsed.                          *)
LEMMA CurrentVector ==
  ASSUME TypeOK
  PROVE  /\ vec \in 1..2
         /\ Args \in Seq(Nat) /\ Len(Args) \in Nat /\ DOMAIN Args = 1..Len(Args)
         /\ Values(Args) = DOMAIN text[vec] /\ DOMAIN Args = DOMAIN text[vec]
         /\ pos \in 1..Len(Args) + 1 /\ nonops \in 0..pos - 1
         /\ pos <= Len(Args) => Param \in Seq(STRING) /\ Len(Param) \in Nat
<1>1. vec \in 1..2
  BY DEF TypeOK, vec
<1>2. Args \in Seq(Nat) /\ Len(Args) \in Nat /\ DOMAIN Args = 1..Len(Args)
  BY <1>1, LenProperties DEF TypeOK, Args
<1>3. Values(Args) = DOMAIN text[vec] /\ DOMAIN Args = DOMAIN text[vec]
  BY <1>1 DEF TypeOK, Args, Values
<1>4. ASSUME pos <= Len(Args)
      PROVE  Param \in Seq(STRING) /\ Len(Param) \in Nat
  <2>1. pos \in DOMAIN Args
    BY <1>2, <1>4 DEF TypeOK
  <2>2. Args[pos] \in DOMAIN text[vec]
    BY <1>3, <2>1 DEF Values
  <2>3. text[vec] \in Seq(Seq(STRING))
    BY <1>1 DEF TypeOK
  <2>4. Param \in Seq(STRING)
    <3>1. Args[pos] \in 1..Len(text[vec])
      BY <2>2, <2>3, LenProperties
    <3>2. QED
      BY <2>3, <3>1, ElementOfSeq DEF Param
  <2>5. QED
    BY <2>4, LenProperties
<1>5. QED
  BY <1>1, <1>2, <1>3, <1>4 DEF TypeOK

(* Taking arguments.                                                       *)
LEMMA MovedRotates ==
  ASSUME TypeOK, NEW n \in 1..2, pos + n - 1 <= Len(Args)
  PROVE  Rotated(Args, Moved(Args, n), pos, nonops, n)
<1>1. Args \in Seq(Nat) /\ Len(Args) \in Nat /\ pos \in 1..Len(Args) + 1 /\ nonops \in 0..pos - 1
  BY CurrentVector
<1>2. CASE n = 1
  <2>1. pos \in 1..Len(Args) /\ Moved(Args, n) = shift(Args, pos, nonops)
    BY <1>1, <1>2 DEF Moved
  <2>2. QED
    BY <1>1, <1>2, <2>1, ShiftRotates
<1>3. CASE n = 2
  <2>1. /\ pos \in 1..Len(Args) - 1
        /\ Moved(Args, n) = shift(shift(Args, pos, nonops), pos + 1, nonops)
    BY <1>1, <1>3 DEF Moved
  <2>2. QED
    BY <1>1, <1>3, <2>1, ShiftRotatesTwice
<1>4. QED
  BY <1>2, <1>3

LEMMA TakeType ==
  ASSUME TypeOK, pc # "call", NEW n \in 0..2, pos <= Len(Args), pos + n - 1 <= Len(Args),
         take(n), pc' \in {"args", "group", "over"}, UNCHANGED <<usage, set, text, call, nonops>>,
         IF pc' = "group" THEN n = 0 /\ param' \in 1..Len(Param) ELSE param' = 0,
         short' \in BOOLEAN, single' \in BOOLEAN
  PROVE  TypeOK'
<1> DEFINE b == Moved(Args, n)
<1>1. /\ vec \in 1..2 /\ vec' = vec
      /\ Args \in Seq(Nat) /\ Len(Args) \in Nat /\ DOMAIN Args = 1..Len(Args)
      /\ Values(Args) = DOMAIN text[vec] /\ DOMAIN Args = DOMAIN text[vec]
      /\ pos \in 1..Len(Args) + 1 /\ nonops \in 0..pos - 1
  BY CurrentVector DEF vec
<1>2. b \in Seq(Nat) /\ Len(b) = Len(Args) /\ DOMAIN b = DOMAIN Args /\ Values(b) = Values(Args)
  <2>1. CASE n = 0
    BY <1>1, <2>1 DEF Moved
  <2>2. CASE n \in 1..2
    <3>1. Rotated(Args, b, pos, nonops, n)
      BY <2>2, MovedRotates
    <3> HIDE DEF b
    <3>2. b \in Seq(Nat) /\ Len(b) = Len(Args)
      BY <3>1 DEF Rotated
    <3>3. DOMAIN b = DOMAIN Args
      BY <1>1, <3>2, LenProperties
    <3>4. pos \in Nat \ {0} /\ n \in Nat
      BY <1>1
    <3>5. Values(b) = Values(Args)
      BY <1>1, <3>1, <3>4, RotatedValues
    <3>6. QED
      BY <3>2, <3>3, <3>5
  <2>3. QED
    BY <2>1, <2>2
<1> HIDE DEF b
<1>3. /\ argv \in [1..2 -> Seq(Nat)]
      /\ \A m \in 1..2 : DOMAIN argv[m] = DOMAIN text[m] /\ Values(argv[m]) = DOMAIN text[m]
  BY DEF TypeOK, Values
<1>4. argv' = [argv EXCEPT ![vec] = b] /\ Args' = b
  BY <1>1, <1>3 DEF take, b, Args
<1>5. argv' \in [1..2 -> Seq(Nat)]
  BY <1>2, <1>3, <1>4
<1>6. \A m \in 1..2 : DOMAIN argv'[m] = DOMAIN text[m] /\ Values(argv'[m]) = DOMAIN text[m]
  <2> SUFFICES ASSUME NEW m \in 1..2
               PROVE  DOMAIN argv'[m] = DOMAIN text[m] /\ Values(argv'[m]) = DOMAIN text[m]
    OBVIOUS
  <2>1. CASE m = vec
    <3>1. argv'[m] = b
      BY <1>3, <1>4, <2>1
    <3>2. QED
      BY <1>1, <1>2, <2>1, <3>1
  <2>2. CASE m # vec
    <3>1. argv'[m] = argv[m]
      BY <1>3, <1>4, <2>2
    <3>2. QED
      BY <1>3, <3>1
  <2>3. QED
    BY <2>1, <2>2
<1>7. pos' \in 1..Len(b) + 1 /\ nonops' \in 0..pos' - 1
  <2>1. pos' = pos + n /\ nonops' = nonops /\ Len(b) = Len(Args)
    BY <1>2 DEF take
  <2>2. /\ pos \in Int /\ nonops \in Int /\ Len(Args) \in Int /\ n \in Int
        /\ 1 <= pos /\ 0 <= nonops /\ nonops <= pos - 1 /\ pos + n <= Len(Args) + 1 /\ 0 <= n
    BY <1>1
  <2>3. pos + n \in 1..Len(Args) + 1 /\ nonops \in 0..(pos + n) - 1
    BY <2>2
  <2>4. QED
    BY <2>1, <2>3
<1>8. numargs' = IF set'.counted THEN Len(b) - pos' + 1 ELSE -1
  <2>1. numargs = IF set.counted THEN Len(Args) - pos + 1 ELSE -1
    BY DEF TypeOK
  <2>2. pos' = pos + n /\ numargs' = IF numargs > 0 THEN numargs - n ELSE numargs
    BY DEF take, Less
  <2>3. QED
    BY <1>1, <1>2, <2>1, <2>2
<1>9. IF pc' = "group" THEN pos' <= Len(b) /\ param' \in 1..Len(Param') ELSE param' = 0
  <2>1. CASE pc' = "group"
    <3>1. n = 0 /\ pos' = pos /\ b = Args
      BY <1>1, <2>1 DEF take, b, Moved
    <3>2. Param' = Param
      BY <1>1, <1>4, <3>1 DEF Param
    <3>3. QED
      BY <2>1, <3>1, <3>2
  <2>2. QED
    BY <2>1
<1>10. call' \in 1..4 /\ usage' \in Tables /\ set' \in Settings /\ text' \in [1..2 -> Seq(Seq(STRING))]
  BY DEF TypeOK
<1>11. \A m \in 1..2 : /\ DOMAIN argv'[m] = DOMAIN text'[m]
                       /\ {argv'[m][i] : i \in DOMAIN argv'[m]} = DOMAIN text'[m]
  BY <1>6 DEF Values
<1>12. QED
  BY <1>4, <1>5, <1>7, <1>8, <1>9, <1>10, <1>11 DEF TypeOK

LEMMA InitType == Init => TypeOK
<1> SUFFICES ASSUME Init
             PROVE  TypeOK
  OBVIOUS
<1>1. text \in [1..2 -> Seq(Seq(STRING))]
  BY ConstantsAssumption DEF Init, ConstantsAssumption
<1>2. \A n \in 1..2 : DOMAIN text[n] = 1..Len(text[n]) /\ Len(text[n]) \in Nat
  BY <1>1, LenProperties
<1>3. \A n \in 1..2 : argv[n] = [i \in 1..Len(text[n]) |-> i]
  BY <1>2 DEF Init
<1>4. argv \in [1..2 -> Seq(Nat)]
  <2>1. \A n \in 1..2 : argv[n] \in Seq(Nat)
    BY <1>2, <1>3, SMTT(30)
  <2>2. QED
    BY <2>1 DEF Init
<1>5. \A n \in 1..2 : /\ DOMAIN argv[n] = DOMAIN text[n]
                      /\ {argv[n][i] : i \in DOMAIN argv[n]} = DOMAIN text[n]
  BY <1>2, <1>3
<1>6. vec \in 1..2 /\ Len(Args) \in Nat
  BY <1>4 DEF Init, vec, Args
<1>7. pos \in 1..Len(Args) + 1 /\ nonops \in 0..pos - 1
  BY <1>6 DEF Init
<1>8. usage \in Tables /\ set \in Settings /\ call = 1 /\ pc = "call" /\ param = 0
  BY DEF Init
<1>9. short \in BOOLEAN /\ single \in BOOLEAN
  BY Zenon DEF Init
<1>10. call \in 1..5 /\ pc \in {"call", "args", "group", "over"} /\ pc # "group"
  BY <1>8
<1>11. QED
  BY <1>1, <1>4, <1>5, <1>7, <1>8, <1>9, <1>10, Zenon DEF TypeOK

(* The ways out of workhorse() leave the vectors alone.                    *)
LEMMA ReturnType ==
  ASSUME TypeOK, pc # "call", NEW ok \in BOOLEAN, return(ok)
  PROVE  TypeOK'
<1>1. /\ UNCHANGED <<usage, set, text, argv>> /\ call' \in 1..5 /\ pc' = "call"
      /\ pos' = 1 /\ nonops' = 0 /\ param' = 0 /\ short' = FALSE /\ single' = FALSE
  BY DEF TypeOK, return
<1>2. vec' \in 1..2 /\ Args' \in Seq(Nat)
  <2>1. vec' \in 1..2
    BY DEF vec
  <2>2. Args' = argv[vec'] /\ argv \in [1..2 -> Seq(Nat)]
    BY <1>1 DEF TypeOK, Args
  <2>3. QED
    BY <2>1, <2>2
<1>3. Len(Args') \in Nat
  BY <1>2
<1>4. pos' \in 1..Len(Args') + 1 /\ nonops' \in 0..pos' - 1
  BY <1>1, <1>3
<1>5. QED
  BY <1>1, <1>4 DEF TypeOK

LEMMA BeginType ==
  ASSUME TypeOK, begin
  PROVE  TypeOK'
<1>1. /\ UNCHANGED <<usage, set, text, argv, call, param, short, single>> /\ call \in 1..4 /\ pc = "call" /\ pc' = "args"
      /\ pos' = 1 /\ nonops' = 0
      /\ numargs' = IF set.counted THEN Len(Args) ELSE -1
  BY DEF begin, add, parse, Count
<1>2. vec' = vec /\ Args' = Args /\ Len(Args) \in Nat
  BY <1>1, CurrentVector DEF vec, Args
<1>3. pos' \in 1..Len(Args) + 1 /\ nonops' \in 0..pos' - 1 /\ Len(Args) = Len(Args) - pos' + 1
  BY <1>1, <1>2
<1>4. QED
  BY <1>1, <1>2, <1>3 DEF TypeOK

(* numargs is 0 exactly at the end of a vector that is counted.            *)
LEMMA InVector ==
  ASSUME TypeOK, ~AtEnd
  PROVE  pos <= Len(Args)
BY CurrentVector DEF AtEnd

LEMMA NonoptionType ==
  ASSUME TypeOK, nonoption
  PROVE  TypeOK'
<1>1. /\ UNCHANGED <<usage, set, text, argv, call, pc, param, short, single>>
      /\ pc = "args" /\ call \in 1..4
      /\ nonops' = nonops + 1 /\ pos' = pos + 1 /\ numargs' = Less(1)
      /\ vec' = vec /\ Args' = Args
  BY DEF nonoption, TypeOK, vec, Args
<1>2. /\ pos \in 1..Len(Args) + 1 /\ nonops \in 0..pos - 1 /\ Len(Args) \in Nat /\ pos <= Len(Args)
  BY CurrentVector, InVector DEF nonoption
<1>3. pos' \in 1..Len(Args) + 1 /\ nonops' \in 0..pos' - 1
  BY <1>1, <1>2
<1>4. numargs' = IF set.counted THEN Len(Args) - pos' + 1 ELSE -1
  BY <1>1, <1>2 DEF TypeOK, Less
<1>5. QED
  BY <1>1, <1>3, <1>4 DEF TypeOK

LEMMA OptionType ==
  ASSUME TypeOK, option
  PROVE  TypeOK'
<1>1. /\ UNCHANGED <<usage, set, text, argv, call, pos, numargs, nonops>> /\ pc = "args"
      /\ pc' = "group" /\ param' = 1 /\ vec' = vec /\ Args' = Args
      /\ short' \in BOOLEAN /\ single' = set.single_minus_longopt
  BY DEF option, vec, Args
<1>2. Param' = Param /\ pos <= Len(Args) /\ Len(Param) \in Nat /\ Len(Param) > 1
  BY <1>1, CurrentVector, InVector DEF Param, option, IsNonOption
<1>3. param' \in 1..Len(Param)
  BY <1>1, <1>2
<1>4. set.single_minus_longopt \in BOOLEAN
  BY ConstantsAssumption DEF TypeOK, ConstantsAssumption, Parameters
<1>5. QED
  BY <1>1, <1>2, <1>3, <1>4 DEF TypeOK

LEMMA TerminatorType ==
  ASSUME TypeOK, terminator
  PROVE  TypeOK'
<1>1. pos <= Len(Args) /\ pos + 1 - 1 <= Len(Args) /\ 1 \in 0..2
  BY CurrentVector, InVector DEF terminator
<1>2. /\ take(1) /\ pc' = "over" /\ pc # "call" /\ param' = 0
      /\ UNCHANGED <<usage, set, text, call, nonops, short, single>>
      /\ short \in BOOLEAN /\ single \in BOOLEAN
  BY DEF terminator, TypeOK
<1>3. QED
  BY <1>1, <1>2, TakeType

(* A group goes on inside its argument.                                    *)
LEMMA AdvanceType ==
  ASSUME TypeOK, pc = "group", NEW n \in 0..2, advance(n), pos + n - 1 <= Len(Args),
         n = 0 => ~EndOfGroup(Here) /\ Turn(Here).short
  PROVE  TypeOK'
<1>1. pos <= Len(Args) /\ Len(Param) \in Nat /\ param \in 1..Len(Param)
  BY CurrentVector DEF TypeOK
<1>2. /\ take(n) /\ pc' = (IF n = 0 THEN "group" ELSE "args")
      /\ param' = IF n = 0 THEN Turn(Here).at ELSE 0
      /\ UNCHANGED <<usage, set, text, call, nonops>>
      /\ short' \in BOOLEAN /\ single' \in BOOLEAN
  BY DEF advance
<1>3. n = 0 => param' \in 1..Len(Param)
  <2> SUFFICES ASSUME n = 0
               PROVE  param' \in 1..Len(Param)
    OBVIOUS
  <2>1. ~IsLong(Here)
    BY DEF Turn, LongTurn, Here
  <2>2. Turn(Here).at = param + 1
    BY <2>1 DEF Turn, ShortTurn, Here
  <2>3. param # Len(Param)
    BY <2>1 DEF EndOfGroup, Here, Word, Param
  <2>4. QED
    BY <1>1, <1>2, <2>2, <2>3
<1>4. QED
  BY <1>1, <1>2, <1>3, TakeType

(* What accept and drop say of the group.                                  *)
LEMMA DropAdvances ==
  ASSUME TypeOK, drop
  PROVE  \E n \in 0..1 : /\ pc = "group" /\ advance(n) /\ pos + n - 1 <= Len(Args)
                         /\ n = 0 => ~EndOfGroup(Here) /\ Turn(Here).short
<1> DEFINE n == IF Turn(Here).short THEN 0 ELSE 1
<1>1. n \in 0..1 /\ (n = 0 => Turn(Here).short)
  OBVIOUS
<1>2. pc = "group" /\ ~EndOfGroup(Here) /\ advance(n)
  BY DEF drop
<1> HIDE DEF n
<1>3. pos + n - 1 <= Len(Args)
  BY <1>1, <1>2, CurrentVector DEF TypeOK
<1>4. QED
  BY <1>1, <1>2, <1>3

LEMMA AcceptAdvances ==
  ASSUME TypeOK, accept
  PROVE  \E n \in 0..2 : /\ pc = "group" /\ advance(n) /\ pos + n - 1 <= Len(Args)
                         /\ n = 0 => ~EndOfGroup(Here) /\ Turn(Here).short
<1> DEFINE n == IF Detached(Here) THEN 2 ELSE IF Turn(Here).short /\ Status(Here) # "ARG_OK" THEN 0 ELSE 1
<1>1. n \in 0..2 /\ (n = 0 => Turn(Here).short) /\ (n = 2 => Detached(Here))
  OBVIOUS
<1>2. pc = "group" /\ ~EndOfGroup(Here) /\ advance(n)
  BY DEF accept
<1> HIDE DEF n
<1>3. Detached(Here) => pos < Len(Args)
  BY DEF Detached, NextArg, Here
<1>4. pos + n - 1 <= Len(Args)
  BY <1>1, <1>2, <1>3, CurrentVector DEF TypeOK
<1>5. QED
  BY <1>1, <1>2, <1>4

LEMMA EndOfGroupAdvances ==
  ASSUME TypeOK, end_of_group
  PROVE  pc = "group" /\ advance(1) /\ pos + 1 - 1 <= Len(Args)
BY CurrentVector DEF end_of_group, TypeOK

LEMMA NextType == TypeOK /\ [Next]_vars => TypeOK'
<1> SUFFICES ASSUME TypeOK, [Next]_vars
             PROVE  TypeOK'
  OBVIOUS
<1>1. CASE begin
  BY <1>1, BeginType
<1>2. CASE nonoption
  BY <1>2, NonoptionType
<1>3. CASE stop_at_nonoption
  BY <1>3, ReturnType DEF stop_at_nonoption
<1>4. CASE terminator
  BY <1>4, TerminatorType
<1>5. CASE option
  BY <1>5, OptionType
<1>6. CASE end
  BY <1>6, ReturnType DEF end
<1>7. CASE end_of_group
  <2>1. /\ pc = "group" /\ advance(1) /\ pos + 1 - 1 <= Len(Args)
        /\ 1 \in 0..2 /\ (1 = 0 => ~EndOfGroup(Here) /\ Turn(Here).short)
    BY <1>7, EndOfGroupAdvances
  <2>2. QED
    BY <2>1, AdvanceType
<1>8. CASE drop
  BY <1>8, DropAdvances, AdvanceType
<1>9. CASE illegal
  BY <1>9, ReturnType DEF illegal
<1>10. CASE accept
  BY <1>10, AcceptAdvances, AdvanceType
<1>11. CASE returned \/ UNCHANGED vars
  <2>1. UNCHANGED <<usage, set, text, argv, call, pc, pos, numargs, nonops, param, short, single>>
    BY <1>11 DEF returned, vars, locals
  <2>2. UNCHANGED <<vec, Args, Param>>
    BY <2>1 DEF vec, Args, Param
  <2>3. QED
    BY <2>1, <2>2 DEF TypeOK
<1>12. QED
  BY <1>1, <1>2, <1>3, <1>4, <1>5, <1>6, <1>7, <1>8, <1>9, <1>10, <1>11 DEF Next

(* workhorse() stays inside the vector that it was given, which holds the  *)
(* same arguments at all times, and knows how many are left.               *)
THEOREM Inductive == Spec => []TypeOK
<1>1. QED
  BY InitType, NextType, PTL DEF Spec

-----------------------------------------------------------------------------
(***************************************************************************)
(* Every step is a step on.                                                *)
(***************************************************************************)

LEMMA FartherOn ==
  ASSUME TypeOK, TypeOK',
         \/ call < call'
         \/ call = call' /\ pc = "call" /\ pc' # "call"
         \/ call = call' /\ pc # "call" /\ pc' # "call" /\ pos < pos'
         \/ call = call' /\ pc # "call" /\ pc' # "call" /\ pos = pos' /\ param < param'
  PROVE  Lower(Rank, Rank')
<1> DEFINE r == <<call, IF pc = "call" THEN 0 ELSE 1, pos, param>>
           s == <<call', IF pc' = "call" THEN 0 ELSE 1, pos', param'>>
<1>1. /\ r[1] = call /\ r[2] = (IF pc = "call" THEN 0 ELSE 1) /\ r[3] = pos /\ r[4] = param
      /\ s[1] = call' /\ s[2] = (IF pc' = "call" THEN 0 ELSE 1) /\ s[3] = pos' /\ s[4] = param'
      /\ DOMAIN r = 1..4 /\ Rank = r /\ Rank' = s
  BY DEF Rank
<1> HIDE DEF r, s
<1>2. CASE call < call'
  <2>1. 1 \in DOMAIN r /\ r[1] < s[1] /\ \A j \in 1..1 - 1 : r[j] = s[j]
    BY <1>1, <1>2
  <2>2. QED
    BY <1>1, <2>1 DEF Lower
<1>3. CASE call = call' /\ pc = "call" /\ pc' # "call"
  <2>1. 2 \in DOMAIN r /\ r[2] < s[2] /\ \A j \in 1..2 - 1 : r[j] = s[j]
    BY <1>1, <1>3
  <2>2. QED
    BY <1>1, <2>1 DEF Lower
<1>4. CASE call = call' /\ pc # "call" /\ pc' # "call" /\ pos < pos'
  <2>1. 3 \in DOMAIN r /\ r[3] < s[3] /\ \A j \in 1..3 - 1 : r[j] = s[j]
    BY <1>1, <1>4
  <2>2. QED
    BY <1>1, <2>1 DEF Lower
<1>5. CASE call = call' /\ pc # "call" /\ pc' # "call" /\ pos = pos' /\ param < param'
  <2>1. 4 \in DOMAIN r /\ r[4] < s[4] /\ \A j \in 1..4 - 1 : r[j] = s[j]
    BY <1>1, <1>5
  <2>2. QED
    BY <1>1, <2>1 DEF Lower
<1>6. QED
  BY <1>2, <1>3, <1>4, <1>5

LEMMA AdvanceOn ==
  ASSUME TypeOK, pc = "group", NEW n \in 0..2, advance(n), n = 0 => ~EndOfGroup(Here) /\ Turn(Here).short
  PROVE  /\ call' = call /\ pc' # "call"
         /\ pos < pos' \/ (pos = pos' /\ param < param')
<1>1. call' = call /\ pc' # "call" /\ pos' = pos + n /\ pos \in Int
  BY CurrentVector DEF advance, take
<1>2. ASSUME n = 0
      PROVE  param < param'
  <2>1. param \in Int /\ param' = Turn(Here).at
    BY <1>2, CurrentVector DEF TypeOK, advance
  <2>2. ~IsLong(Here)
    BY <1>2 DEF Turn, LongTurn, Here
  <2>3. Turn(Here).at = param + 1
    BY <2>2 DEF Turn, ShortTurn, Here
  <2>4. QED
    BY <2>1, <2>3
<1>3. QED
  BY <1>1, <1>2

LEMMA NextAdvances == TypeOK /\ TypeOK' /\ [Next]_vars => [Lower(Rank, Rank')]_vars
<1> SUFFICES ASSUME TypeOK, TypeOK', Next, ~returned
             PROVE  Lower(Rank, Rank')
  BY DEF returned
<1>0. /\ call \in Int /\ pos \in Int /\ param \in Int
  BY CurrentVector DEF TypeOK
<1>1. CASE begin
  BY <1>1, FartherOn DEF begin, add, parse
<1>2. ASSUME NEW ok \in BOOLEAN, return(ok)
      PROVE  Lower(Rank, Rank')
  BY <1>0, <1>2, FartherOn DEF return
<1>3. CASE nonoption
  <2>1. call' = call /\ pc # "call" /\ pc' # "call" /\ pos < pos'
    BY <1>0, <1>3 DEF nonoption
  <2>2. QED
    BY <2>1, FartherOn
<1>4. CASE terminator
  <2>1. call' = call /\ pc # "call" /\ pc' # "call" /\ pos < pos'
    BY <1>0, <1>4 DEF terminator, take
  <2>2. QED
    BY <2>1, FartherOn
<1>5. CASE option
  <2>1. call' = call /\ pc # "call" /\ pc' # "call" /\ pos = pos' /\ param < param'
    BY <1>0, <1>5 DEF option, TypeOK
  <2>2. QED
    BY <2>1, FartherOn
<1>6. ASSUME NEW n \in 0..2, pc = "group", advance(n), n = 0 => ~EndOfGroup(Here) /\ Turn(Here).short
      PROVE  Lower(Rank, Rank')
  BY <1>6, AdvanceOn, FartherOn
<1>7. CASE end_of_group
  <2>1. pc = "group" /\ advance(1) /\ 1 \in 0..2 /\ (1 = 0 => ~EndOfGroup(Here) /\ Turn(Here).short)
    BY <1>7 DEF end_of_group
  <2>2. QED
    BY <1>6, <2>1
<1>8. CASE drop
  BY <1>6, <1>8, DropAdvances
<1>9. CASE accept
  BY <1>6, <1>9, AcceptAdvances
<1>10. CASE stop_at_nonoption \/ end \/ illegal
  BY <1>2, <1>10 DEF stop_at_nonoption, end, illegal
<1>11. QED
  BY <1>1, <1>3, <1>4, <1>5, <1>7, <1>8, <1>9, <1>10 DEF Next

(* No loop of workhorse() goes round without getting on: the calls end     *)
(* after a number of steps that the vector bounds.                         *)
THEOREM AlwaysAdvances == Spec => Advances
<1>1. QED
  BY Inductive, NextAdvances, PTL DEF Spec, Advances

-----------------------------------------------------------------------------
(***************************************************************************)
(* The vectors are reordered as ArgumentOrder allows.                      *)
(***************************************************************************)

LEMMA OrderInit ==
  ASSUME Init, NEW n \in 1..2
  PROVE  Order(n)!Init
BY InitType DEF Init, TypeOK, Order!Init, Current

(* A vector that is not parsed before or after the step.                   *)
LEMMA NotParsed ==
  ASSUME NEW n \in 1..2, ~Current(n), ~Current(n)', argv'[n] = argv[n]
  PROVE  UNCHANGED Order(n)!vars
BY DEF Order!vars

LEMMA TakeOrder ==
  ASSUME TypeOK, pc # "call", pc' # "call", NEW m \in 1..2, pos + m - 1 <= Len(Args),
         take(m), UNCHANGED <<call, nonops>>, NEW n \in 1..2
  PROVE  [Order(n)!Next]_(Order(n)!vars)
<1>1. vec' = vec /\ vec \in 1..2 /\ argv' = [argv EXCEPT ![vec] = Moved(Args, m)]
      /\ pos' = pos + m /\ nonops' = nonops
  BY CurrentVector DEF vec, take
<1>2. CASE n = vec
  <2> DEFINE a == argv[n]
             b == argv'[n]
             R == PartRest(a, pos)
  <2>1. b = Moved(a, m) /\ a = Args
    BY <1>1, <1>2 DEF TypeOK, Args
  <2>2. /\ a \in Seq(Nat) /\ pos \in Nat \ {0} /\ nonops \in 0..pos - 1 /\ m \in Nat
        /\ pos + m - 1 <= Len(a) /\ pos' = pos + m
    BY <1>1, <2>1, CurrentVector, SMTT(30)
  <2>3. Rotated(a, b, pos, nonops, m)
    BY <2>1, MovedRotates
  <2> HIDE DEF a, b
  <2>4. Takes(a, pos, b, pos', nonops, m)
    BY <2>2, <2>3, RotationTakes
  <2>5. m <= Len(R)
    <3>1. /\ Len(a) \in Nat /\ pos \in 1..Len(a) + 1
          /\ Len(R) = Len(a) - pos + 1
      BY <2>2, PartsAre DEF PartRest
    <3>2. QED
      BY <2>2, <3>1
  <2>6. Current(n) /\ Current(n)'
    BY <1>1, <1>2 DEF Current
  <2>7. Order(n)!Take
    BY <1>1, <2>4, <2>5, <2>6 DEF Order!Take, Takes, PartTaken, PartLeft, PartRest, a, b
  <2>8. QED
    BY <2>7 DEF Order!Next
<1>3. CASE n # vec
  <2>1. ~Current(n) /\ ~Current(n)' /\ argv'[n] = argv[n]
    BY <1>1, <1>3 DEF Current, TypeOK
  <2>2. QED
    BY <2>1, NotParsed
<1>4. QED
  BY <1>2, <1>3

(* A step that looks at no further argument and moves none.                *)
LEMMA SameOrder ==
  ASSUME UNCHANGED <<argv, call, pos, nonops>>, pc # "call", pc' # "call", NEW n \in 1..2
  PROVE  UNCHANGED Order(n)!vars
BY DEF Order!vars, Current, vec

LEMMA AdvanceOrder ==
  ASSUME TypeOK, pc = "group", NEW m \in 0..2, advance(m), pos + m - 1 <= Len(Args), NEW n \in 1..2
  PROVE  [Order(n)!Next]_(Order(n)!vars)
<1>1. take(m) /\ UNCHANGED <<call, nonops>> /\ pc # "call" /\ pc' # "call"
  BY DEF advance
<1>2. CASE m = 0
  <2>1. UNCHANGED <<argv, pos>>
    BY <1>1, <1>2, CurrentVector DEF take, Moved, TypeOK, Args
  <2>2. QED
    BY <1>1, <2>1, SameOrder
<1>3. CASE m \in 1..2
  BY <1>1, <1>3, TakeOrder
<1>4. QED
  BY <1>2, <1>3

LEMMA LeaveOrder ==
  ASSUME TypeOK, nonoption, NEW n \in 1..2
  PROVE  [Order(n)!Next]_(Order(n)!vars)
<1>1. /\ vec' = vec /\ vec \in 1..2 /\ UNCHANGED <<argv, call>> /\ pc # "call" /\ pc' # "call"
      /\ pos' = pos + 1 /\ nonops' = nonops + 1 /\ pos <= Len(Args)
  BY CurrentVector, InVector DEF nonoption, vec
<1>2. CASE n = vec
  <2> DEFINE a == argv[n]
             L == SubSeq(a, pos - nonops, pos - 1)
             R == SubSeq(a, pos, Len(a))
  <2>1. Current(n) /\ Current(n)' /\ a = Args /\ argv'[n] = a
    BY <1>1, <1>2 DEF Current, Args
  <2>2. /\ a \in Seq(Nat) /\ pos \in 1..Len(a) /\ nonops \in 0..pos - 1 /\ Len(a) \in Nat
    BY <1>1, <2>1, CurrentVector
  <2> HIDE DEF a
  <2>3. pos' - nonops' - 1 = pos - nonops - 1 /\ pos' - nonops' = pos - nonops /\ pos' - 1 = pos
    BY <1>1, <2>2
  <2>4. R # << >> /\ Head(R) = a[pos] /\ Tail(R) = SubSeq(a, pos + 1, Len(a))
    <3>1. Len(a) \in pos..Len(a)
      BY <2>2
    <3>2. Head(R) = a[pos] /\ Tail(R) = SubSeq(a, pos + 1, Len(a))
      BY <2>2, <3>1, HeadTailOfSubSeq
    <3>3. Len(R) = Len(a) - pos + 1 /\ pos \in 1..Len(a) + 1
      BY <2>2, PartsAre
    <3>4. Len(R) # 0
      BY <2>2, <3>3
    <3>5. QED
      BY <3>2, <3>4, EmptySeq
  <2>5. SubSeq(a, pos - nonops, pos) = Append(L, a[pos])
    <3>1. pos - nonops \in 1..Len(a) /\ pos \in (pos - nonops)..Len(a)
      BY <2>2
    <3>2. SubSeq(a, pos - nonops, pos) = L \o <<a[pos]>>
      BY <2>2, <3>1, SubSeqRecursiveSecond
    <3>3. L \in Seq(Nat) /\ a[pos] \in Nat
      BY <2>2, PartsAre, ElementOfSeq
    <3>4. QED
      BY <3>2, <3>3, AppendIsConcat
  <2>6. Order(n)!Leave
    BY <1>1, <2>1, <2>3, <2>4, <2>5 DEF Order!Leave, a
  <2>7. QED
    BY <2>6 DEF Order!Next
<1>3. CASE n # vec
  <2>1. ~Current(n) /\ ~Current(n)' /\ argv'[n] = argv[n]
    BY <1>1, <1>3 DEF Current
  <2>2. QED
    BY <2>1, NotParsed
<1>4. QED
  BY <1>2, <1>3

LEMMA ReturnOrder ==
  ASSUME TypeOK, pc # "call", NEW ok \in BOOLEAN, return(ok), NEW n \in 1..2
  PROVE  [Order(n)!Next]_(Order(n)!vars)
<1>1. argv' = argv /\ pc' = "call" /\ ~Current(n)' /\ vec \in 1..2
  BY CurrentVector DEF return, Current
<1>2. CASE n = vec
  <2> DEFINE a == argv[n]
             T == SubSeq(a, 1, pos - nonops - 1)
             L == SubSeq(a, pos - nonops, pos - 1)
             R == SubSeq(a, pos, Len(a))
  <2>1. Current(n) /\ a = Args
    BY <1>2 DEF Current, Args
  <2>2. /\ a \in Seq(Nat) /\ Len(a) \in Nat /\ pos \in 1..Len(a) + 1 /\ nonops \in 0..pos - 1
    BY <2>1, CurrentVector
  <2> HIDE DEF a
  <2>3. T \o L = SubSeq(a, 1, pos - 1)
    <3>1. /\ 1 \in 1..Len(a) + 1 /\ pos - nonops - 1 \in 1 - 1..Len(a)
          /\ pos - 1 \in pos - nonops - 1..Len(a) /\ (pos - nonops - 1) + 1 = pos - nonops
      BY <2>2
    <3>2. T \o SubSeq(a, (pos - nonops - 1) + 1, pos - 1) = SubSeq(a, 1, pos - 1)
      BY <2>2, <3>1, ConcatAdjacentSubSeq
    <3>3. QED
      BY <3>1, <3>2
  <2>4. SubSeq(a, 1, pos - 1) \o R = a
    <3>1. /\ 1 \in 1..Len(a) + 1 /\ pos - 1 \in 1 - 1..Len(a)
          /\ Len(a) \in pos - 1..Len(a) /\ (pos - 1) + 1 = pos
      BY <2>2
    <3>2. SubSeq(a, 1, pos - 1) \o SubSeq(a, (pos - 1) + 1, Len(a)) = SubSeq(a, 1, Len(a))
      BY <2>2, <3>1, ConcatAdjacentSubSeq
    <3>3. QED
      BY <2>2, <3>1, <3>2, SubSeqFull
  <2>5. a = T \o L \o R
    BY <2>3, <2>4
  <2>6. Order(n)!Anew
    BY <1>1, <2>1, <2>5 DEF Order!Anew, a
  <2>7. QED
    BY <2>6 DEF Order!Next
<1>3. CASE n # vec
  <2>1. ~Current(n) /\ argv'[n] = argv[n]
    BY <1>1, <1>3 DEF Current
  <2>2. QED
    BY <1>1, <2>1, NotParsed
<1>4. QED
  BY <1>2, <1>3

LEMMA BeginOrder ==
  ASSUME TypeOK, begin, NEW n \in 1..2
  PROVE  UNCHANGED Order(n)!vars
<1>1. /\ argv' = argv /\ vec' = vec /\ pc = "call" /\ pc' = "args" /\ pos' = 1 /\ nonops' = 0
      /\ ~Current(n)
  BY DEF begin, add, parse, vec, Current
<1>2. CASE n = vec
  <2> DEFINE a == argv[n]
  <2>1. a \in Seq(Nat)
    BY DEF TypeOK
  <2>2. Current(n)' /\ argv'[n] = a
    BY <1>1, <1>2 DEF Current
  <2> HIDE DEF a
  <2>3. /\ SubSeq(a, 1, 1 - 0 - 1) = << >> /\ SubSeq(a, 1 - 0, 1 - 1) = << >>
        /\ SubSeq(a, 1, Len(a)) = a
    <3>1. 1 - 0 - 1 = 0 /\ 1 - 0 = 1 /\ 1 - 1 = 0 /\ 0 < 1 /\ 0 \in Int /\ 1 \in Int
      OBVIOUS
    <3>2. SubSeq(a, 1, 0) = << >>
      BY <3>1, SubSeqEmpty
    <3>3. QED
      BY <2>1, <3>1, <3>2, SubSeqFull
  <2>4. QED
    BY <1>1, <2>2, <2>3 DEF Order!vars, a
<1>3. CASE n # vec
  <2>1. ~Current(n)' /\ argv'[n] = argv[n]
    BY <1>1, <1>3 DEF Current
  <2>2. QED
    BY <1>1, <2>1, NotParsed
<1>4. QED
  BY <1>2, <1>3

LEMMA NextOrder ==
  TypeOK /\ [Next]_vars => [\A n \in 1..2 : [Order(n)!Next]_(Order(n)!vars)]_vars
<1> SUFFICES ASSUME TypeOK, Next, ~returned, NEW n \in 1..2
             PROVE  [Order(n)!Next]_(Order(n)!vars)
  BY DEF returned
<1>1. CASE begin
  BY <1>1, BeginOrder
<1>2. CASE nonoption
  BY <1>2, LeaveOrder
<1>3. CASE stop_at_nonoption \/ end \/ illegal
  BY <1>3, ReturnOrder DEF stop_at_nonoption, end, illegal
<1>4. CASE terminator
  <2>1. /\ pc # "call" /\ pc' # "call" /\ take(1) /\ UNCHANGED <<call, nonops>>
        /\ pos <= Len(Args)
    BY <1>4, InVector DEF terminator
  <2>2. 1 \in 1..2 /\ pos + 1 - 1 <= Len(Args)
    BY <2>1, CurrentVector
  <2>3. QED
    BY <2>1, <2>2, TakeOrder
<1>5. CASE option
  BY <1>5, SameOrder DEF option
<1>6. CASE end_of_group
  <2>1. pc = "group" /\ advance(1) /\ pos + 1 - 1 <= Len(Args) /\ 1 \in 0..2
    BY <1>6, EndOfGroupAdvances
  <2>2. QED
    BY <2>1, AdvanceOrder
<1>7. CASE drop
  BY <1>7, DropAdvances, AdvanceOrder
<1>8. CASE accept
  BY <1>8, AcceptAdvances, AdvanceOrder
<1>9. QED
  BY <1>1, <1>2, <1>3, <1>4, <1>5, <1>6, <1>7, <1>8 DEF Next

(* Rotating the vector as it is read leaves the order of the options, and  *)
(* that of the other arguments, as given, for any number of both and in    *)
(* every parse() of the vector.                                            *)
THEOREM ImplementsOrder == Spec => KeepsOrder
<1>1. Init => \A n \in 1..2 : Order(n)!Init
  BY OrderInit
<1>2. QED
  BY <1>1, Inductive, NextOrder, PTL DEF Spec, KeepsOrder

=============================================================================
