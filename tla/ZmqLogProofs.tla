---------------------------- MODULE ZmqLogProofs ----------------------------
(***************************************************************************)
(* The collector and its in-process loggers, for any number of loggers,    *)
(* threads, calls and starts and any capacity: messages of one thread over *)
(* one logger are printed in order (IInv is inductive), and each side      *)
(* keeps its promise in the company of the other.                          *)
(***************************************************************************)
EXTENDS ZmqLog, SequenceTheorems, TLAPS

USE ConstantsAssumption DEF ConstantsAssumption

-----------------------------------------------------------------------------
(* What waits of a logger, position by position.                           *)
LEMMA WaitingIs ==
  ASSUME TypeOK, NEW l \in Loggers
  PROVE  /\ emitted[l] \in Seq(CallIds) /\ Len(emitted[l]) \in Nat /\ taken[l] \in Nat
         /\ taken[l] <= Len(emitted[l])
         /\ Waiting(l) \in Seq(CallIds)
         /\ Len(Waiting(l)) = Len(emitted[l]) - taken[l]
         /\ \A k \in 1..(Len(emitted[l]) - taken[l]) :
               Waiting(l)[k] = emitted[l][taken[l] + k]
<1>1. /\ emitted[l] \in Seq(CallIds) /\ Len(emitted[l]) \in Nat /\ taken[l] \in Nat
      /\ taken[l] <= Len(emitted[l])
  BY DEF TypeOK
<1>2. \A i \in (taken[l] + 1)..Len(emitted[l]) : emitted[l][i] \in CallIds
  BY <1>1
<1>3. /\ Waiting(l) \in Seq(CallIds)
      /\ Len(Waiting(l)) = IF taken[l] + 1 <= Len(emitted[l])
                           THEN Len(emitted[l]) - (taken[l] + 1) + 1 ELSE 0
      /\ \A k \in 1..(Len(emitted[l]) - (taken[l] + 1) + 1) :
            Waiting(l)[k] = emitted[l][(taken[l] + 1) + k - 1]
  <2> DEFINE s == emitted[l]
             m == taken[l] + 1
             n == Len(emitted[l])
  <2>1. m \in Int /\ n \in Int /\ \A i \in m..n : s[i] \in CallIds
    BY <1>1, <1>2
  <2> HIDE DEF s, m, n
  <2>2. /\ SubSeq(s, m, n) \in Seq(CallIds)
        /\ Len(SubSeq(s, m, n)) = IF m <= n THEN n - m + 1 ELSE 0
        /\ \A k \in 1..(n - m + 1) : SubSeq(s, m, n)[k] = s[m + k - 1]
    BY <2>1, SubSeqProperties
  <2>3. QED
    BY <2>2 DEF Waiting, s, m, n
<1>4. Len(Waiting(l)) = Len(emitted[l]) - taken[l]
  BY <1>1, <1>3
<1>5. ASSUME NEW k \in 1..(Len(emitted[l]) - taken[l])
      PROVE  Waiting(l)[k] = emitted[l][taken[l] + k]
  <2>1. k \in 1..(Len(emitted[l]) - (taken[l] + 1) + 1) /\ (taken[l] + 1) + k - 1 = taken[l] + k
    BY <1>1
  <2>2. QED
    BY <1>3, <2>1
<1>6. QED
  BY <1>1, <1>3, <1>4, <1>5

(* The oldest of them.                                                     *)
LEMMA OldestWaiting ==
  ASSUME TypeOK, NEW l \in Loggers, taken[l] < Len(emitted[l])
  PROVE  /\ Head(Waiting(l)) = emitted[l][taken[l] + 1]
         /\ Head(Waiting(l)) \in CallIds
         /\ taken[l] + 1 \in DOMAIN emitted[l]
<1>1. /\ Waiting(l) \in Seq(CallIds) /\ Len(Waiting(l)) > 0
      /\ Waiting(l)[1] = emitted[l][taken[l] + 1]
  BY WaitingIs
<1>2. QED
  BY <1>1, WaitingIs

-----------------------------------------------------------------------------
(* Before the collector is constructed IInv holds.                         *)
LEMMA InitInv == Init => IInv
<1> SUFFICES ASSUME Init PROVE IInv
  OBVIOUS
<1>1. << >> \in Seq(CallIds) /\ << >> \in Seq(Loggers \X CallIds)
  <2>1. \A S : << >> \in Seq(S)
    OBVIOUS
  <2>2. QED
    BY <2>1
<1>2. TypeOK
  <2>1. fault \in BOOLEAN /\ inpBound \in BOOLEAN
    BY Zenon DEF Init
  <2>2. QED
    BY <1>1, <2>1 DEF Init, TypeOK, Lives
<1>3. /\ CallCounted /\ NoneBeforeStart
      /\ InpAccepts /\ EmittedInOrder /\ PrintedBeforeWaiting /\ PrintedInOrder
  BY DEF Init, CallCounted, NoneBeforeStart, InpAccepts, EmittedInOrder, PrintedBeforeWaiting, PrintedInOrder
<1>4. QED
  BY <1>2, <1>3 DEF IInv

(* Printing takes the oldest message of a logger and nothing else.         *)
LEMMA InInpIs ==
  ASSUME TypeOK, NEW l \in Loggers, in_inp(l)
  PROVE  /\ taken[l] < Len(emitted[l]) /\ taken[l] + 1 \in DOMAIN emitted[l]
         /\ taken' = [taken EXCEPT ![l] = @ + 1]
         /\ emitted[l][taken[l] + 1] \in CallIds
         /\ printed' = Append(printed, <<l, emitted[l][taken[l] + 1]>>)
         /\ UNCHANGED <<life, runs, worker, fault, inpBound, attached>>
         /\ UNCHANGED <<logger, calls, status, emitted>>
BY OldestWaiting DEF in_inp, callVars, collectorVars, runVars

(* The steps of the collector but for printing.                            *)
CollectorStep == start \/ Binding \/ stop \/ destroy \/ Destructor

LEMMA CollectorIs ==
  ASSUME TypeOK, CollectorStep
  PROVE  /\ UNCHANGED <<logger, calls, status, emitted, taken, printed>>
         /\ life' \in Lives /\ (life' = "unborn" => life = "unborn") /\ runs' \in 0..MaxRuns
         /\ worker' \in {"none", "bind", "serve"} /\ fault' \in BOOLEAN
         /\ inpBound' \in BOOLEAN /\ attached' \in SUBSET Loggers
<1>1. UNCHANGED <<logger, calls, status, emitted, taken, printed>>
  BY DEF CollectorStep, Binding, Destructor, start, bind_inp, bind_throws, stop, destroy,
         close, abort, ctx_term, term_returns, callVars
<1>2. /\ life' \in Lives /\ (life' = "unborn" => life = "unborn") /\ runs' \in 0..MaxRuns
      /\ worker' \in {"none", "bind", "serve"} /\ fault' \in BOOLEAN
      /\ inpBound' \in BOOLEAN /\ attached' \in SUBSET Loggers
  <2>1. CASE start
    <3>1. /\ life' = "running" /\ runs' \in 0..MaxRuns /\ worker' \in {"none", "bind", "serve"}
          /\ inpBound' = inpBound /\ attached' = attached
      BY <2>1 DEF TypeOK, start
    <3>2. fault' \in BOOLEAN
      BY <2>1, Zenon DEF start
    <3>3. inpBound' \in BOOLEAN
      BY <3>1, Zenon DEF TypeOK
    <3>4. QED
      BY <3>1, <3>2, <3>3 DEF TypeOK, Lives
  <2>2. CASE Binding
    BY <2>2 DEF TypeOK, Lives, Binding, bind_inp, bind_throws
  <2>3. CASE stop \/ destroy \/ Destructor
    BY <2>3 DEF TypeOK, Lives, stop, destroy, Alive, Destructor, close, abort, ctx_term,
                term_returns, runVars
  <2>4. QED
    BY <2>1, <2>2, <2>3 DEF CollectorStep
<1>3. QED
  BY <1>1, <1>2

(* Moving one call leaves the others where they are.                       *)
LEMMA OtherCalls ==
  ASSUME TypeOK, NEW l \in Loggers, NEW t \in Threads, NEW v \in {"idle", "open", "settled"},
         status' = [status EXCEPT ![l][t] = v]
  PROVE  /\ status' \in [Loggers -> [Threads -> {"idle", "open", "settled"}]]
         /\ status'[l][t] = v
         /\ \A m \in Loggers, u \in Threads : <<m, u>> # <<l, t>> => status'[m][u] = status[m][u]
BY DEF TypeOK

(* No action takes a variable out of its type, and no queue over capacity. *)
LEMMA TypeStep == TypeOK /\ CallCounted /\ [Next]_vars => TypeOK' /\ CallCounted'
<1> SUFFICES ASSUME TypeOK, CallCounted, [Next]_vars PROVE TypeOK' /\ CallCounted'
  OBVIOUS
<1>1. CASE CollectorStep
  BY <1>1, CollectorIs DEF TypeOK, CallCounted
<1>2. ASSUME NEW l \in Loggers, in_inp(l) PROVE TypeOK' /\ CallCounted'
  <2>1. printed' \in Seq(Loggers \X CallIds)
    <3> DEFINE S == Loggers \X CallIds
               e == <<l, emitted[l][taken[l] + 1]>>
    <3>1. printed \in Seq(S) /\ e \in S /\ printed' = Append(printed, e)
      BY <1>2, InInpIs DEF TypeOK
    <3> HIDE DEF S, e
    <3>2. printed' \in Seq(S)
      BY <3>1
    <3>3. QED
      BY <3>2 DEF S
  <2>2. taken' \in [Loggers -> Nat] /\ \A m \in Loggers :
           /\ taken'[m] <= Len(emitted[m]) /\ Len(emitted[m]) <= taken'[m] + Capacity
    <3>1. /\ taken \in [Loggers -> Nat] /\ taken' = [taken EXCEPT ![l] = @ + 1]
          /\ taken[l] < Len(emitted[l])
          /\ \A m \in Loggers : /\ taken[m] <= Len(emitted[m]) /\ Len(emitted[m]) \in Nat
                                /\ Len(emitted[m]) <= taken[m] + Capacity
      BY <1>2, WaitingIs, InInpIs DEF TypeOK
    <3>2. taken' \in [Loggers -> Nat] /\ taken'[l] = taken[l] + 1
      BY <3>1
    <3>3. \A m \in Loggers : m # l => taken'[m] = taken[m]
      BY <3>1
    <3>4. QED
      BY <3>1, <3>2, <3>3
  <2>3. QED
    BY <1>2, <2>1, <2>2, InInpIs DEF TypeOK, CallCounted
<1>3. ASSUME NEW l \in Loggers, logger_mt(l) \/ release(l) PROVE TypeOK' /\ CallCounted'
  <2>1. /\ UNCHANGED <<life, runs, worker, fault, inpBound>> /\ attached' \in SUBSET Loggers
        /\ UNCHANGED callVars /\ UNCHANGED <<taken, printed>>
        /\ \E s \in {"open", "released"} : logger' = [logger EXCEPT ![l] = s]
    BY <1>3 DEF TypeOK, logger_mt, release, collectorVars, runVars
  <2>2. logger' \in [Loggers -> {"none", "open", "released"}]
    BY <2>1 DEF TypeOK
  <2>3. QED
    BY <2>1, <2>2 DEF TypeOK, CallCounted, callVars
<1>4. ASSUME NEW l \in Loggers, NEW t \in Threads, call(l, t) PROVE TypeOK' /\ CallCounted'
  <2>1. calls[l] \in [Threads -> 0..MaxCalls] /\ calls[l][t] + 1 \in 0..MaxCalls
    BY <1>4 DEF TypeOK, call
  <2>2. calls' \in [Loggers -> [Threads -> 0..MaxCalls]] /\ calls'[l][t] = calls[l][t] + 1
    BY <1>4, <2>1 DEF TypeOK, call
  <2>3. /\ status' \in [Loggers -> [Threads -> {"idle", "open", "settled"}]]
        /\ UNCHANGED <<life, runs, worker, fault, inpBound, attached>>
        /\ UNCHANGED <<logger, emitted, taken, printed>>
    BY <1>4 DEF TypeOK, call, collectorVars, runVars
  <2>4. CallCounted'
    <3>1. ASSUME NEW m \in Loggers, NEW u \in Threads, <<m, u>> # <<l, t>>
          PROVE  calls'[m][u] = calls[m][u] /\ status'[m][u] = status[m][u]
      BY <1>4, <3>1 DEF TypeOK, call
    <3>2. calls'[l][t] # 0
      BY <2>1, <2>2 DEF TypeOK
    <3>3. QED
      BY <3>1, <3>2 DEF CallCounted
  <2>5. QED
    BY <2>2, <2>3, <2>4 DEF TypeOK
<1>5. ASSUME NEW l \in Loggers, NEW t \in Threads, send(l, t) PROVE TypeOK' /\ CallCounted'
  <2>1. <<t, calls[l][t]>> \in CallIds
    BY <1>5 DEF TypeOK, CallCounted, send, CallIds
  <2>2. /\ status' \in [Loggers -> [Threads -> {"idle", "open", "settled"}]]
        /\ UNCHANGED <<life, runs, worker, fault, inpBound, attached>>
        /\ UNCHANGED <<logger, calls, taken, printed>> /\ CallCounted'
    <3>1. status' = [status EXCEPT ![l][t] = "settled"] /\ calls' = calls /\ calls[l][t] # 0
      BY <1>5 DEF send, CallCounted
    <3>2. CallCounted'
      BY <3>1, OtherCalls DEF CallCounted
    <3>3. QED
      BY <1>5, <3>1, <3>2, OtherCalls DEF send, collectorVars, runVars
  <2>3. CASE UNCHANGED emitted
    BY <2>2, <2>3 DEF TypeOK
  <2>4. CASE /\ Len(emitted[l]) < taken[l] + Capacity
             /\ emitted' = [emitted EXCEPT ![l] = Append(@, <<t, calls[l][t]>>)]
    <3>1. /\ Append(emitted[l], <<t, calls[l][t]>>) \in Seq(CallIds)
          /\ Len(Append(emitted[l], <<t, calls[l][t]>>)) = Len(emitted[l]) + 1
          /\ Len(emitted[l]) \in Nat
      BY <2>1 DEF TypeOK
    <3>2. emitted' \in [Loggers -> Seq(CallIds)]
      BY <2>4, <3>1 DEF TypeOK
    <3>3. \A m \in Loggers : taken[m] <= Len(emitted'[m]) /\ Len(emitted'[m]) <= taken[m] + Capacity
      BY <2>4, <3>1 DEF TypeOK
    <3>4. QED
      BY <2>2, <3>2, <3>3 DEF TypeOK
  <2>5. QED
    BY <1>5, <2>3, <2>4 DEF send
<1>6. ASSUME NEW l \in Loggers, NEW t \in Threads, throws(l, t) \/ return(l, t)
      PROVE  TypeOK' /\ CallCounted'
  <2>1. /\ status' \in [Loggers -> [Threads -> {"idle", "open", "settled"}]]
        /\ UNCHANGED <<life, runs, worker, fault, inpBound, attached>>
        /\ UNCHANGED <<logger, calls, emitted, taken, printed>> /\ CallCounted'
    BY <1>6, OtherCalls DEF throws, return, CallCounted, collectorVars, runVars
  <2>2. QED
    BY <2>1 DEF TypeOK
<1>7. CASE Rest \/ UNCHANGED vars
  BY <1>7 DEF TypeOK, CallCounted, Rest, vars, callVars, collectorVars, runVars
<1>8. QED
  BY <1>1, <1>2, <1>3, <1>4, <1>5, <1>6, <1>7 DEF Next, CollectorStep, Logger, log

-----------------------------------------------------------------------------
(* The calls that threads have begun and those they are in.                *)
LEMMA CallsMove ==
  ASSUME TypeOK, NEW l \in Loggers, NEW t \in Threads,
         call(l, t) \/ send(l, t) \/ throws(l, t) \/ return(l, t)
  PROVE  \A m \in Loggers, c \in CallIds : Earlier(c, m) => Earlier(c, m)'
<1> SUFFICES ASSUME NEW m \in Loggers, NEW c \in CallIds, Earlier(c, m) PROVE Earlier(c, m)'
  OBVIOUS
<1>1. c[1] \in Threads /\ c[2] \in Nat /\ calls[m][c[1]] \in Nat
  BY DEF CallIds, TypeOK
<1>2. CASE call(l, t)
  <2>1. calls'[m][c[1]] = IF <<m, c[1]>> = <<l, t>> THEN calls[m][c[1]] + 1 ELSE calls[m][c[1]]
    BY <1>1, <1>2 DEF call, TypeOK
  <2>2. <<m, c[1]>> # <<l, t>> => status'[m][c[1]] = status[m][c[1]]
    BY <1>1, <1>2, OtherCalls DEF call
  <2>3. QED
    BY <1>1, <2>1, <2>2 DEF Earlier
<1>3. CASE send(l, t) \/ throws(l, t) \/ return(l, t)
  <2>1. calls' = calls
    BY <1>3 DEF send, throws, return
  <2>2. status'[m][c[1]] = "open" => status[m][c[1]] = "open"
    BY <1>1, <1>3, OtherCalls DEF send, throws, return
  <2>3. QED
    BY <2>1, <2>2 DEF Earlier
<1>4. QED
  BY <1>2, <1>3

(* What is printed and sent are calls of the loggers.                      *)
LEMMA Elements ==
  ASSUME TypeOK
  PROVE  /\ \A i \in DOMAIN printed : printed[i][1] \in Loggers /\ printed[i][2] \in CallIds
         /\ \A l \in Loggers : \A k \in DOMAIN emitted[l] : emitted[l][k] \in CallIds
         /\ \A c \in CallIds : c[1] \in Threads /\ c[2] \in Nat
<1> DEFINE S == Loggers \X CallIds
<1>1. \A e \in S : e[1] \in Loggers /\ e[2] \in CallIds
  OBVIOUS
<1>2. printed \in Seq(S)
  BY DEF TypeOK
<1> HIDE DEF S
<1>3. \A i \in DOMAIN printed : printed[i] \in S
  BY <1>2
<1>4. \A l \in Loggers : emitted[l] \in Seq(CallIds)
  BY DEF TypeOK
<1>5. \A l \in Loggers : \A k \in DOMAIN emitted[l] : emitted[l][k] \in CallIds
  BY <1>4
<1>6. \A c \in CallIds : c[1] \in Threads /\ c[2] \in Nat
  BY DEF CallIds
<1>7. QED
  BY <1>1, <1>3, <1>5, <1>6

(* A step that neither sends nor prints keeps the order.                   *)
LEMMA QuietStep ==
  ASSUME IInv, UNCHANGED <<emitted, taken, printed>>,
         \A m \in Loggers, c \in CallIds : Earlier(c, m) => Earlier(c, m)'
  PROVE  EmittedInOrder' /\ PrintedBeforeWaiting' /\ PrintedInOrder'
<1>1. EmittedInOrder'
  <2>1. \A l \in Loggers : \A k \in DOMAIN emitted[l] : Earlier(emitted[l][k], l)'
    BY Elements DEF IInv, EmittedInOrder
  <2>2. QED
    BY <2>1 DEF IInv, EmittedInOrder, Earlier
<1>2. PrintedBeforeWaiting'
  <2>1. \A i \in DOMAIN printed : Earlier(printed[i][2], printed[i][1])'
    BY Elements DEF IInv, PrintedBeforeWaiting
  <2>2. QED
    BY <2>1 DEF IInv, PrintedBeforeWaiting, Earlier
<1>3. PrintedInOrder'
  BY DEF IInv, PrintedInOrder
<1>4. QED
  BY <1>1, <1>2, <1>3

(* A message that is sent is of a later call of its thread than everything *)
(* that was sent or printed of this logger.                                *)
LEMMA SendStep ==
  ASSUME IInv, NEW l \in Loggers, NEW t \in Threads, send(l, t),
         emitted' = [emitted EXCEPT ![l] = Append(@, <<t, calls[l][t]>>)]
  PROVE  EmittedInOrder' /\ PrintedBeforeWaiting' /\ PrintedInOrder'
<1> DEFINE n == Len(emitted[l])
           c == <<t, calls[l][t]>>
<1>1. /\ status[l][t] = "open" /\ status'[l][t] = "settled"
      /\ calls' = calls /\ taken' = taken /\ printed' = printed /\ calls[l][t] \in Nat
      /\ taken[l] \in Nat /\ taken[l] <= n
  BY OtherCalls, WaitingIs DEF IInv, TypeOK, send
<1>2. /\ n \in Nat /\ DOMAIN emitted[l] = 1..n /\ DOMAIN emitted'[l] = 1..(n + 1)
      /\ \A k \in 1..n : emitted'[l][k] = emitted[l][k]
      /\ emitted'[l][n + 1] = c
      /\ \A m \in Loggers : m # l => emitted'[m] = emitted[m]
  BY DEF IInv, TypeOK
<1>3. \A m \in Loggers, d \in CallIds : Earlier(d, m) => Earlier(d, m)'
  BY CallsMove DEF IInv
<1>4. EmittedInOrder'
  <2>1. ASSUME NEW m \in Loggers, NEW k \in DOMAIN emitted'[m] PROVE Earlier(emitted[m][k], m)'
    <3>1. CASE m = l /\ k = n + 1
      BY <1>1, <1>2, <3>1 DEF Earlier
    <3>2. CASE ~(m = l /\ k = n + 1)
      <4>1. k \in DOMAIN emitted[m] /\ emitted'[m][k] = emitted[m][k]
        BY <1>2, <2>1, <3>2
      <4>2. emitted[m][k] \in CallIds /\ Earlier(emitted[m][k], m)
        BY <4>1, Elements DEF IInv, EmittedInOrder
      <4>3. QED
        BY <1>3, <4>1, <4>2 DEF Earlier
    <3>3. QED
      BY <3>1, <3>2
  <2>2. ASSUME NEW m \in Loggers, NEW j \in DOMAIN emitted'[m], NEW k \in DOMAIN emitted'[m],
               j < k, emitted'[m][j][1] = emitted'[m][k][1]
        PROVE  emitted'[m][j][2] < emitted'[m][k][2]
    <3>1. CASE m = l /\ k = n + 1
      <4>1. j \in DOMAIN emitted[l] /\ emitted'[l][j] = emitted[l][j] /\ emitted'[l][k] = c
        BY <1>2, <2>2, <3>1
      <4>2. Earlier(emitted[l][j], l) /\ emitted[l][j][1] = t
        BY <2>2, <3>1, <4>1 DEF IInv, EmittedInOrder
      <4>3. QED
        BY <1>1, <3>1, <4>1, <4>2 DEF Earlier
    <3>2. CASE ~(m = l /\ k = n + 1)
      <4>1. /\ k \in DOMAIN emitted[m] /\ emitted'[m][k] = emitted[m][k]
            /\ j \in DOMAIN emitted[m] /\ emitted'[m][j] = emitted[m][j]
        BY <1>2, <2>2, <3>2
      <4>2. QED
        BY <2>2, <4>1 DEF IInv, EmittedInOrder
    <3>3. QED
      BY <3>1, <3>2
  <2>3. QED
    BY <2>1, <2>2 DEF EmittedInOrder
<1>5. PrintedBeforeWaiting'
  <2> SUFFICES ASSUME NEW i \in DOMAIN printed
               PROVE  /\ Earlier(printed[i][2], printed[i][1])'
                      /\ \A k \in DOMAIN emitted'[printed[i][1]] :
                            k > taken[printed[i][1]]
                                /\ emitted'[printed[i][1]][k][1] = printed[i][2][1]
                              => printed[i][2][2] < emitted'[printed[i][1]][k][2]
    BY <1>1 DEF PrintedBeforeWaiting, Earlier
  <2>1. /\ printed[i][1] \in Loggers /\ printed[i][2] \in CallIds
        /\ Earlier(printed[i][2], printed[i][1])
        /\ \A k \in DOMAIN emitted[printed[i][1]] :
              k > taken[printed[i][1]] /\ emitted[printed[i][1]][k][1] = printed[i][2][1]
                => printed[i][2][2] < emitted[printed[i][1]][k][2]
    BY Elements DEF IInv, PrintedBeforeWaiting
  <2>2. Earlier(printed[i][2], printed[i][1])'
    BY <1>1, <1>3, <2>1 DEF Earlier
  <2>3. printed[i][1] = l /\ printed[i][2][1] = t => printed[i][2][2] < calls[l][t]
    BY <1>1, <2>1 DEF Earlier
  <2>4. QED
    BY <1>2, <2>1, <2>2, <2>3
<1>6. PrintedInOrder'
  BY <1>1 DEF IInv, PrintedInOrder
<1>7. QED
  BY <1>4, <1>5, <1>6

(* What is printed is of a later call than what was printed, and of an     *)
(* earlier one than what waits.                                            *)
LEMMA PrintStep ==
  ASSUME IInv, NEW l \in Loggers, in_inp(l)
  PROVE  EmittedInOrder' /\ PrintedBeforeWaiting' /\ PrintedInOrder'
<1> DEFINE n == Len(printed)
           c == emitted[l][taken[l] + 1]
<1>1. /\ taken[l] + 1 \in DOMAIN emitted[l] /\ taken' = [taken EXCEPT ![l] = @ + 1]
      /\ c \in CallIds /\ printed' = Append(printed, <<l, c>>)
      /\ calls' = calls /\ status' = status /\ emitted' = emitted
  BY InInpIs DEF IInv
<1>2. /\ n \in Nat /\ DOMAIN printed = 1..n /\ DOMAIN printed' = 1..(n + 1)
      /\ \A i \in 1..n : printed'[i] = printed[i]
      /\ printed'[n + 1] = <<l, c>>
  <2> DEFINE S == Loggers \X CallIds
             e == <<l, c>>
  <2>1. printed \in Seq(S) /\ printed' = Append(printed, e)
    BY <1>1 DEF IInv, TypeOK
  <2> HIDE DEF S, e
  <2>2. /\ n \in Nat /\ DOMAIN printed = 1..n /\ DOMAIN printed' = 1..(n + 1)
        /\ \A i \in 1..n : printed'[i] = printed[i]
        /\ printed'[n + 1] = e
    BY <2>1
  <2>3. QED
    BY <2>2 DEF e
<1>3. /\ taken'[l] = taken[l] + 1 /\ \A m \in Loggers : m # l => taken'[m] = taken[m]
      /\ \A m \in Loggers : taken[m] \in Nat
  BY <1>1 DEF IInv, TypeOK
<1>4. EmittedInOrder'
  BY <1>1 DEF IInv, EmittedInOrder, Earlier
<1>5. PrintedBeforeWaiting'
  <2>1. emitted' = emitted /\ calls' = calls /\ status' = status
    BY <1>1
  <2> SUFFICES ASSUME NEW i \in DOMAIN printed'
               PROVE  LET m == printed'[i][1]
                          d == printed'[i][2]
                      IN  /\ Earlier(d, m)
                          /\ \A k \in DOMAIN emitted[m] :
                                k > taken'[m] /\ emitted[m][k][1] = d[1] => d[2] < emitted[m][k][2]
    BY <2>1, Zenon DEF PrintedBeforeWaiting, Earlier
  <2>2. CASE i = n + 1
    <3>1. printed'[i][1] = l /\ printed'[i][2] = c
      BY <1>2, <2>2
    <3>2. Earlier(c, l)
      BY <1>1 DEF IInv, EmittedInOrder
    <3>3. \A k \in DOMAIN emitted[l] :
             k > taken[l] + 1 /\ emitted[l][k][1] = c[1] => c[2] < emitted[l][k][2]
      BY <1>1 DEF IInv, EmittedInOrder
    <3>4. QED
      BY <1>3, <3>1, <3>2, <3>3
  <2>3. CASE i # n + 1
    <3>1. i \in DOMAIN printed /\ printed'[i] = printed[i] /\ printed[i][1] \in Loggers
      BY <1>2, <2>3, Elements DEF IInv
    <3>2. \A k \in DOMAIN emitted[printed[i][1]] :
             k > taken'[printed[i][1]] => k > taken[printed[i][1]]
      <4>1. \A k \in DOMAIN emitted[printed[i][1]] : k \in Nat
        BY <3>1, WaitingIs DEF IInv
      <4>2. QED
        BY <1>3, <3>1, <4>1
    <3>3. QED
      BY <3>1, <3>2 DEF IInv, PrintedBeforeWaiting
  <2>4. QED
    BY <2>2, <2>3
<1>6. PrintedInOrder'
  <2> SUFFICES ASSUME NEW i \in DOMAIN printed', NEW j \in DOMAIN printed', i < j,
                      printed'[i][1] = printed'[j][1], printed'[i][2][1] = printed'[j][2][1]
               PROVE  printed'[i][2][2] < printed'[j][2][2]
    BY DEF PrintedInOrder
  <2>1. i \in DOMAIN printed /\ printed'[i] = printed[i]
    BY <1>2
  <2>2. CASE j = n + 1
    <3>1. printed'[j][1] = l /\ printed'[j][2] = c
      BY <1>2, <2>2
    <3>2. taken[l] + 1 > taken[l]
      BY <1>3
    <3>3. QED
      BY <1>1, <2>1, <3>1, <3>2 DEF IInv, PrintedBeforeWaiting
  <2>3. CASE j # n + 1
    BY <1>2, <2>1, <2>3 DEF IInv, PrintedInOrder
  <2>4. QED
    BY <2>2, <2>3
<1>7. QED
  BY <1>4, <1>5, <1>6

(* m_inp accepts its loggers when it is bound, or when they connect later. *)
LEMMA InpStep == IInv /\ [Next]_vars => InpAccepts'
<1> SUFFICES ASSUME IInv, [Next]_vars PROVE InpAccepts'
  OBVIOUS
<1> USE DEF IInv, InpAccepts
<1>1. CASE start
  BY <1>1 DEF start
<1>2. CASE Binding
  BY <1>2 DEF Binding, bind_inp, bind_throws
<1>3. CASE stop \/ destroy \/ Destructor
  BY <1>3 DEF stop, destroy, Destructor, close, abort, ctx_term, term_returns, runVars
<1>4. ASSUME NEW l \in Loggers, logger_mt(l) PROVE InpAccepts'
  <2>1. \A m \in Loggers : logger'[m] # "none" => m = l \/ logger[m] # "none"
    BY <1>4 DEF logger_mt, TypeOK
  <2>2. QED
    BY <1>4, <2>1 DEF logger_mt
<1>5. ASSUME NEW l \in Loggers, release(l) PROVE InpAccepts'
  <2>1. \A m \in Loggers : logger'[m] # "none" => logger[m] # "none"
    BY <1>5 DEF release, TypeOK
  <2>2. QED
    BY <1>5, <2>1 DEF release, collectorVars, runVars
<1>6. ASSUME NEW l \in Loggers, in_inp(l) \/ \E t \in Threads : call(l, t) \/ log(l, t)
      PROVE  InpAccepts'
  BY <1>6 DEF in_inp, call, log, send, throws, return, collectorVars, runVars
<1>7. CASE Rest \/ UNCHANGED vars
  BY <1>7 DEF Rest, vars, collectorVars, runVars
<1>8. QED
  BY <1>1, <1>2, <1>3, <1>4, <1>5, <1>6, <1>7 DEF Next, Logger

(* Every step keeps IInv.                                                  *)
LEMMA InvStep == IInv /\ [Next]_vars => IInv'
<1> SUFFICES ASSUME IInv, [Next]_vars PROVE IInv'
  OBVIOUS
<1>1. TypeOK' /\ CallCounted'
  BY TypeStep DEF IInv
<1>2. ASSUME NEW l \in Loggers, NEW t \in Threads, call(l, t) \/ log(l, t)
      PROVE  EmittedInOrder' /\ PrintedBeforeWaiting' /\ PrintedInOrder'
  <2>1. \A m \in Loggers, c \in CallIds : Earlier(c, m) => Earlier(c, m)'
    BY <1>2, CallsMove DEF IInv, log
  <2>2. CASE UNCHANGED <<emitted, taken, printed>>
    BY <2>1, <2>2, QuietStep
  <2>3. CASE send(l, t) /\ emitted' = [emitted EXCEPT ![l] = Append(@, <<t, calls[l][t]>>)]
    BY <2>3, SendStep
  <2>4. QED
    BY <1>2, <2>2, <2>3 DEF call, log, send, throws, return
<1>3. ASSUME UNCHANGED <<calls, status, emitted, taken, printed>>
      PROVE  EmittedInOrder' /\ PrintedBeforeWaiting' /\ PrintedInOrder'
  BY <1>3, QuietStep DEF Earlier
<1>4. EmittedInOrder' /\ PrintedBeforeWaiting' /\ PrintedInOrder'
  <2>1. CASE \/ CollectorStep \/ Rest \/ UNCHANGED vars
             \/ \E l \in Loggers : logger_mt(l) \/ release(l)
    <3>1. CASE CollectorStep
      BY <1>3, <3>1, CollectorIs DEF IInv
    <3>2. CASE ~CollectorStep
      BY <1>3, <2>1, <3>2 DEF Rest, vars, callVars, logger_mt, release
    <3>3. QED
      BY <3>1, <3>2
  <2>2. QED
    BY <1>2, <2>1, PrintStep DEF Next, CollectorStep, Logger
<1>5. NoneBeforeStart'
  <2>1. ASSUME NEW l \in Loggers, NEW t \in Threads, call(l, t) \/ log(l, t)
        PROVE  NoneBeforeStart'
    <3>1. life # "unborn" /\ life' = life
      BY <2>1 DEF IInv, NoneBeforeStart, call, log, send, throws, return, collectorVars
    <3>2. QED
      BY <3>1 DEF NoneBeforeStart
  <2>2. CASE CollectorStep
    BY <2>2, CollectorIs DEF IInv, NoneBeforeStart
  <2>3. CASE \E l \in Loggers : in_inp(l) \/ logger_mt(l) \/ release(l)
    BY <2>3 DEF IInv, NoneBeforeStart, Alive, in_inp, logger_mt, release, collectorVars, callVars
  <2>4. CASE Rest \/ UNCHANGED vars
    BY <2>4 DEF IInv, NoneBeforeStart, Rest, vars, callVars, collectorVars
  <2>5. QED
    BY <2>1, <2>2, <2>3, <2>4 DEF Next, CollectorStep, Logger
<1>6. InpAccepts'
  BY InpStep
<1>7. QED
  BY <1>1, <1>4, <1>5, <1>6 DEF IInv

(* IInv holds in every reachable state.                                    *)
THEOREM Inductive == Spec => []IInv
<1>1. QED
  BY InitInv, InvStep, PTL DEF Spec

(* The messages of one thread over one logger are printed in the order of  *)
(* its calls, none twice, over any stop and start of the collector (line   *)
(* 207 of zlogpull.cpp behind line 185 of zlog.h).                         *)
THEOREM EndToEndOrder == Spec => []PrintedInOrder
<1>1. IInv => PrintedInOrder
  BY DEF IInv
<1>2. QED
  BY Inductive, <1>1, PTL

(* A collector that came up without a fault has accepted every logger that *)
(* it has made, whenever that was (lines 113-118 of zlogpull.cpp, line 142 *)
(* of zlog.h): both sides name one endpoint for the life of the collector. *)
THEOREM EveryLoggerHeard == Spec => []AllHeard
<1>1. IInv => AllHeard
  BY DEF IInv, InpAccepts, AllHeard
<1>2. QED
  BY Inductive, <1>1, PTL

-----------------------------------------------------------------------------
(* The refinement of LogService.  The pairs of logger and call for what    *)
(* waits of the stream s of logger l when n of its calls are taken.        *)
Pairs(l, s, n) ==
    LET w == SubSeq(s, n + 1, Len(s)) IN [k \in 1..Len(w) |-> <<l, w[k]>>]

LEMMA PairsAre ==
  ASSUME NEW l, NEW s \in Seq(CallIds), NEW n \in 0..Len(s)
  PROVE  Pairs(l, s, n) = [k \in 1..(Len(s) - n) |-> <<l, s[n + k]>>]
<1> DEFINE w == SubSeq(s, n + 1, Len(s))
<1>1. \A i \in (n + 1)..Len(s) : s[i] \in CallIds
  OBVIOUS
<1>2. n + 1 \in Int /\ Len(s) \in Int
  OBVIOUS
<1>3. /\ Len(w) = IF n + 1 <= Len(s) THEN Len(s) - (n + 1) + 1 ELSE 0
      /\ \A k \in 1..(Len(s) - (n + 1) + 1) : w[k] = s[(n + 1) + k - 1]
  BY <1>1, <1>2, SubSeqProperties
<1>4. Len(w) = Len(s) - n
  BY <1>3
<1>5. ASSUME NEW k \in 1..(Len(s) - n) PROVE w[k] = s[n + k]
  <2>1. k \in 1..(Len(s) - (n + 1) + 1) /\ (n + 1) + k - 1 = n + k
    OBVIOUS
  <2>2. QED
    BY <1>3, <2>1
<1>6. QED
  BY <1>4, <1>5 DEF Pairs

LEMMA PairsType ==
  ASSUME NEW l \in Loggers, NEW s \in Seq(CallIds), NEW n \in 0..Len(s)
  PROVE  /\ Pairs(l, s, n) \in Seq(Loggers \X CallIds)
         /\ Len(Pairs(l, s, n)) = Len(s) - n
<1> DEFINE S == Loggers \X CallIds
           m == Len(s) - n
           P == Pairs(l, s, n)
<1>1. m \in Nat /\ \A k \in 1..m : <<l, s[n + k]>> \in S
  OBVIOUS
<1>2. P = [k \in 1..m |-> <<l, s[n + k]>>]
  BY PairsAre
<1> HIDE DEF S, m, P
<1>3. P \in [1..m -> S]
  BY <1>1, <1>2
<1>4. P \in Seq(S) /\ Len(P) = m
  BY <1>1, <1>3
<1>5. QED
  BY <1>4 DEF S, m, P

(* To take a call takes the first pair.                                    *)
LEMMA PairsTake ==
  ASSUME NEW l \in Loggers, NEW s \in Seq(CallIds), NEW n \in 0..Len(s), n < Len(s)
  PROVE  /\ Pairs(l, s, n) # << >>
         /\ Head(Pairs(l, s, n)) = <<l, s[n + 1]>>
         /\ Tail(Pairs(l, s, n)) = Pairs(l, s, n + 1)
<1> DEFINE S == Loggers \X CallIds
           m == Len(s) - n
           P == Pairs(l, s, n)
           Q == Pairs(l, s, n + 1)
<1>1. /\ m \in Nat /\ m > 0 /\ P \in Seq(S) /\ Len(P) = m /\ Q \in Seq(S) /\ Len(Q) = m - 1
  BY PairsType
<1>2. /\ \A k \in 1..m : P[k] = <<l, s[n + k]>>
      /\ \A k \in 1..(m - 1) : Q[k] = <<l, s[n + (k + 1)]>>
  <2>1. /\ P = [k \in 1..m |-> <<l, s[n + k]>>]
        /\ Q = [k \in 1..(Len(s) - (n + 1)) |-> <<l, s[(n + 1) + k]>>]
        /\ Len(s) - (n + 1) = m - 1
    <3>1. n + 1 \in 0..Len(s) /\ Len(s) - (n + 1) = m - 1
      OBVIOUS
    <3>2. P = [k \in 1..m |-> <<l, s[n + k]>>]
      BY PairsAre
    <3>3. ASSUME NEW q \in 0..Len(s) PROVE Pairs(l, s, q) = [k \in 1..(Len(s) - q) |-> <<l, s[q + k]>>]
      BY PairsAre
    <3>4. PICK q \in 0..Len(s) : q = n + 1
      BY <3>1
    <3>5. Q = [k \in 1..(Len(s) - q) |-> <<l, s[q + k]>>]
      BY <3>3, <3>4
    <3>6. QED
      BY <3>1, <3>2, <3>4, <3>5
  <2>2. ASSUME NEW k \in 1..(m - 1) PROVE Q[k] = <<l, s[n + (k + 1)]>>
    <3>1. (n + 1) + k = n + (k + 1)
      BY <1>1
    <3>2. QED
      BY <2>1, <3>1
  <2>3. QED
    BY <2>1, <2>2
<1> HIDE DEF S, m, P, Q
<1>3. P # << >> /\ Head(P) = P[1] /\ P[1] = <<l, s[n + 1]>>
  BY <1>1, <1>2
<1>4. Tail(P) \in Seq(S) /\ Len(Tail(P)) = m - 1 /\ \A k \in 1..(m - 1) : Tail(P)[k] = P[k + 1]
  BY <1>1, <1>3, HeadTailProperties
<1>5. ASSUME NEW k \in 1..(m - 1) PROVE Tail(P)[k] = Q[k]
  <2>1. k + 1 \in 1..m
    BY <1>1
  <2>2. QED
    BY <1>2, <1>4, <2>1
<1>6. Tail(P) = Q
  BY <1>1, <1>4, <1>5, SeqEqual
<1>7. QED
  BY <1>3, <1>6 DEF P, Q

(* To send a call appends a pair.                                          *)
LEMMA PairsSend ==
  ASSUME NEW l \in Loggers, NEW s \in Seq(CallIds), NEW n \in 0..Len(s), NEW c \in CallIds
  PROVE  Pairs(l, Append(s, c), n) = Append(Pairs(l, s, n), <<l, c>>)
<1> DEFINE S == Loggers \X CallIds
           m == Len(s) - n
           P == Pairs(l, s, n)
           Q == Pairs(l, Append(s, c), n)
           A == Append(P, <<l, c>>)
<1>1. /\ m \in Nat /\ P \in Seq(S) /\ Len(P) = m /\ Q \in Seq(S) /\ Len(Q) = m + 1
      /\ <<l, c>> \in S
  <2>1. Append(s, c) \in Seq(CallIds) /\ Len(Append(s, c)) = Len(s) + 1
    OBVIOUS
  <2>2. n \in 0..Len(Append(s, c)) /\ Len(Append(s, c)) - n = m + 1 /\ m \in Nat
    BY <2>1
  <2>3. Q \in Seq(S) /\ Len(Q) = m + 1
    BY <2>1, <2>2, PairsType
  <2>4. P \in Seq(S) /\ Len(P) = m
    BY PairsType
  <2>5. QED
    BY <2>2, <2>3, <2>4
<1>2. /\ \A k \in 1..m : P[k] = <<l, s[n + k]>>
      /\ \A k \in 1..m : Q[k] = <<l, s[n + k]>>
      /\ Q[m + 1] = <<l, c>>
  <2>1. /\ Len(Append(s, c)) - n = m + 1 /\ m + 1 \in 1..(m + 1)
        /\ Append(s, c)[n + (m + 1)] = c
        /\ \A k \in 1..m : Append(s, c)[n + k] = s[n + k] /\ k \in 1..(m + 1)
    OBVIOUS
  <2>2. /\ Q = [k \in 1..(m + 1) |-> <<l, Append(s, c)[n + k]>>]
        /\ P = [k \in 1..m |-> <<l, s[n + k]>>]
    <3> DEFINE r == Append(s, c)
    <3>1. r \in Seq(CallIds) /\ n \in 0..Len(r)
      OBVIOUS
    <3> HIDE DEF r
    <3>2. Pairs(l, r, n) = [k \in 1..(Len(r) - n) |-> <<l, r[n + k]>>]
      BY <3>1, PairsAre
    <3>3. P = [k \in 1..m |-> <<l, s[n + k]>>]
      BY PairsAre
    <3>4. QED
      BY <2>1, <3>2, <3>3 DEF r
  <2>3. QED
    BY <2>1, <2>2
<1> HIDE DEF S, m, P, Q
<1>3. A \in Seq(S) /\ Len(A) = m + 1 /\ (\A k \in 1..m : A[k] = P[k]) /\ A[m + 1] = <<l, c>>
  BY <1>1, AppendProperties
<1>4. ASSUME NEW k \in 1..(m + 1) PROVE Q[k] = A[k]
  <2>1. k \in 1..m \/ k = m + 1
    BY <1>1
  <2>2. QED
    BY <1>2, <1>3, <2>1
<1>5. Q = A
  BY <1>1, <1>3, <1>4, SeqEqual
<1>6. QED
  BY <1>5 DEF P, Q

(* The queues that the collector serves.                                   *)
Queue(l) == [k \in 1..Len(Waiting(l)) |-> <<l, Waiting(l)[k]>>]

Queues == [s \in {"inp"} |-> [l \in Loggers |-> Queue(l)]]

LEMMA QueueIs ==
  ASSUME NEW l \in Loggers
  PROVE  Queue(l) = Pairs(l, emitted[l], taken[l])
BY DEF Queue, Waiting, Pairs

LEMMA QueuesStay ==
  ASSUME UNCHANGED <<emitted, taken>>
  PROVE  Queues' = Queues
BY DEF Queues, Queue, Waiting

LEMMA QueuesPrint ==
  ASSUME TypeOK, NEW l \in Loggers, in_inp(l)
  PROVE  /\ Queues["inp"][l] # << >>
         /\ Queues' = [Queues EXCEPT !["inp"][l] = Tail(@)]
         /\ printed' = Append(printed, Head(Queues["inp"][l]))
<1>1. /\ emitted[l] \in Seq(CallIds) /\ taken[l] \in 0..Len(emitted[l]) /\ taken[l] < Len(emitted[l])
      /\ taken'[l] = taken[l] + 1 /\ emitted' = emitted
      /\ \A m \in Loggers : m # l => taken'[m] = taken[m]
  BY WaitingIs, InInpIs DEF TypeOK
<1>2. Queue(l)' = Pairs(l, emitted'[l], taken'[l])
  BY DEF Queue, Waiting, Pairs
<1>3. Queue(l)' = Tail(Queue(l)) /\ Queue(l) # << >> /\ Head(Queue(l)) = <<l, emitted[l][taken[l] + 1]>>
  BY <1>1, <1>2, QueueIs, PairsTake
<1>4. \A m \in Loggers : m # l => Queue(m)' = Queue(m)
  BY <1>1 DEF Queue, Waiting
<1>5. Queues' = [s \in {"inp"} |-> [m \in Loggers |-> Queue(m)']]
  BY DEF Queues
<1>6. Queues["inp"][l] = Queue(l)
  BY DEF Queues
<1>7. printed' = Append(printed, Head(Queue(l)))
  BY <1>3, InInpIs
<1>8. Queues' = [Queues EXCEPT !["inp"][l] = Tail(@)]
  BY <1>3, <1>4, <1>5 DEF Queues
<1>9. QED
  BY <1>3, <1>6, <1>7, <1>8

LEMMA QueuesSend ==
  ASSUME TypeOK, NEW l \in Loggers, NEW c \in CallIds,
         emitted' = [emitted EXCEPT ![l] = Append(@, c)], taken' = taken
  PROVE  Queues' = [Queues EXCEPT !["inp"][l] = Append(@, <<l, c>>)]
<1>1. /\ emitted[l] \in Seq(CallIds) /\ taken[l] \in 0..Len(emitted[l])
      /\ emitted'[l] = Append(emitted[l], c)
      /\ \A m \in Loggers : m # l => emitted'[m] = emitted[m]
  BY WaitingIs DEF TypeOK
<1>2. Queue(l)' = Pairs(l, emitted'[l], taken'[l]) /\ Queue(l) = Pairs(l, emitted[l], taken[l])
  BY DEF Queue, Waiting, Pairs
<1>3. Queue(l)' = Append(Queue(l), <<l, c>>)
  <2> DEFINE e == emitted[l]
             k == taken[l]
  <2>1. e \in Seq(CallIds) /\ k \in 0..Len(e) /\ c \in CallIds
    BY <1>1
  <2>2. emitted'[l] = Append(e, c) /\ taken'[l] = k
    BY <1>1
  <2> HIDE DEF e, k
  <2>3. Pairs(l, Append(e, c), k) = Append(Pairs(l, e, k), <<l, c>>)
    BY <2>1, PairsSend
  <2>4. Queue(l)' = Pairs(l, Append(e, c), k) /\ Queue(l) = Pairs(l, e, k)
    BY <1>2, <2>2, Zenon DEF e, k
  <2>5. QED
    BY <2>3, <2>4, Zenon
<1>4. ASSUME NEW m \in Loggers, m # l PROVE Queue(m)' = Queue(m)
  <2>1. Waiting(m)' = Waiting(m)
    BY <1>1, <1>4 DEF Waiting
  <2>2. QED
    BY <2>1 DEF Queue
<1>5. Queues' = [s \in {"inp"} |-> [m \in Loggers |-> Queue(m)']]
  BY DEF Queues
<1>6. QED
  BY <1>3, <1>4, <1>5 DEF Queues

-----------------------------------------------------------------------------
(* Nothing waits for a collector that is not constructed.                  *)
LEMMA ServiceInit == Init => Service!Init
<1> SUFFICES ASSUME Init PROVE Service!Init
  OBVIOUS
<1>1. \A l \in Loggers : Queue(l) = << >>
  <2>1. \A l \in Loggers : emitted[l] = << >> /\ taken[l] = 0
    BY DEF Init
  <2>2. ASSUME NEW l \in Loggers PROVE Queue(l) = << >>
    <3>1. Waiting(l) = << >>
      BY <2>1, SubSeqEmpty DEF Waiting
    <3>2. QED
      BY <3>1 DEF Queue
  <2>3. QED
    BY <2>2
<1>2. Queues = [s \in {"inp"} |-> [l \in Loggers |-> << >>]]
  BY <1>1 DEF Queues
<1>3. QED
  BY <1>2 DEF Init, Service!Init, Service!Empty, Queues, Queue

(* Only a collector that runs is stopped.                                  *)
LEMMA StopRuns == stop => life = "running"
BY DEF stop

(* Every step of the system is a step of the service, or none.             *)
LEMMA ServiceStep == IInv /\ [Next]_vars => [Service!Next]_(Service!vars)
<1> SUFFICES ASSUME IInv, [Next]_vars PROVE [Service!Next]_(Service!vars)
  OBVIOUS
<1> USE DEF IInv
<1>1. CASE start
  <2>1. UNCHANGED <<emitted, taken, printed>> /\ life \in {"unborn", "stopped"} /\ life' = "running"
    BY <1>1 DEF start, callVars
  <2>2. Service!Run
    BY <2>1, QueuesStay DEF Service!Run, Queues, Queue
  <2>3. QED
    BY <2>2 DEF Service!Next
<1>2. CASE (stop \/ destroy) /\ life = "running"
  <2>1. UNCHANGED <<emitted, taken, printed>> /\ life' \in {"stopped", "stopping"}
    BY <1>2 DEF stop, destroy, callVars
  <2>2. Service!Stop
    BY <1>2, <2>1, QueuesStay DEF Service!Stop, Queues, Queue
  <2>3. QED
    BY <2>2 DEF Service!Next
<1>3. CASE close \/ abort
  <2>1. UNCHANGED <<emitted, taken, printed>> /\ life = "stopping" /\ life' \in {"closed", "aborted"}
    BY <1>3 DEF close, abort, callVars
  <2>2. Service!End
    BY <2>1, QueuesStay DEF Service!End, Queues, Queue
  <2>3. QED
    BY <2>2 DEF Service!Next
<1>4. ASSUME NEW l \in Loggers, in_inp(l) PROVE [Service!Next]_(Service!vars)
  <2>1. life = "running" /\ life' = life
    BY <1>4 DEF in_inp, collectorVars
  <2>2. Service!PrintOne("inp", l)
    BY <1>4, <2>1, QueuesPrint DEF Service!PrintOne, Queues, Queue
  <2>3. QED
    BY <2>2 DEF Service!Next
<1>5. ASSUME NEW l \in Loggers, NEW t \in Threads, send(l, t), emitted' # emitted
      PROVE  [Service!Next]_(Service!vars)
  <2>1. /\ life \in {"running", "stopped", "stopping"} /\ life' = life
        /\ taken' = taken /\ printed' = printed
        /\ emitted' = [emitted EXCEPT ![l] = Append(@, <<t, calls[l][t]>>)]
    BY <1>5 DEF send, Exists, collectorVars
  <2>2. <<t, calls[l][t]>> \in CallIds
    BY <1>5 DEF TypeOK, CallCounted, send, CallIds
  <2>3. Service!Receive("inp", l, <<l, <<t, calls[l][t]>> >>)
    BY <2>1, <2>2, QueuesSend DEF Service!Receive, Queues, Queue
  <2>4. \E m \in Loggers \X CallIds : Service!Receive("inp", l, m)
    <3>1. <<l, <<t, calls[l][t]>> >> \in Loggers \X CallIds
      BY <2>2
    <3>2. QED
      BY <2>3, <3>1 DEF Service!Receive
  <2>5. Service!Next
    BY <2>4 DEF Service!Next
  <2>6. QED
    BY <2>5
<1>6. CASE /\ UNCHANGED <<emitted, taken, printed>>
           /\ \/ life' = life
              \/ life = "stopped" /\ life' = "stopping"
              \/ life \in {"closed", "terminating"} /\ life' \in {"terminating", "gone"}
  BY <1>6, QueuesStay DEF Service!vars, Queues, Queue
<1>7. CASE \/ Binding \/ (destroy /\ life # "running")
           \/ ctx_term \/ term_returns \/ Rest \/ UNCHANGED vars
  BY <1>6, <1>7 DEF Binding, bind_inp, bind_throws, destroy, Alive, ctx_term, term_returns,
                    Rest, vars, collectorVars, callVars
<1>8. ASSUME NEW l \in Loggers, logger_mt(l) \/ release(l) PROVE [Service!Next]_(Service!vars)
  BY <1>6, <1>8 DEF logger_mt, release, collectorVars, callVars
<1>9. ASSUME NEW l \in Loggers, NEW t \in Threads, call(l, t) \/ log(l, t)
      PROVE  [Service!Next]_(Service!vars)
  <2>1. UNCHANGED <<life, taken, printed>>
    BY <1>9 DEF log, call, send, throws, return, collectorVars
  <2>2. emitted' # emitted => send(l, t)
    BY <1>9 DEF log, call, throws, return
  <2>3. CASE emitted' # emitted
    BY <1>5, <2>2, <2>3
  <2>4. CASE emitted' = emitted
    BY <1>6, <2>1, <2>4
  <2>5. QED
    BY <2>3, <2>4
<1>10. QED
  BY <1>1, <1>2, <1>3, <1>4, <1>7, <1>8, <1>9, StopRuns DEF Next, Destructor, Logger

(* In the company of its loggers the collector implements LogService: what *)
(* is sent over m_inp is printed in the order of each logger while the     *)
(* collector runs, and kept over stop() and start().                       *)
THEOREM ImplementsService == Spec => KeepsService
<1>1. QED
  BY Inductive, ServiceInit, ServiceStep, PTL DEF Spec, KeepsService, Service!Spec

-----------------------------------------------------------------------------
(* The refinement of LogStream, one for each logger.                       *)
Attached == Exists \/ life = "unborn"

(* A step that leaves one logger and the life of the collector alone.      *)
LEMMA StreamStays ==
  ASSUME NEW l \in Loggers, Attached' = Attached,
         calls'[l] = calls[l], status'[l] = status[l], emitted'[l] = emitted[l], taken'[l] = taken[l]
  PROVE  UNCHANGED Stream(l)!vars
BY DEF Stream!vars, Attached

(* The begun call of a thread, its message, and its end.                   *)
LEMMA StreamCallStep ==
  ASSUME IInv, NEW l \in Loggers, NEW t \in Threads, call(l, t) \/ log(l, t)
  PROVE  Stream(l)!Next
<1>1. /\ calls[l] \in [Threads -> 0..MaxCalls] /\ status[l] \in [Threads -> {"idle", "open", "settled"}]
      /\ emitted[l] \in Seq(CallIds) /\ taken[l] \in Nat
      /\ Len(emitted[l]) \in Nat /\ Capacity \in Nat
  BY DEF IInv, TypeOK
<1>2. life' = life /\ taken' = taken /\ Attached' = Attached /\ life # "unborn"
  BY DEF IInv, NoneBeforeStart, Attached, Exists, call, log, send, throws, return, collectorVars
<1>3. CASE call(l, t)
  <2>1. /\ calls'[l] = [calls[l] EXCEPT ![t] = @ + 1]
        /\ status'[l] = [status[l] EXCEPT ![t] = "open"]
    BY <1>3 DEF call, IInv, TypeOK
  <2>2. Stream(l)!Begin(t)
    BY <1>2, <1>3, <2>1 DEF Stream!Begin, call, Attached
  <2>3. QED
    BY <2>2 DEF Stream!Next
<1>4. CASE send(l, t)
  <2>1. status'[l] = [status[l] EXCEPT ![t] = "settled"] /\ calls' = calls
    BY <1>4 DEF send, IInv, TypeOK
  <2>2. CASE Exists /\ Len(emitted[l]) < taken[l] + Capacity
    <3>1. emitted'[l] = Append(emitted[l], <<t, calls[l][t]>>)
      BY <1>4, <2>2 DEF send, IInv, TypeOK
    <3>2. Stream(l)!Emit(t)
      BY <1>2, <1>4, <2>1, <2>2, <3>1 DEF Stream!Emit, send, Attached
    <3>3. QED
      BY <3>2 DEF Stream!Next
  <2>3. CASE ~(Exists /\ Len(emitted[l]) < taken[l] + Capacity)
    <3>1. emitted' = emitted
      BY <1>4, <2>3 DEF send
    <3>2. Len(emitted[l]) >= taken[l] + Capacity \/ ~Attached
      BY <1>1, <1>2, <2>3 DEF Attached
    <3>3. Stream(l)!Drop(t)
      BY <1>2, <1>4, <2>1, <3>1, <3>2 DEF Stream!Drop, send, Attached
    <3>4. QED
      BY <3>3 DEF Stream!Next
  <2>4. QED
    BY <2>2, <2>3
<1>5. CASE throws(l, t) \/ return(l, t)
  <2>1. /\ status'[l] = [status[l] EXCEPT ![t] = "idle"]
        /\ calls' = calls /\ emitted' = emitted
    BY <1>5 DEF throws, return, IInv, TypeOK
  <2>2. Stream(l)!Throw(t) \/ Stream(l)!Return(t)
    BY <1>2, <1>5, <2>1 DEF Stream!Throw, Stream!Return, throws, return, Attached
  <2>3. QED
    BY <2>2 DEF Stream!Next
<1>6. QED
  BY <1>3, <1>4, <1>5 DEF log

(* What one logger does leaves the streams of the others.                  *)
LEMMA OtherStreams ==
  ASSUME IInv, [Next]_vars, NEW l \in Loggers, NEW m \in Loggers, l # m, Logger(m)
  PROVE  UNCHANGED Stream(l)!vars
<1>1. ASSUME NEW t \in Threads, call(m, t) \/ log(m, t)
      PROVE  /\ calls'[l] = calls[l] /\ status'[l] = status[l]
             /\ emitted'[l] = emitted[l] /\ taken'[l] = taken[l] /\ Attached' = Attached
  BY <1>1 DEF IInv, TypeOK, call, log, send, throws, return, collectorVars, Attached, Exists
<1>2. CASE in_inp(m)
  BY <1>2, StreamStays DEF IInv, TypeOK, in_inp, collectorVars, callVars, Attached, Exists
<1>3. CASE logger_mt(m) \/ release(m)
  BY <1>3, StreamStays DEF logger_mt, release, collectorVars, callVars, Attached, Exists
<1>4. QED
  BY <1>1, <1>2, <1>3, StreamStays DEF Logger

(* Every step of the system is a step of each stream, or none of it.       *)
LEMMA StreamStep ==
  ASSUME IInv, [Next]_vars, NEW l \in Loggers
  PROVE  [Stream(l)!Next]_(Stream(l)!vars)
<1>1. CASE \E m \in Loggers : m # l /\ Logger(m)
  BY <1>1, OtherStreams
<1>2. CASE in_inp(l)
  <2>1. /\ taken[l] < Len(emitted[l]) /\ taken'[l] = taken[l] + 1
        /\ UNCHANGED <<life, calls, status, emitted>> /\ life = "running"
    BY <1>2 DEF in_inp, collectorVars, callVars, IInv, TypeOK
  <2>2. Stream(l)!TakeOne
    BY <2>1 DEF Stream!TakeOne, Exists
  <2>3. QED
    BY <2>2 DEF Stream!Next
<1>3. CASE logger_mt(l) \/ release(l)
  BY <1>3, StreamStays DEF logger_mt, release, collectorVars, callVars, Attached, Exists
<1>4. CASE \E t \in Threads : call(l, t) \/ log(l, t)
  BY <1>4, StreamCallStep
<1>5. CASE close \/ abort
  <2>1. /\ UNCHANGED <<calls, status, emitted, taken>>
        /\ life = "stopping" /\ life' \in {"closed", "aborted"}
    BY <1>5 DEF close, abort, callVars
  <2>2. Stream(l)!Detach
    BY <2>1 DEF Stream!Detach, Exists
  <2>3. QED
    BY <2>2 DEF Stream!Next
<1>6. CASE \/ start \/ Binding \/ stop \/ destroy \/ ctx_term \/ term_returns
           \/ Rest \/ UNCHANGED vars
  <2>1. UNCHANGED <<calls, status, emitted, taken>>
    BY <1>6 DEF start, Binding, bind_inp, bind_throws, stop, destroy, ctx_term, term_returns,
                Rest, vars, callVars
  <2>2. Attached' = Attached
    BY <1>6 DEF start, Binding, bind_inp, bind_throws, stop, destroy, Alive, ctx_term,
                term_returns, Rest, vars, collectorVars, Attached, Exists
  <2>3. QED
    BY <2>1, <2>2, StreamStays
<1>7. QED
  BY <1>1, <1>2, <1>3, <1>4, <1>5, <1>6 DEF Next, Destructor, Logger

(* Nothing is sent over a logger that is not made.                         *)
LEMMA StreamInit == Init => \A l \in Loggers : Stream(l)!Init
BY DEF Init, Stream!Init

(* In the company of the collector each logger implements LogStream: a     *)
(* call that returns has sent its message or dropped it for want of room   *)
(* or of a peer, one that throws has done neither (lines 182-186 of        *)
(* zlog.h), and what it sent is taken in order.                            *)
THEOREM ImplementsStreams == Spec => KeepsStreams
<1>1. IInv /\ [Next]_vars => [\A l \in Loggers : [Stream(l)!Next]_(Stream(l)!vars)]_vars
  BY StreamStep
<1>2. QED
  BY Inductive, StreamInit, <1>1, PTL DEF Spec, KeepsStreams

=============================================================================
