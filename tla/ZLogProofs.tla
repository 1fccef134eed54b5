----------------------------- MODULE ZLogProofs -----------------------------
(***************************************************************************)
(* The logger's safety properties for any number of threads and calls, any *)
(* capacity, and both lock policies.  IInv is inductive: the lock gives one *)
(* thread at a time the buffer, the shape of the buffer says what a message*)
(* will be when it is sent.                                                *)
(***************************************************************************)
EXTENDS ZLog, SequenceTheorems, TLAPS

USE ConstantsAssumption DEF ConstantsAssumption

-----------------------------------------------------------------------------
(* The call that a message ends with is the call that it is of.            *)
LEMMA EndOfText ==
  ASSUME NEW m, NEW c, EndsWith(m, c)
  PROVE  CallOf(m) = c
BY DEF EndsWith, CallOf, Text

(* write() makes a message out of remains.                                 *)
LEMMA WriteEnds ==
  ASSUME NEW m \in Seq(Fragments), NEW c \in CallIds,
         \A i \in DOMAIN m : m[i][1] \in thrown
  PROVE  /\ m \o Text(c) \in Seq(Fragments)
         /\ EndsWith(m \o Text(c), c)
<1> DEFINE F == Fragments
           s == Text(c)
<1>1. s \in Seq(F) /\ Len(s) = 2
  BY DEF Text, Head1, Fragments
<1> HIDE DEF F, s
<1>2. m \in Seq(F) /\ m \o s \in Seq(F)
  BY <1>1 DEF F
<1>3. /\ Len(m \o s) = Len(m) + 2
      /\ (m \o s)[Len(m) + 1] = s[1]
      /\ (m \o s)[Len(m) + 2] = s[2]
      /\ \A i \in 1..Len(m) : (m \o s)[i] = m[i]
  <2>1. /\ Len(m) \in Nat
        /\ Len(m \o s) = Len(m) + 2
        /\ \A i \in 1..(Len(m) + 2) :
              (m \o s)[i] = IF i <= Len(m) THEN m[i] ELSE s[i - Len(m)]
    BY <1>1, <1>2, ConcatProperties, SMTT(30)
  <2>2. Len(m) + 1 - Len(m) = 1 /\ Len(m) + 2 - Len(m) = 2
    BY <2>1
  <2>3. (m \o s)[Len(m) + 1] = s[1]
    BY <2>1, <2>2
  <2>4. (m \o s)[Len(m) + 2] = s[2]
    BY <2>1, <2>2
  <2>5. QED
    BY <2>1, <2>3, <2>4
<1>4. QED
  BY <1>2, <1>3 DEF EndsWith, F, s

(* Taking a message changes nothing in the list of those sent.             *)
LEMMA TakeSent ==
  ASSUME TypeOK, Take
  PROVE  Sent' = Sent
<1> DEFINE Q == Seq(Fragments)
<1> HIDE DEF Q
<1>1. received \in Seq(Q) /\ queue \in Seq(Q) /\ queue # << >>
  BY DEF TypeOK, Take, Q
<1>2. Append(received, Head(queue)) \o Tail(queue) = received \o queue
  BY <1>1
<1>3. QED
  BY <1>2 DEF Take, Sent

(* Sending appends to it, or drops.                                        *)
LEMMA SendSent ==
  ASSUME TypeOK, NEW t \in Threads, send(t)
  PROVE  /\ Sent \in Seq(Seq(Fragments))
         /\ \/ Sent' = Sent
            \/ Sent' = Append(Sent, m_fmt)
<1> DEFINE Q == Seq(Fragments)
<1> HIDE DEF Q
<1>1. received \in Seq(Q) /\ queue \in Seq(Q) /\ m_fmt \in Q
  BY DEF TypeOK, Q
<1>2. received \o Append(queue, m_fmt) = Append(received \o queue, m_fmt)
  BY <1>1
<1>3. received \o queue \in Seq(Q)
  BY <1>1
<1>4. QED
  BY <1>2, <1>3 DEF send, Sent, Q

-----------------------------------------------------------------------------
(* A new logger satisfies IInv.                                            *)
LEMMA InitInv == Init => IInv
<1> SUFFICES ASSUME Init PROVE IInv
  OBVIOUS
<1>1. /\ << >> \in Seq(Fragments)
      /\ << >> \in Seq(Seq(Fragments))
  <2>1. \A S : << >> \in Seq(S)
    OBVIOUS
  <2>2. QED
    BY <2>1
<1>2. TypeOK
  <2>1. calls \in [Threads -> 0..MaxCalls] /\ pc \in [Threads -> {"idle", "lock", "write", "send", "clear"}]
    BY DEF Init
  <2>2. QED
    BY <1>1, <2>1 DEF Init, TypeOK
<1>3. LockShape /\ CallCounted /\ BufferShape
  BY DEF Init, LockShape, CallCounted, BufferShape, InLog, Written
<1>4. Sent = << >>
  BY DEF Init, Sent
<1>5. WholeTexts /\ SentEarlier /\ ThrownEarlier /\ ThreadOrder
  BY <1>4 DEF Init, WholeTexts, SentEarlier, ThrownEarlier, ThreadOrder, InOrder, NoneThrown
<1>6. QED
  BY <1>2, <1>3, <1>5 DEF IInv

(* The call a thread is in is one of the calls.                            *)
LEMMA CurrentCall ==
  ASSUME TypeOK, CallCounted, NEW t \in Threads, pc[t] # "idle"
  PROVE  Current(t) \in CallIds
BY DEF TypeOK, CallCounted, Current, CallIds

(* No action takes a variable out of its type.                             *)
LEMMA TypeStep == IInv /\ [Next]_vars => TypeOK'
<1> SUFFICES ASSUME IInv, [Next]_vars PROVE TypeOK'
  OBVIOUS
<1> USE DEF IInv
<1>1. ASSUME NEW t \in Threads, call(t) PROVE TypeOK'
  BY <1>1 DEF TypeOK, call
<1>2. ASSUME NEW t \in Threads, acquire(t) PROVE TypeOK'
  BY <1>2 DEF TypeOK, acquire
<1>3. ASSUME NEW t \in Threads, write(t) PROVE TypeOK'
  <2>1. Current(t) \in CallIds
    BY <1>3, CurrentCall DEF write
  <2>2. Text(Current(t)) \in Seq(Fragments)
    BY <2>1 DEF Text, Head1, Fragments
  <2>3. m_fmt' \in Seq(Fragments)
    BY <1>3, <2>2 DEF TypeOK, write
  <2>4. QED
    BY <1>3, <2>3 DEF TypeOK, write
<1>4. ASSUME NEW t \in Threads, write_throws(t) PROVE TypeOK'
  <2>1. Current(t) \in CallIds
    BY <1>4, CurrentCall DEF write_throws
  <2>2. /\ << >> \in Seq(Fragments)
        /\ <<Head1(Current(t))>> \in Seq(Fragments)
    BY <2>1 DEF Head1, Fragments
  <2>3. m_fmt' \in Seq(Fragments)
    <3>1. PICK part \in {<< >>, <<Head1(Current(t))>>} : m_fmt' = m_fmt \o part
      BY <1>4 DEF write_throws
    <3>2. part \in Seq(Fragments)
      BY <2>2
    <3>3. QED
      BY <3>1, <3>2 DEF TypeOK
  <2>4. QED
    BY <1>4, <2>1, <2>3 DEF TypeOK, write_throws, Leave
<1>5. ASSUME NEW t \in Threads, send(t) PROVE TypeOK'
  <2>1. queue' \in Seq(Seq(Fragments))
    <3> DEFINE Q == Seq(Fragments)
    <3> HIDE DEF Q
    <3>1. queue \in Seq(Q) /\ m_fmt \in Q
      BY DEF TypeOK, Q
    <3>2. Append(queue, m_fmt) \in Seq(Q)
      BY <3>1
    <3>3. QED
      BY <3>1, <3>2, <1>5 DEF send, Q
  <2>2. QED
    BY <1>5, <2>1 DEF TypeOK, send
<1>6. ASSUME NEW t \in Threads, send_throws(t) PROVE TypeOK'
  BY <1>6, CurrentCall DEF TypeOK, send_throws, Leave
<1>7. ASSUME NEW t \in Threads, clear(t) PROVE TypeOK'
  <2>1. << >> \in Seq(Fragments)
    OBVIOUS
  <2>2. QED
    BY <1>7, <2>1 DEF TypeOK, clear, Leave
<1>8. CASE Take
  <2>1. queue' \in Seq(Seq(Fragments)) /\ received' \in Seq(Seq(Fragments))
    <3> DEFINE Q == Seq(Fragments)
    <3> HIDE DEF Q
    <3>1. queue \in Seq(Q) /\ received \in Seq(Q) /\ queue # << >>
      BY <1>8 DEF TypeOK, Take, Q
    <3>2. Tail(queue) \in Seq(Q) /\ Append(received, Head(queue)) \in Seq(Q)
      BY <3>1
    <3>3. QED
      BY <3>2, <1>8 DEF Take, Q
  <2>2. QED
    BY <1>8, <2>1 DEF TypeOK, Take
<1>9. CASE ctx_term
  BY <1>9 DEF TypeOK, ctx_term
<1>10. CASE UNCHANGED vars
  BY <1>10 DEF TypeOK, vars
<1>11. QED
  BY <1>1, <1>2, <1>3, <1>4, <1>5, <1>6, <1>7, <1>8, <1>9, <1>10 DEF Next, log, Rest

-----------------------------------------------------------------------------
(* The lock keeps threads out of each other's way; a null_lock_t need not, *)
(* having one caller.                                                      *)
LEMMA OneInside == LockShape => Exclusive
BY DEF LockShape, Exclusive

(* The lock follows the threads in and out of log().                       *)
LEMMA LockStep == IInv /\ [Next]_vars => LockShape' /\ CallCounted'
<1> SUFFICES ASSUME IInv, [Next]_vars PROVE LockShape' /\ CallCounted'
  OBVIOUS
<1> USE DEF IInv, TypeOK, LockShape, CallCounted, InLog
<1>1. ASSUME NEW t \in Threads, call(t) PROVE LockShape' /\ CallCounted'
  BY <1>1 DEF call
<1>2. ASSUME NEW t \in Threads, acquire(t) PROVE LockShape' /\ CallCounted'
  BY <1>2 DEF acquire
<1>3. ASSUME NEW t \in Threads, write(t) \/ send(t) PROVE LockShape' /\ CallCounted'
  BY <1>3 DEF write, send
<1>4. ASSUME NEW t \in Threads, write_throws(t) \/ send_throws(t) \/ clear(t)
      PROVE  LockShape' /\ CallCounted'
  BY <1>4 DEF write_throws, send_throws, clear, Leave
<1>5. CASE Take \/ ctx_term \/ UNCHANGED vars
  BY <1>5 DEF Take, ctx_term, vars
<1>6. QED
  BY <1>1, <1>2, <1>3, <1>4, <1>5 DEF Next, log, Rest

(* What is in the buffer changes hands with the lock.                      *)
LEMMA BufferStep == IInv /\ [Next]_vars => BufferShape'
<1> SUFFICES ASSUME IInv, [Next]_vars PROVE BufferShape'
  OBVIOUS
<1> USE DEF IInv, Written
<1>0. Exclusive
  BY OneInside
<1>1. ASSUME NEW t \in Threads, call(t) \/ acquire(t) PROVE BufferShape'
  BY <1>1 DEF TypeOK, BufferShape, EndsWith, Current, call, acquire
<1>2. ASSUME NEW t \in Threads, write(t) PROVE BufferShape'
  <2>1. Current(t) \in CallIds
    BY <1>2, CurrentCall DEF write
  <2>2. \A u \in Threads : ~Written(u)
    BY <1>0, <1>2 DEF Exclusive, InLog, write
  <2>3. EndsWith(m_fmt \o Text(Current(t)), Current(t))
    BY <2>1, <2>2, WriteEnds DEF TypeOK, BufferShape
  <2>4. EndsWith(m_fmt, Current(t))'
    BY <1>2, <2>3 DEF write, EndsWith, Current
  <2>5. \A u \in Threads : Written(u)' <=> u = t
    BY <1>2, <2>2 DEF TypeOK, write
  <2>6. QED
    BY <2>4, <2>5 DEF BufferShape
<1>3. ASSUME NEW t \in Threads, write_throws(t) PROVE BufferShape'
  <2>1. Current(t) \in CallIds
    BY <1>3, CurrentCall DEF write_throws
  <2>2. \A u \in Threads : ~Written(u)
    BY <1>0, <1>3 DEF Exclusive, InLog, write_throws
  <2>3. \A u \in Threads : ~Written(u)'
    BY <1>3, <2>2 DEF TypeOK, write_throws, Leave
  <2>4. PICK part \in {<< >>, <<Head1(Current(t))>>} : m_fmt' = m_fmt \o part
    BY <1>3 DEF write_throws
  <2>5. part \in Seq(Fragments) /\ \A i \in DOMAIN part : part[i][1] = Current(t)
    <3>1. CASE part = << >>
      BY <3>1
    <3>2. CASE part = <<Head1(Current(t))>>
      BY <2>1, <3>2 DEF Head1, Fragments
    <3>3. QED
      BY <2>4, <3>1, <3>2
  <2>6. \A i \in DOMAIN m_fmt' : m_fmt'[i][1] \in thrown \cup {Current(t)}
    <3> DEFINE F == Fragments
    <3> HIDE DEF F
    <3>1. m_fmt \in Seq(F) /\ part \in Seq(F)
      BY <2>5 DEF TypeOK, F
    <3>2. \A i \in DOMAIN m_fmt : m_fmt[i][1] \in thrown
      BY <2>2 DEF BufferShape
    <3>3. DOMAIN m_fmt' = 1..(Len(m_fmt) + Len(part))
      BY <2>4, <3>1, ConcatProperties
    <3>4. \A i \in DOMAIN m_fmt' : m_fmt'[i] =
                IF i <= Len(m_fmt) THEN m_fmt[i] ELSE part[i - Len(m_fmt)]
      BY <2>4, <3>1, <3>3, ConcatProperties
    <3>5. ASSUME NEW i \in DOMAIN m_fmt'
          PROVE  m_fmt'[i][1] \in thrown \cup {Current(t)}
      <4>1. CASE i <= Len(m_fmt)
        BY <3>1, <3>2, <3>3, <3>4, <4>1
      <4>2. CASE i > Len(m_fmt)
        <5>1. i - Len(m_fmt) \in DOMAIN part
          BY <3>1, <3>3, <4>2
        <5>2. QED
          BY <2>5, <3>1, <3>3, <3>4, <4>2, <5>1
      <4>3. QED
        BY <3>1, <3>3, <4>1, <4>2
    <3>6. QED
      BY <3>5
  <2>7. QED
    BY <1>3, <2>3, <2>6 DEF BufferShape, write_throws
<1>4. ASSUME NEW t \in Threads, send(t) PROVE BufferShape'
  BY <1>4 DEF TypeOK, BufferShape, EndsWith, Current, send
<1>5. ASSUME NEW t \in Threads, send_throws(t) PROVE BufferShape'
  <2>1. EndsWith(m_fmt, Current(t))
    BY <1>5 DEF BufferShape, send_throws
  <2>2. \A u \in Threads : ~Written(u)'
    BY <1>0, <1>5 DEF TypeOK, Exclusive, InLog, send_throws, Leave
  <2>3. \A i \in DOMAIN m_fmt : m_fmt[i][1] \in thrown \cup {Current(t)}
    BY <2>1, SMTT(30) DEF TypeOK, EndsWith, Text, Head1
  <2>4. QED
    BY <1>5, <2>2, <2>3 DEF BufferShape, send_throws
<1>6. ASSUME NEW t \in Threads, clear(t) PROVE BufferShape'
  <2>1. \A u \in Threads : ~Written(u)'
    BY <1>0, <1>6 DEF TypeOK, Exclusive, InLog, clear, Leave
  <2>2. QED
    BY <1>6, <2>1 DEF BufferShape, clear
<1>7. CASE Take \/ ctx_term \/ UNCHANGED vars
  BY <1>7 DEF BufferShape, EndsWith, Current, Take, ctx_term, vars
<1>8. QED
  BY <1>1, <1>2, <1>3, <1>4, <1>5, <1>6, <1>7 DEF Next, log, Rest

(* Every message that has left the logger is of one of the calls.          *)
LEMMA SentCalls ==
  ASSUME WholeTexts
  PROVE  \A k \in DOMAIN Sent : CallOf(Sent[k]) \in CallIds
BY EndOfText DEF WholeTexts

(* Steps that neither send nor throw leave what is known of the messages.  *)
LEMMA SameSent ==
  ASSUME WholeTexts, ThreadOrder, Sent' = Sent, thrown' = thrown
  PROVE  WholeTexts' /\ ThreadOrder'
BY DEF WholeTexts, ThreadOrder, InOrder, NoneThrown, EndsWith, CallOf

(* A call that throws has not been sent.                                   *)
LEMMA ThrowStep ==
  ASSUME IInv, NEW t \in Threads, write_throws(t) \/ send_throws(t)
  PROVE  WholeTexts' /\ ThreadOrder'
<1>0. TypeOK /\ WholeTexts /\ SentEarlier /\ ThreadOrder
  BY DEF IInv
<1>1. /\ Sent' = Sent /\ thrown' = thrown \cup {Current(t)}
      /\ pc[t] \in {"write", "send"} /\ calls[t] \in Nat
  <2>1. calls[t] \in Nat
    BY <1>0 DEF TypeOK
  <2>2. UNCHANGED <<received, queue>> /\ pc[t] \in {"write", "send"} /\ thrown' = thrown \cup {Current(t)}
    BY Zenon DEF write_throws, send_throws
  <2>3. QED
    BY <2>1, <2>2 DEF Sent
<1>2. WholeTexts'
  <2>1. \A m, c : EndsWith(m, c) => EndsWith(m, c)'
    BY <1>1, Zenon DEF EndsWith
  <2>2. QED
    BY <1>0, <1>1, <2>1, Zenon DEF WholeTexts, EndsWith
<1>3. InOrder'
  BY <1>0, <1>1 DEF ThreadOrder, InOrder, CallOf
<1>4. NoneThrown'
  <2>1. ASSUME NEW k \in DOMAIN Sent PROVE CallOf(Sent[k]) # Current(t)
    <3>1. CallOf(Sent[k])[1] = t => CallOf(Sent[k])[2] < calls[t]
      BY <1>0, <1>1 DEF SentEarlier
    <3>2. QED
      BY <1>1, <3>1 DEF Current
  <2>2. QED
    BY <1>0, <1>1, <2>1 DEF ThreadOrder, NoneThrown, CallOf
<1>5. QED
  BY <1>2, <1>3, <1>4 DEF ThreadOrder

(* What has been thrown is of calls that are over.                         *)
LEMMA ThrownStep == IInv /\ [Next]_vars => ThrownEarlier'
<1> SUFFICES ASSUME IInv, [Next]_vars PROVE ThrownEarlier'
  OBVIOUS
<1> USE DEF IInv
<1>1. \A c \in thrown : c[1] \in Threads /\ c[2] \in Nat /\ calls[c[1]] \in Nat
  BY DEF TypeOK, CallIds
<1>2. ASSUME NEW t \in Threads, call(t) \/ acquire(t) \/ write(t) \/ send(t) PROVE ThrownEarlier'
  <2>1. thrown' = thrown
    BY <1>2 DEF call, acquire, write, send
  <2>2. ASSUME NEW u \in Threads
        PROVE  \/ calls'[u] = calls[u] + 1
               \/ calls'[u] = calls[u] /\ (pc'[u] # "idle" => pc[u] # "idle")
    BY <1>2 DEF TypeOK, call, acquire, write, send
  <2>3. ASSUME NEW c \in thrown
        PROVE  c[2] <= calls'[c[1]] /\ (pc'[c[1]] # "idle" => c[2] < calls'[c[1]])
    BY <1>1, <2>2 DEF ThrownEarlier
  <2>4. QED
    BY <2>1, <2>3 DEF ThrownEarlier
<1>3. ASSUME NEW t \in Threads, write_throws(t) \/ send_throws(t) \/ clear(t) PROVE ThrownEarlier'
  <2>1. /\ thrown' \subseteq thrown \cup {<<t, calls[t]>>} /\ calls' = calls /\ calls[t] \in Nat
        /\ pc'[t] = "idle" /\ \A u \in Threads \ {t} : pc'[u] = pc[u]
    BY <1>3 DEF TypeOK, write_throws, send_throws, clear, Leave, Current
  <2>2. ASSUME NEW c \in thrown'
        PROVE  c[2] <= calls[c[1]] /\ (pc'[c[1]] # "idle" => c[2] < calls[c[1]])
    BY <1>1, <2>1 DEF ThrownEarlier
  <2>3. QED
    BY <2>1, <2>2 DEF ThrownEarlier
<1>4. CASE Take \/ ctx_term \/ UNCHANGED vars
  BY <1>4 DEF ThrownEarlier, Take, ctx_term, vars
<1>5. QED
  BY <1>2, <1>3, <1>4 DEF Next, log, Rest

(* Sending keeps messages whole and in order.                              *)
LEMMA SendStep ==
  ASSUME IInv, NEW t \in Threads, send(t)
  PROVE  WholeTexts' /\ SentEarlier' /\ ThreadOrder'
<1> USE DEF IInv
<1>1. /\ EndsWith(m_fmt, Current(t))
      /\ CallOf(m_fmt) = <<t, calls[t]>>
      /\ Current(t) \in CallIds
  BY CurrentCall, EndOfText DEF send, BufferShape, Written, Current
<1>2. \A k \in DOMAIN Sent : CallOf(Sent[k]) \in CallIds
  BY SentCalls
<1>3. /\ thrown' = thrown /\ calls' = calls
      /\ pc[t] = "send" /\ pc'[t] = "clear"
      /\ \A u \in Threads : u # t => pc'[u] = pc[u]
  BY DEF TypeOK, send
<1>4. CASE Sent' = Sent
  <2>1. SentEarlier'
    BY <1>2, <1>3, <1>4 DEF SentEarlier, CallOf, CallIds
  <2>2. QED
    BY <1>3, <1>4, <2>1, SameSent
<1>5. CASE Sent' = Append(Sent, m_fmt)
  <2>1. /\ DOMAIN Sent' = 1..(Len(Sent) + 1)
        /\ DOMAIN Sent = 1..Len(Sent)
        /\ Len(Sent) \in Nat
        /\ \A k \in 1..Len(Sent) : Sent'[k] = Sent[k]
        /\ Sent'[Len(Sent) + 1] = m_fmt
    <3> DEFINE Q == Seq(Fragments)
    <3>1. m_fmt \in Q /\ Sent \in Seq(Q)
      BY SendSent DEF TypeOK
    <3> HIDE DEF Q
    <3>2. QED
      BY <1>5, <3>1, AppendProperties
  <2>2. \A k \in DOMAIN Sent' : k \in DOMAIN Sent \/ k = Len(Sent) + 1
    BY <2>1
  <2>3. WholeTexts'
    <3>1. ASSUME NEW k \in DOMAIN Sent'
          PROVE  \E c \in CallIds : EndsWith(Sent'[k], c)
      <4>1. CASE k \in DOMAIN Sent
        BY <2>1, <4>1 DEF WholeTexts
      <4>2. CASE k = Len(Sent) + 1
        BY <1>1, <2>1, <4>2
      <4>3. QED
        BY <2>2, <4>1, <4>2
    <3>2. QED
      BY <1>3, <3>1 DEF WholeTexts, EndsWith
  <2>4. SentEarlier'
    <3>1. ASSUME NEW k \in DOMAIN Sent
          PROVE  LET c == CallOf(Sent'[k])
                 IN  c[2] <= calls'[c[1]] /\ (pc'[c[1]] \in {"lock", "write", "send"} => c[2] < calls'[c[1]])
      <4>1. CallOf(Sent'[k]) = CallOf(Sent[k])
        BY <2>1 DEF CallOf
      <4>2. QED
        BY <1>2, <1>3, <4>1 DEF SentEarlier, CallIds
    <3>2. LET c == CallOf(Sent'[Len(Sent) + 1])
          IN  c[2] <= calls'[c[1]] /\ (pc'[c[1]] \in {"lock", "write", "send"} => c[2] < calls'[c[1]])
      <4>1. calls[t] \in Nat
        BY DEF TypeOK
      <4>2. QED
        BY <1>1, <1>3, <2>1, <4>1
    <3>3. QED
      BY <2>2, <3>1, <3>2 DEF SentEarlier, CallOf
  <2>5. InOrder'
    <3> SUFFICES ASSUME NEW j \in DOMAIN Sent', NEW k \in DOMAIN Sent', j < k,
                        CallOf(Sent'[j])[1] = CallOf(Sent'[k])[1]
                 PROVE  CallOf(Sent'[j])[2] < CallOf(Sent'[k])[2]
      BY DEF InOrder, CallOf
    <3>1. j \in DOMAIN Sent /\ CallOf(Sent'[j]) = CallOf(Sent[j])
      BY <2>1 DEF CallOf
    <3>2. CASE k \in DOMAIN Sent
      <4>1. CallOf(Sent'[k]) = CallOf(Sent[k])
        BY <2>1, <3>2 DEF CallOf
      <4>2. QED
        BY <3>1, <3>2, <4>1 DEF ThreadOrder, InOrder
    <3>3. CASE k = Len(Sent) + 1
      <4>1. CallOf(Sent'[k]) = <<t, calls[t]>>
        BY <1>1, <2>1, <3>3
      <4>2. CallOf(Sent[j])[2] < calls[t]
        BY <1>3, <3>1, <4>1 DEF SentEarlier
      <4>3. QED
        BY <3>1, <4>1, <4>2
    <3>4. QED
      BY <2>2, <3>2, <3>3
  <2>6. NoneThrown'
    <3>1. CallOf(Sent'[Len(Sent) + 1]) \notin thrown
      <4>1. calls[t] \in Nat /\ CallOf(Sent'[Len(Sent) + 1]) = <<t, calls[t]>>
        BY <1>1, <2>1 DEF TypeOK
      <4>2. QED
        BY <1>3, <4>1 DEF ThrownEarlier
    <3>2. \A k \in DOMAIN Sent : CallOf(Sent'[k]) \notin thrown
      BY <2>1 DEF ThreadOrder, NoneThrown, CallOf
    <3>3. QED
      BY <1>3, <2>2, <3>1, <3>2 DEF NoneThrown, CallOf
  <2>7. QED
    BY <2>3, <2>4, <2>5, <2>6 DEF ThreadOrder
<1>6. QED
  BY <1>4, <1>5, SendSent

(* No action breaks up, repeats or reorders what is sent.                  *)
LEMMA SentStep == IInv /\ [Next]_vars => WholeTexts' /\ SentEarlier' /\ ThreadOrder'
<1> SUFFICES ASSUME IInv, [Next]_vars PROVE WholeTexts' /\ SentEarlier' /\ ThreadOrder'
  OBVIOUS
<1> USE DEF IInv
<1>0. \A k \in DOMAIN Sent : CallOf(Sent[k]) \in CallIds
  BY SentCalls
<1>1. ASSUME NEW t \in Threads, call(t) \/ acquire(t) \/ write(t)
      PROVE  WholeTexts' /\ SentEarlier' /\ ThreadOrder'
  <2>1. Sent' = Sent /\ thrown' = thrown
    BY <1>1 DEF call, acquire, write, Sent
  <2>2. ASSUME NEW u \in Threads
        PROVE  \/ calls'[u] = calls[u] + 1 /\ pc'[u] = "lock"
               \/ /\ calls'[u] = calls[u]
                  /\ pc'[u] \in {"lock", "write", "send"}
                        => pc[u] \in {"lock", "write", "send"}
    BY <1>1 DEF TypeOK, call, acquire, write
  <2>3. SentEarlier'
    <3>1. ASSUME NEW k \in DOMAIN Sent
          PROVE  LET c == CallOf(Sent[k])
                 IN  c[2] <= calls'[c[1]] /\ (pc'[c[1]] \in {"lock", "write", "send"} => c[2] < calls'[c[1]])
      <4>1. PICK u \in Threads, n \in Nat : CallOf(Sent[k]) = <<u, n>>
        BY <1>0 DEF CallIds
      <4>2. /\ n <= calls[u]
            /\ pc[u] \in {"lock", "write", "send"} => n < calls[u]
        BY <4>1 DEF SentEarlier
      <4>3. calls[u] \in Nat
        BY DEF TypeOK
      <4>4. n <= calls'[u] /\ (pc'[u] \in {"lock", "write", "send"} => n < calls'[u])
        BY <2>2, <4>2, <4>3
      <4>5. QED
        BY <4>1, <4>4
    <3>2. QED
      BY <2>1, <3>1 DEF SentEarlier, CallOf
  <2>4. QED
    BY <2>1, <2>3, SameSent
<1>2. ASSUME NEW t \in Threads, send(t)
      PROVE  WholeTexts' /\ SentEarlier' /\ ThreadOrder'
  BY <1>2, SendStep
<1>3. ASSUME NEW t \in Threads, write_throws(t) \/ send_throws(t) \/ clear(t)
      PROVE  WholeTexts' /\ SentEarlier' /\ ThreadOrder'
  <2>1. Sent' = Sent /\ calls' = calls
    BY <1>3 DEF write_throws, send_throws, clear, Sent
  <2>2. \A u \in Threads : pc'[u] \in {"lock", "write", "send"} => pc'[u] = pc[u]
    BY <1>3 DEF TypeOK, write_throws, send_throws, clear, Leave
  <2>3. SentEarlier'
    BY <1>0, <2>1, <2>2 DEF SentEarlier, CallOf, CallIds
  <2>4. clear(t) => thrown' = thrown
    BY DEF clear
  <2>5. QED
    BY <1>3, <2>1, <2>3, <2>4, SameSent, ThrowStep
<1>4. CASE Take \/ ctx_term \/ UNCHANGED vars
  <2>1. Sent' = Sent
    BY <1>4, TakeSent DEF ctx_term, vars, Sent
  <2>2. thrown' = thrown /\ calls' = calls /\ pc' = pc
    BY <1>4 DEF Take, ctx_term, vars
  <2>3. SentEarlier'
    BY <2>1, <2>2 DEF SentEarlier, CallOf
  <2>4. QED
    BY <2>1, <2>2, <2>3, SameSent
<1>5. QED
  BY <1>1, <1>2, <1>3, <1>4 DEF Next, log, Rest

-----------------------------------------------------------------------------
(* IInv holds in every reachable state of the logger.                      *)
THEOREM Inductive == Spec => []IInv
<1>1. IInv /\ [Next]_vars => IInv'
  BY TypeStep, LockStep, BufferStep, SentStep, ThrownStep DEF IInv
<1>2. QED
  BY InitInv, <1>1, PTL DEF Spec

(* Every message is the whole text of one call, behind nothing but remains *)
(* of calls that threw (lines 183-186 of zlog.h).                          *)
THEOREM MessagesWhole == Spec => []WholeTexts
<1>1. IInv => WholeTexts
  BY DEF IInv
<1>2. QED
  BY Inductive, <1>1, PTL

(* The calls of a thread leave in their order, each at most once, and none *)
(* that threw.                                                             *)
THEOREM CallsInOrder == Spec => []ThreadOrder
<1>1. IInv => ThreadOrder
  BY DEF IInv
<1>2. QED
  BY Inductive, <1>1, PTL

(* One thread at a time is between the lock and the end of log().          *)
THEOREM MutualExclusion == Spec => []Exclusive
<1>1. IInv => Exclusive
  BY OneInside DEF IInv
<1>2. QED
  BY Inductive, <1>1, PTL

(* Whichever way log() is left, the lock is not left behind.               *)
THEOREM LockReleased == Spec => []LockHeldInside
<1>1. IInv => LockHeldInside
  BY DEF IInv, TypeOK, LockShape, LockHeldInside
<1>2. QED
  BY Inductive, <1>1, PTL

-----------------------------------------------------------------------------
(***************************************************************************)
(* ZLog implements LogStream.                                              *)
(***************************************************************************)

Calls == [k \in DOMAIN Sent |-> CallOf(Sent[k])]

Status == [t \in Threads |-> StatusOf(t)]

(* The messages sent are those received and those queued.                  *)
LEMMA SentLength ==
  ASSUME TypeOK
  PROVE  /\ Sent \in Seq(Seq(Fragments))
         /\ DOMAIN Calls = 1..Len(Sent)
         /\ Len(Calls) = Len(received) + Len(queue)
         /\ Len(received) \in Nat /\ Len(queue) \in Nat
<1> DEFINE Q == Seq(Fragments)
<1> HIDE DEF Q
<1>1. received \in Seq(Q) /\ queue \in Seq(Q)
  BY DEF TypeOK, Q
<1>2. /\ Sent \in Seq(Q)
      /\ Len(Sent) = Len(received) + Len(queue)
      /\ Len(received) \in Nat /\ Len(queue) \in Nat
  BY <1>1, ConcatProperties DEF Sent
<1>3. DOMAIN Calls = 1..Len(Sent)
  BY <1>2 DEF Calls
<1>4. Len(Calls) = Len(Sent)
  BY <1>2, <1>3
<1>5. QED
  BY <1>2, <1>3, <1>4 DEF Q

(* Begin, Throw and Return: one thread goes on and the stream stays.       *)
LEMMA StreamCallStep ==
  ASSUME IInv, NEW t \in Threads, call(t) \/ write_throws(t) \/ send_throws(t) \/ clear(t)
  PROVE  Stream!Next
<1> USE DEF IInv
<1>1. Sent' = Sent /\ received' = received
  BY DEF call, write_throws, send_throws, clear, Sent
<1>2. Calls' = Calls
  BY <1>1 DEF Calls, CallOf
<1>3. CASE call(t)
  <2>1. Stream!Begin(t)
    BY <1>1, <1>2, <1>3 DEF Stream!Begin, call, StatusOf, TypeOK, Calls
  <2>2. QED
    BY <2>1 DEF Stream!Next
<1>4. CASE write_throws(t) \/ send_throws(t)
  <2>1. Stream!Throw(t)
    BY <1>1, <1>2, <1>4
       DEF Stream!Throw, write_throws, send_throws, Leave, StatusOf, TypeOK, Calls
  <2>2. QED
    BY <2>1 DEF Stream!Next
<1>5. CASE clear(t)
  <2>1. Stream!Return(t)
    BY <1>1, <1>2, <1>5 DEF Stream!Return, clear, Leave, StatusOf, TypeOK, Calls
  <2>2. QED
    BY <2>1 DEF Stream!Next
<1>6. QED
  BY <1>3, <1>4, <1>5

(* Emit and Drop.                                                          *)
LEMMA StreamSendStep ==
  ASSUME IInv, NEW t \in Threads, send(t)
  PROVE  Stream!Next
<1> USE DEF IInv
<1>1. /\ received' = received /\ calls' = calls
      /\ StatusOf(t) = "open"
      /\ Status' = [Status EXCEPT ![t] = "settled"]
  BY DEF send, StatusOf, Status, TypeOK
<1>2. CASE Len(queue) < Capacity
  <2>1. CallOf(m_fmt) = <<t, calls[t]>>
    BY EndOfText DEF send, BufferShape, Written, Current
  <2>2. Sent' = Append(Sent, m_fmt)
    <3> DEFINE Q == Seq(Fragments)
    <3> HIDE DEF Q
    <3>1. received \in Seq(Q) /\ queue \in Seq(Q) /\ m_fmt \in Q
      BY DEF TypeOK, Q
    <3>2. received \o Append(queue, m_fmt) = Append(received \o queue, m_fmt)
      BY <3>1
    <3>3. QED
      BY <1>2, <3>2 DEF send, Sent
  <2>3. Calls' = Append(Calls, <<t, calls[t]>>)
    <3> DEFINE Q == Seq(Fragments)
    <3>1. Sent \in Seq(Q) /\ m_fmt \in Q
      BY SentLength DEF TypeOK
    <3> HIDE DEF Q
    <3>2. /\ DOMAIN Sent' = 1..(Len(Sent) + 1) /\ Len(Sent) \in Nat
          /\ \A k \in 1..Len(Sent) : Sent'[k] = Sent[k]
          /\ Sent'[Len(Sent) + 1] = m_fmt
      BY <2>2, <3>1, AppendProperties
    <3>3. Calls' = [k \in 1..(Len(Sent) + 1) |-> CallOf(Sent'[k])]
      BY <3>2 DEF Calls, CallOf
    <3>4. Calls = [k \in 1..Len(Sent) |-> CallOf(Sent[k])]
      BY <3>1 DEF Calls
    <3>5. Append(Calls, <<t, calls[t]>>)
            = [k \in 1..(Len(Sent) + 1) |->
                      IF k <= Len(Sent) THEN Calls[k] ELSE <<t, calls[t]>>]
      BY <3>2, <3>4
    <3>6. \A k \in 1..(Len(Sent) + 1) :
             CallOf(Sent'[k]) = IF k <= Len(Sent) THEN Calls[k] ELSE <<t, calls[t]>>
      BY <2>1, <3>2, <3>4
    <3>7. QED
      BY <3>3, <3>5, <3>6
  <2>4. Len(Calls) < Len(received) + Capacity
    BY <1>2, SentLength
  <2>5. Stream!Emit(t)
    BY <1>1, <2>3, <2>4 DEF Stream!Emit, Calls, Status
  <2>6. QED
    BY <2>5 DEF Stream!Next
<1>3. CASE ~(Len(queue) < Capacity)
  <2>1. Sent' = Sent
    BY <1>3 DEF send, Sent
  <2>2. Calls' = Calls
    BY <2>1 DEF Calls, CallOf
  <2>3. Len(Calls) >= Len(received) + Capacity
    BY <1>3, SentLength
  <2>4. Stream!Drop(t)
    BY <1>1, <2>2, <2>3 DEF Stream!Drop, Calls, Status
  <2>5. QED
    BY <2>4 DEF Stream!Next
<1>4. QED
  BY <1>2, <1>3

(* Every step of the logger is a step of the stream, or none.              *)
LEMMA StreamStep == IInv /\ [Next]_vars => [Stream!Next]_(Stream!vars)
<1> SUFFICES ASSUME IInv, [Next]_vars PROVE [Stream!Next]_(Stream!vars)
  OBVIOUS
<1> USE DEF IInv
<1>1. ASSUME NEW t \in Threads, call(t) \/ write_throws(t) \/ send_throws(t) \/ clear(t)
      PROVE  [Stream!Next]_(Stream!vars)
  BY <1>1, StreamCallStep
<1>2. ASSUME NEW t \in Threads, send(t) PROVE [Stream!Next]_(Stream!vars)
  BY <1>2, StreamSendStep
<1>3. ASSUME NEW t \in Threads, acquire(t) \/ write(t) PROVE [Stream!Next]_(Stream!vars)
  <2>1. Sent' = Sent /\ received' = received /\ calls' = calls
    BY <1>3 DEF acquire, write, Sent
  <2>2. Calls' = Calls
    BY <2>1 DEF Calls, CallOf
  <2>3. Status' = Status
    BY <1>3 DEF acquire, write, StatusOf, TypeOK, Status
  <2>4. QED
    BY <2>1, <2>2, <2>3 DEF Stream!vars, Calls, Status
<1>4. CASE Take
  <2>1. Calls' = Calls
    BY <1>4, TakeSent DEF Calls, CallOf
  <2>2. Status' = Status /\ calls' = calls
    BY <1>4 DEF Take, Status, StatusOf
  <2>3. Len(received') = Len(received) + 1 /\ Len(received) < Len(Calls)
    <3> DEFINE Q == Seq(Fragments)
    <3> HIDE DEF Q
    <3>1. queue \in Seq(Q) /\ received \in Seq(Q) /\ queue # << >>
      BY <1>4 DEF TypeOK, Take, Q
    <3>2. Head(queue) \in Q /\ Len(queue) > 0
      BY <3>1
    <3>3. Len(Append(received, Head(queue))) = Len(received) + 1
      BY <3>1, <3>2, AppendProperties
    <3>4. QED
      BY <1>4, <3>2, <3>3, SentLength DEF Take
  <2>4. Stream!TakeOne
    BY <2>1, <2>2, <2>3 DEF Stream!TakeOne, Calls, Status
  <2>5. QED
    BY <2>4 DEF Stream!Next
<1>5. CASE ctx_term \/ UNCHANGED vars
  <2>1. Sent' = Sent /\ received' = received /\ calls' = calls /\ pc' = pc
    BY <1>5 DEF ctx_term, vars, Sent
  <2>2. Calls' = Calls /\ Status' = Status
    BY <2>1 DEF Calls, CallOf, Status, StatusOf
  <2>3. QED
    BY <2>1, <2>2 DEF Stream!vars, Calls, Status
<1>6. QED
  BY <1>1, <1>2, <1>3, <1>4, <1>5 DEF Next, log, Rest

(* A logger begins with an empty stream.                                   *)
LEMMA StreamInit == Init => Stream!Init
<1> SUFFICES ASSUME Init PROVE Stream!Init
  OBVIOUS
<1>1. Sent = << >> /\ Len(received) = 0
  BY DEF Init, Sent
<1>2. [k \in DOMAIN Sent |-> CallOf(Sent[k])] = << >>
  BY <1>1
<1>3. QED
  BY <1>1, <1>2 DEF Init, Stream!Init, StatusOf

(* The logger implements the abstract one: whatever its threads, their     *)
(* exceptions and a full queue do, each call is sent, dropped or thrown,   *)
(* once, and the stream is taken in order.                                 *)
THEOREM ImplementsStream == Spec => KeepsStream
<1>1. QED
  BY Inductive, StreamInit, StreamStep, PTL DEF Spec, KeepsStream, Stream!Spec

=============================================================================
