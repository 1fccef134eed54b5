-------------------------------- MODULE ZLog --------------------------------
(***************************************************************************)
(* A connected logger, class zlog<LOCK> (lib/zlog.h), and the threads that *)
(* call trace() and debug() on it.  Both end in log(), which formats into  *)
(* the shared buffer m_fmt under the lock, sends the buffer on the PUSH    *)
(* socket without blocking and clears it.                                  *)
(*                                                                         *)
(* Call n of thread t writes the text << <<t,n>>,"head" >>,                *)
(* << <<t,n>>,"tail" >>: formatting is not atomic in the buffer, an        *)
(* exception in its middle leaves the head behind.                         *)
(***************************************************************************)
EXTENDS Naturals, Sequences, FiniteSets

CONSTANTS
    Threads,        \* the threads that share the logger
    LOCK,           \* "mutex" (zlogmt) or "null_lock_t" (zlogst)
    FormatMayThrow, \* whether a format string may not fit its arguments
    MaxCalls,       \* bound: calls of one thread
    Capacity        \* messages that the PUSH socket queues (send high water)

(* A zlogst is for one thread: nothing in the code serialises its callers. *)
ASSUME ConstantsAssumption ==
    /\ LOCK \in {"mutex", "null_lock_t"}
    /\ LOCK = "null_lock_t" => \A t, u \in Threads : t = u
    /\ FormatMayThrow \in BOOLEAN
    /\ MaxCalls \in Nat
    /\ Capacity \in Nat
    /\ "free" \notin Threads

VARIABLES
    pc,         \* where each thread is in log()
    calls,      \* history: calls each thread has begun
    lock,       \* the thread that owns the mutex m_lock, or "free"
    m_fmt,      \* the fragments in the format buffer
    queue,      \* messages sent and not yet taken by the peer
    closed,     \* whether the collector's context has been terminated
    received,   \* history: messages the peer has taken
    thrown      \* history: the calls that ended with an exception

vars == <<pc, calls, lock, m_fmt, queue, closed, received, thrown>>

CallIds   == Threads \X (1..MaxCalls)
Fragments == CallIds \X {"head", "tail"}

Head1(c) == <<c, "head">>
Text(c)  == <<Head1(c), <<c, "tail">> >>

(* The call that thread t is in.                                           *)
Current(t) == <<t, calls[t]>>

-----------------------------------------------------------------------------
Init ==
    /\ pc = [t \in Threads |-> "idle"]
    /\ calls = [t \in Threads |-> 0]
    /\ lock = "free"
    /\ m_fmt = << >>
    /\ queue = << >>
    /\ closed = FALSE
    /\ received = << >>
    /\ thrown = {}

(* trace() or debug() is called.                                           *)
call(t) ==
    /\ pc[t] = "idle"
    /\ calls[t] < MaxCalls
    /\ calls' = [calls EXCEPT ![t] = @ + 1]
    /\ pc' = [pc EXCEPT ![t] = "lock"]
    /\ UNCHANGED <<lock, m_fmt, queue, closed, received, thrown>>

(* std::unique_lock< LOCK > on m_lock: a mutex excludes the others, lock() *)
(* of null_lock_t does nothing.                                            *)
acquire(t) ==
    /\ pc[t] = "lock"
    /\ IF LOCK = "mutex" THEN lock = "free" /\ lock' = t ELSE UNCHANGED lock
    /\ pc' = [pc EXCEPT ![t] = "write"]
    /\ UNCHANGED <<calls, m_fmt, queue, closed, received, thrown>>

(* log() returns or an exception leaves it: unique_lock unlocks.           *)
Leave(t) ==
    /\ pc' = [pc EXCEPT ![t] = "idle"]
    /\ lock' = "free"

(* m_fmt.write(fmt, args...) appends the text.                             *)
write(t) ==
    /\ pc[t] = "write"
    /\ m_fmt' = m_fmt \o Text(Current(t))
    /\ pc' = [pc EXCEPT ![t] = "send"]
    /\ UNCHANGED <<calls, lock, queue, closed, received, thrown>>

(* write() throws fmt::FormatError: what it had appended stays, and the    *)
(* call ends without clear().                                              *)
write_throws(t) ==
    /\ pc[t] = "write"
    /\ FormatMayThrow
    /\ \E part \in {<< >>, <<Head1(Current(t))>>} : m_fmt' = m_fmt \o part
    /\ thrown' = thrown \cup {Current(t)}
    /\ Leave(t)
    /\ UNCHANGED <<calls, queue, closed, received>>

(* m_push.send(m_fmt.str(), true), the flag being ZMQ_DONTWAIT: with the   *)
(* queue full send() returns false, which log() does not look at.          *)
MutSendBlocks(t) ==
    /\ pc[t] = "send"
    /\ ~closed
    /\ Len(queue) < Capacity
    /\ queue' = Append(queue, m_fmt)
    /\ pc' = [pc EXCEPT ![t] = "clear"]
    /\ UNCHANGED <<calls, lock, m_fmt, closed, received, thrown>>
MutSendAgain(t) ==
    /\ pc[t] = "send"
    /\ ~closed
    /\ queue' = IF Len(queue) < Capacity THEN Append(queue, m_fmt) ELSE queue
    /\ \E p \in {"send", "clear"} : pc' = [pc EXCEPT ![t] = p]
    /\ UNCHANGED <<calls, lock, m_fmt, closed, received, thrown>>
send(t) ==
    /\ pc[t] = "send"
    /\ ~closed
    /\ queue' = IF Len(queue) < Capacity THEN Append(queue, m_fmt) ELSE queue
    /\ pc' = [pc EXCEPT ![t] = "clear"]
    /\ UNCHANGED <<calls, lock, m_fmt, closed, received, thrown>>

(* After zmq_ctx_term() send() throws (ETERM), and again clear() is        *)
(* skipped.                                                                *)
send_throws(t) ==
    /\ pc[t] = "send"
    /\ closed
    /\ thrown' = thrown \cup {Current(t)}
    /\ Leave(t)
    /\ UNCHANGED <<calls, m_fmt, queue, closed, received>>

(* m_fmt.clear() and return.                                               *)
MutClear(t) ==
    /\ pc[t] = "clear"
    /\ m_fmt' = IF queue # << >> THEN << >> ELSE m_fmt
    /\ Leave(t)
    /\ UNCHANGED <<calls, queue, closed, received, thrown>>
clear(t) ==
    /\ pc[t] = "clear"
    /\ m_fmt' = << >>
    /\ Leave(t)
    /\ UNCHANGED <<calls, queue, closed, received, thrown>>

(* ZeroMQ hands the oldest message of this logger to the collector.        *)
Take ==
    /\ ~closed
    /\ queue # << >>
    /\ received' = Append(received, Head(queue))
    /\ queue' = Tail(queue)
    /\ UNCHANGED <<pc, calls, lock, m_fmt, closed, thrown>>

(* The collector whose context the socket m_push lives in is destroyed     *)
(* while the logger is in use.                                             *)
ctx_term ==
    /\ ~closed
    /\ closed' = TRUE
    /\ UNCHANGED <<pc, calls, lock, m_fmt, queue, received, thrown>>

-----------------------------------------------------------------------------
(* The steps of a call after its first.                                    *)
log(t) ==
    \/ acquire(t) \/ write(t) \/ write_throws(t)
    \/ send(t) \/ send_throws(t) \/ clear(t)

(* No call is in progress, and none need ever come.                        *)
Rest == (\A t \in Threads : pc[t] = "idle") /\ UNCHANGED vars

Next ==
    \/ \E t \in Threads : call(t) \/ log(t)
    \/ Take
    \/ ctx_term
    \/ Rest

(* A call that has begun goes on.  Nothing is assumed of the callers, of   *)
(* the peer, which may never take a message, or of the collector.          *)
Fairness == \A t \in Threads : WF_vars(log(t))

Spec == Init /\ [][Next]_vars /\ Fairness

-----------------------------------------------------------------------------
TypeOK ==
    /\ pc \in [Threads -> {"idle", "lock", "write", "send", "clear"}]
    /\ calls \in [Threads -> 0..MaxCalls]
    /\ lock \in Threads \cup {"free"}
    /\ m_fmt \in Seq(Fragments)
    /\ queue \in Seq(Seq(Fragments))
    /\ closed \in BOOLEAN
    /\ received \in Seq(Seq(Fragments))
    /\ thrown \in SUBSET CallIds

(* All the messages that have left the logger, in the order of sending.    *)
Sent == received \o queue

InLog(t) == pc[t] \in {"write", "send", "clear"}

(* Text m is the text of call c behind remains of calls that threw.        *)
EndsWith(m, c) ==
    /\ Len(m) >= 2
    /\ m[Len(m) - 1] = Text(c)[1] /\ m[Len(m)] = Text(c)[2]
    /\ \A i \in 1..(Len(m) - 2) : m[i][1] \in thrown

(* Every message is the complete text of one call, by itself or behind     *)
(* remains of earlier calls that threw: texts of different calls do not    *)
(* mix, and a text that was refused by a full queue is not sent later.     *)
WholeTexts == \A k \in DOMAIN Sent : \E c \in CallIds : EndsWith(Sent[k], c)

(* Calls of one thread leave in the order they were made, each once; a     *)
(* call that threw never leaves as a message of its own, then or later.    *)
CallOf(m) == m[Len(m)][1]

InOrder ==
    \A j, k \in DOMAIN Sent :
        j < k /\ CallOf(Sent[j])[1] = CallOf(Sent[k])[1]
            => CallOf(Sent[j])[2] < CallOf(Sent[k])[2]

NoneThrown == \A k \in DOMAIN Sent : CallOf(Sent[k]) \notin thrown

ThreadOrder == InOrder /\ NoneThrown

(* One thread at a time formats, sends and clears.                         *)
Exclusive == \A t, u \in Threads : InLog(t) /\ InLog(u) => t = u

(* The lock is held only by a thread that is inside log(): no way out of   *)
(* log(), by return or by exception, leaves the others locked out.         *)
LockHeldInside == lock # "free" => InLog(lock)

-----------------------------------------------------------------------------
(* The inductive invariant of the proofs.                                  *)

(* A mutex is owned by the thread that is inside log(); a null_lock_t by   *)
(* nobody.                                                                 *)
LockShape ==
    \A t \in Threads :
        IF LOCK = "mutex" THEN InLog(t) <=> lock = t ELSE lock # t

CallCounted == \A t \in Threads : pc[t] # "idle" => calls[t] # 0

(* Between write() and clear() the buffer ends with the text of the thread *)
(* that is there, else it holds nothing but remains.                       *)
Written(t) == pc[t] \in {"send", "clear"}

BufferShape ==
    /\ \A t \in Threads : Written(t) => EndsWith(m_fmt, Current(t))
    /\ (\A t \in Threads : ~Written(t)) => \A i \in DOMAIN m_fmt : m_fmt[i][1] \in thrown

(* What has left is of earlier calls, or of the call that is clearing.     *)
SentEarlier ==
    \A k \in DOMAIN Sent :
        LET t == CallOf(Sent[k])[1]
            n == CallOf(Sent[k])[2]
        IN  n <= calls[t] /\ (pc[t] \in {"lock", "write", "send"} => n < calls[t])

(* A call that threw is over.                                              *)
ThrownEarlier ==
    \A c \in thrown : c[2] <= calls[c[1]] /\ (pc[c[1]] # "idle" => c[2] < calls[c[1]])

IInv ==
    /\ TypeOK /\ LockShape /\ CallCounted /\ BufferShape
    /\ WholeTexts /\ SentEarlier /\ ThrownEarlier /\ ThreadOrder

-----------------------------------------------------------------------------
(* log() never waits for the collector: with the lock in hand a call ends, *)
(* whether or not anybody takes messages, and whatever it throws.  Nor is  *)
(* a thread locked out: one that waits for the lock gets in and out when   *)
(* the others call no more, however their calls ended.                     *)
CallEnds ==
    \A t \in Threads :
        /\ InLog(t) ~> pc[t] = "idle"
        /\ (pc[t] = "lock" /\ \A u \in Threads \ {t} : calls[u] = MaxCalls) ~> pc[t] = "idle"

(* The logger keeps the promise of LogStream: whatever the threads, the    *)
(* exceptions and the full queue do to the buffer, each call is sent,      *)
(* dropped for a full queue, or thrown, exactly once.                      *)
StatusOf(t) ==
    CASE pc[t] = "idle"  -> "idle"
      [] pc[t] = "clear" -> "settled"
      [] OTHER           -> "open"

Stream == INSTANCE LogStream WITH
    status <- [t \in Threads |-> StatusOf(t)],
    stream <- [k \in DOMAIN Sent |-> CallOf(Sent[k])],
    taken <- Len(received),
    attached <- TRUE

KeepsStream == Stream!Spec

=============================================================================
