------------------------------ MODULE LogStream ------------------------------
(***************************************************************************)
(* What a logger promises to the threads that call it (lib/zlog.h, log()): *)
(* a call that returns has put its message at the end of the logger's      *)
(* stream, or has dropped it because as many messages wait as the socket   *)
(* queues or because the socket has lost its peer; a call that throws has  *)
(* done neither; and the collector takes the messages in the order of the  *)
(* stream.                                                                 *)
(***************************************************************************)
EXTENDS Naturals, Sequences

CONSTANTS
    Threads,    \* the threads that call the logger
    MaxCalls,   \* bound: calls of one thread
    Capacity    \* messages that wait before the next one is dropped

VARIABLES
    calls,      \* the number of calls each thread has begun
    status,     \* "idle", in a call that is "open", or in one that is "settled"
    stream,     \* the calls whose messages were sent
    taken,      \* how many of them the collector has taken
    attached    \* whether the socket has a peer, present or to come

vars == <<calls, status, stream, taken, attached>>

Init ==
    /\ calls = [t \in Threads |-> 0]
    /\ status = [t \in Threads |-> "idle"]
    /\ stream = << >>
    /\ taken = 0
    /\ attached = TRUE

Begin(t) ==
    /\ status[t] = "idle"
    /\ calls[t] < MaxCalls
    /\ calls' = [calls EXCEPT ![t] = @ + 1]
    /\ status' = [status EXCEPT ![t] = "open"]
    /\ UNCHANGED <<stream, taken, attached>>

Emit(t) ==
    /\ status[t] = "open"
    /\ attached
    /\ Len(stream) < taken + Capacity
    /\ stream' = Append(stream, <<t, calls[t]>>)
    /\ status' = [status EXCEPT ![t] = "settled"]
    /\ UNCHANGED <<calls, taken, attached>>

Drop(t) ==
    /\ status[t] = "open"
    /\ Len(stream) >= taken + Capacity \/ ~attached
    /\ status' = [status EXCEPT ![t] = "settled"]
    /\ UNCHANGED <<calls, stream, taken, attached>>

Throw(t) ==
    /\ status[t] = "open"
    /\ status' = [status EXCEPT ![t] = "idle"]
    /\ UNCHANGED <<calls, stream, taken, attached>>

Return(t) ==
    /\ status[t] = "settled"
    /\ status' = [status EXCEPT ![t] = "idle"]
    /\ UNCHANGED <<calls, stream, taken, attached>>

TakeOne ==
    /\ attached
    /\ taken < Len(stream)
    /\ taken' = taken + 1
    /\ UNCHANGED <<calls, status, stream, attached>>

Detach ==
    /\ attached
    /\ attached' = FALSE
    /\ UNCHANGED <<calls, status, stream, taken>>

Next ==
    \/ \E t \in Threads : Begin(t) \/ Emit(t) \/ Drop(t) \/ Throw(t) \/ Return(t)
    \/ TakeOne
    \/ Detach

Spec == Init /\ [][Next]_vars

=============================================================================
