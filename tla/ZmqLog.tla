------------------------------- MODULE ZmqLog -------------------------------
(***************************************************************************)
(* A collector and the in-process loggers made by its logger_st() and      *)
(* logger_mt() (lib/zlogpull.cpp, lib/zlog.h), from construction to the    *)
(* end of the context that they share.  Logger and collector are as coarse *)
(* as their promises, LogStream and LogService: ZLog and ZLogPull have     *)
(* their detail.  What is added is what joins them: the in-process queue   *)
(* is both the send queue of the logger and the receive queue of the       *)
(* collector; m_inp accepts the loggers when run() has come to bind it,    *)
(* which it may fail to; and the context ends only when the sockets in it  *)
(* are closed.                                                             *)
(***************************************************************************)
EXTENDS Naturals, Sequences

CONSTANTS
    Loggers,    \* the loggers that logger_st() and logger_mt() return
    Mine,       \* those that the thread which destroys the collector holds
    Threads,    \* the threads that call the loggers
    MaxCalls,   \* bound: calls of one thread on one logger
    MaxRuns,    \* bound: times the collector is started
    Capacity    \* messages of one logger that wait before the next is dropped

ASSUME ConstantsAssumption ==
    /\ Mine \subseteq Loggers
    /\ MaxCalls \in Nat
    /\ MaxRuns \in Nat
    /\ Capacity \in Nat

VARIABLES
    life,       \* where the collector is, see Lives
    runs,       \* history: times the collector was started
    worker,     \* "none", "bind" (binding the sockets) or "serve" (polling)
    fault,      \* whether a bind or the async() of this session has failed
    inpBound,   \* whether m_inp is bound
    attached,   \* the loggers that m_inp has accepted, for good
    logger,     \* per logger, "none", "open" or "released"
    calls,      \* per logger and thread, the number of calls begun
    status,     \* per logger and thread, "idle", "open" or "settled"
    emitted,    \* per logger, history: the calls whose messages were sent
    taken,      \* per logger, history: how many of them were received
    printed     \* the messages printed, as pairs of logger and call

callVars == <<calls, status, emitted>>
runVars == <<worker, fault, inpBound, attached>>
collectorVars == <<life, runs, runVars>>
vars == <<collectorVars, logger, callVars, taken, printed>>

Lives ==
    {"unborn",
     "running",     \* m_run is set
     "stopped",
     "stopping",    \* in the stop() of the destructor
     "closed",      \* in the destructor, the sockets are closed
     "terminating", \* in the destructor of m_ctx: zmq_ctx_term() waits
     "gone",
     "aborted"}     \* stop() threw out of the destructor

(* The collector may be used; its socket m_inp exists.                     *)
Alive  == life \in {"running", "stopped"}
Exists == life \in {"running", "stopped", "stopping"}

Waiting(l) == SubSeq(emitted[l], taken[l] + 1, Len(emitted[l]))

-----------------------------------------------------------------------------
Init ==
    /\ life = "unborn"
    /\ runs = 0
    /\ worker = "none"
    /\ fault = FALSE
    /\ inpBound = FALSE
    /\ attached = {}
    /\ logger = [l \in Loggers |-> "none"]
    /\ calls = [l \in Loggers |-> [t \in Threads |-> 0]]
    /\ status = [l \in Loggers |-> [t \in Threads |-> "idle"]]
    /\ emitted = [l \in Loggers |-> << >>]
    /\ taken = [l \in Loggers |-> 0]
    /\ printed = << >>

(***************************************************************************)
(* The collector.                                                          *)
(***************************************************************************)

(* The constructor and start().  Out of start() async() may throw, with    *)
(* the flag set: the collector runs without a worker.                      *)
start ==
    /\ life \in {"unborn", "stopped"}
    /\ runs < MaxRuns
    /\ life' = "running"
    /\ runs' = runs + 1
    /\ \/ worker' = "bind" /\ fault' = FALSE
       \/ life = "stopped" /\ worker' = "none" /\ fault' = TRUE
    /\ UNCHANGED <<inpBound, attached, logger, callVars, taken, printed>>

(* run() binds tcp, ipc, m_inp, and the control socket, which may fail:    *)
(* m_inp accepts the loggers that have connected before.                   *)
MutBindInp ==
    /\ worker = "bind"
    /\ worker' = "serve"
    /\ inpBound' = TRUE
    /\ attached' = IF runs = 1 THEN {l \in Loggers : logger[l] # "none"} ELSE attached
    /\ fault' \in BOOLEAN
    /\ UNCHANGED <<life, runs, logger, callVars, taken, printed>>
bind_inp ==
    /\ worker = "bind"
    /\ worker' = "serve"
    /\ inpBound' = TRUE
    /\ attached' = {l \in Loggers : logger[l] # "none"}
    /\ fault' \in BOOLEAN
    /\ UNCHANGED <<life, runs, logger, callVars, taken, printed>>

(* The bind of tcp or ipc throws: the others are skipped, run() goes on.   *)
bind_throws ==
    /\ worker = "bind"
    /\ worker' = "serve"
    /\ fault' = TRUE
    /\ UNCHANGED <<life, runs, inpBound, attached, logger, callVars, taken, printed>>

(* run() has returned and the sockets are unbound; after a fault stop()    *)
(* has thrown, when nothing was left bound.                                *)
stop ==
    /\ life = "running"
    /\ worker # "bind"
    /\ life' = "stopped"
    /\ worker' = "none"
    /\ fault' = FALSE
    /\ inpBound' = FALSE
    /\ UNCHANGED <<runs, attached, logger, callVars, taken, printed>>

(* in_inp() prints the oldest message of one logger, be it released since. *)
(* m_inp receives from those it has accepted, also while it is not bound.  *)
MutInInpNewest(l) ==
    /\ life = "running" /\ worker = "serve"
    /\ l \in attached
    /\ taken[l] < Len(emitted[l])
    /\ taken' = [taken EXCEPT ![l] = @ + 1]
    /\ printed' = Append(printed, <<l, emitted[l][Len(emitted[l])]>>)
    /\ UNCHANGED <<collectorVars, logger, callVars>>
in_inp(l) ==
    /\ life = "running" /\ worker = "serve"
    /\ l \in attached
    /\ taken[l] < Len(emitted[l])
    /\ taken' = [taken EXCEPT ![l] = @ + 1]
    /\ printed' = Append(printed, <<l, Head(Waiting(l))>>)
    /\ UNCHANGED <<collectorVars, logger, callVars>>

(* The destructor begins with stop(), which does nothing to a stopped      *)
(* collector.                                                              *)
destroy ==
    /\ Alive
    /\ life' = "stopping"
    /\ UNCHANGED <<runs, runVars, logger, callVars, taken, printed>>

(* Then the sockets go, m_inp with what it has not handed over.            *)
close ==
    /\ life = "stopping"
    /\ worker # "bind"
    /\ ~fault
    /\ life' = "closed"
    /\ worker' = "none"
    /\ inpBound' = FALSE
    /\ UNCHANGED <<runs, fault, attached, logger, callVars, taken, printed>>

(* After a fault that stop() throws, and the destructor is noexcept.       *)
abort ==
    /\ life = "stopping"
    /\ worker # "bind"
    /\ fault
    /\ life' = "aborted"
    /\ worker' = "none"
    /\ inpBound' = FALSE
    /\ UNCHANGED <<runs, fault, attached, logger, callVars, taken, printed>>

(* zmq_ctx_term(): from now on the calls on sockets of the context fail.   *)
ctx_term ==
    /\ life = "closed"
    /\ life' = "terminating"
    /\ UNCHANGED <<runs, runVars, logger, callVars, taken, printed>>

(* It returns when the last socket is closed.                              *)
term_returns ==
    /\ life = "terminating"
    /\ \A l \in Loggers : logger[l] # "open"
    /\ life' = "gone"
    /\ UNCHANGED <<runs, runVars, logger, callVars, taken, printed>>

(***************************************************************************)
(* The loggers.                                                            *)
(***************************************************************************)

(* logger_st(), logger_mt(): a PUSH socket in m_ctx.  It connects to m_inp *)
(* if that is bound, else when it will be; until then it queues.           *)
logger_mt(l) ==
    /\ Alive
    /\ logger[l] = "none"
    /\ logger' = [logger EXCEPT ![l] = "open"]
    /\ attached' = IF inpBound THEN attached \cup {l} ELSE attached
    /\ UNCHANGED <<life, runs, worker, fault, inpBound, callVars, taken, printed>>

(* The last shared pointer goes: ~zlog() closes the socket.  The thread    *)
(* that destroys the collector is busy with it until the context is gone.  *)
release(l) ==
    /\ logger[l] = "open"
    /\ life # "aborted"
    /\ \A t \in Threads : status[l][t] = "idle"
    /\ l \in Mine => Alive
    /\ logger' = [logger EXCEPT ![l] = "released"]
    /\ UNCHANGED <<collectorVars, callVars, taken, printed>>

(* A thread calls debug() or trace().                                      *)
call(l, t) ==
    /\ logger[l] = "open"
    /\ life # "aborted"
    /\ status[l][t] = "idle"
    /\ calls[l][t] < MaxCalls
    /\ calls' = [calls EXCEPT ![l][t] = @ + 1]
    /\ status' = [status EXCEPT ![l][t] = "open"]
    /\ UNCHANGED <<collectorVars, logger, emitted, taken, printed>>

(* m_push.send(): into the queue if there is room for it.  A socket whose  *)
(* peer is closed drops, a socket of a terminated context throws.          *)
MutSend(l, t) ==
    /\ status[l][t] = "open"
    /\ life # "terminating"
    /\ IF Exists /\ Len(emitted[l]) <= taken[l] + Capacity
       THEN emitted' = [emitted EXCEPT ![l] = Append(@, <<t, calls[l][t]>>)]
       ELSE UNCHANGED emitted
    /\ status' = [status EXCEPT ![l][t] = "settled"]
    /\ UNCHANGED <<collectorVars, logger, calls, taken, printed>>
send(l, t) ==
    /\ status[l][t] = "open"
    /\ life # "terminating"
    /\ IF Exists /\ Len(emitted[l]) < taken[l] + Capacity
       THEN emitted' = [emitted EXCEPT ![l] = Append(@, <<t, calls[l][t]>>)]
       ELSE UNCHANGED emitted
    /\ status' = [status EXCEPT ![l][t] = "settled"]
    /\ UNCHANGED <<collectorVars, logger, calls, taken, printed>>

(* An exception of the formatter, or of send() in a terminated context.    *)
MutThrows(l, t) ==
    /\ status[l][t] = "open"
    /\ life # "terminating"
    /\ status' = [status EXCEPT ![l][t] = "idle"]
    /\ UNCHANGED <<collectorVars, logger, calls, emitted, taken, printed>>
throws(l, t) ==
    /\ status[l][t] = "open"
    /\ status' = [status EXCEPT ![l][t] = "idle"]
    /\ UNCHANGED <<collectorVars, logger, calls, emitted, taken, printed>>

return(l, t) ==
    /\ status[l][t] = "settled"
    /\ status' = [status EXCEPT ![l][t] = "idle"]
    /\ UNCHANGED <<collectorVars, logger, calls, emitted, taken, printed>>

-----------------------------------------------------------------------------
(* The steps of a call after its first.                                    *)
log(l, t) == life # "aborted" /\ (send(l, t) \/ throws(l, t) \/ return(l, t))

Logger(l) ==
    \/ in_inp(l) \/ logger_mt(l) \/ release(l)
    \/ \E t \in Threads : call(l, t) \/ log(l, t)

Binding    == bind_inp \/ bind_throws
Destructor == close \/ abort \/ ctx_term \/ term_returns

(* The destructor waits for a logger that its own thread holds.            *)
SelfBlocked == \E l \in Mine : logger[l] = "open"

Rest ==
    /\ life \in {"gone", "aborted"} \/ (life = "terminating" /\ SelfBlocked)
    /\ UNCHANGED vars

Next ==
    \/ start \/ Binding \/ stop \/ destroy \/ Destructor
    \/ \E l \in Loggers : Logger(l)
    \/ Rest

(* Threads are scheduled: the worker, the destructor and calls that have   *)
(* begun go on.  Nothing is assumed of those who hold the loggers.         *)
Fairness ==
    /\ WF_vars(Binding) /\ WF_vars(Destructor)
    /\ \A l \in Loggers, t \in Threads : WF_vars(log(l, t))

Spec == Init /\ [][Next]_vars /\ Fairness

-----------------------------------------------------------------------------
(***************************************************************************)
(* Properties.                                                             *)
(***************************************************************************)

CallIds == Threads \X (1..MaxCalls)

(* Every variable stays within its type, the queues within their capacity. *)
TypeOK ==
    /\ life \in Lives
    /\ runs \in 0..MaxRuns
    /\ worker \in {"none", "bind", "serve"}
    /\ fault \in BOOLEAN
    /\ inpBound \in BOOLEAN
    /\ attached \in SUBSET Loggers
    /\ logger \in [Loggers -> {"none", "open", "released"}]
    /\ calls \in [Loggers -> [Threads -> 0..MaxCalls]]
    /\ status \in [Loggers -> [Threads -> {"idle", "open", "settled"}]]
    /\ emitted \in [Loggers -> Seq(CallIds)]
    /\ taken \in [Loggers -> Nat]
    /\ \A l \in Loggers :
          /\ taken[l] <= Len(emitted[l])
          /\ Len(emitted[l]) <= taken[l] + Capacity
    /\ printed \in Seq(Loggers \X CallIds)

(* End to end: messages of one thread over one logger are printed in the   *)
(* order of the calls, none twice, over any stop and start.                *)
PrintedInOrder ==
    \A i, j \in DOMAIN printed :
        i < j /\ printed[i][1] = printed[j][1] /\ printed[i][2][1] = printed[j][2][1]
            => printed[i][2][2] < printed[j][2][2]

(* The inductive invariant of the proofs.  What a thread has sent over a   *)
(* logger is of earlier calls, or of the call that is settled, in their    *)
(* order; what is printed is of earlier calls than what waits.             *)
Earlier(c, l) ==
    /\ c[2] <= calls[l][c[1]]
    /\ status[l][c[1]] = "open" => c[2] < calls[l][c[1]]

CallCounted == \A l \in Loggers, t \in Threads : status[l][t] # "idle" => calls[l][t] # 0

EmittedInOrder ==
    \A l \in Loggers :
        /\ \A k \in DOMAIN emitted[l] : Earlier(emitted[l][k], l)
        /\ \A j, k \in DOMAIN emitted[l] :
              j < k /\ emitted[l][j][1] = emitted[l][k][1] => emitted[l][j][2] < emitted[l][k][2]

PrintedBeforeWaiting ==
    \A i \in DOMAIN printed :
        LET l == printed[i][1]
            c == printed[i][2]
        IN  /\ Earlier(c, l)
            /\ \A k \in DOMAIN emitted[l] :
                  k > taken[l] /\ emitted[l][k][1] = c[1] => c[2] < emitted[l][k][2]

(* Loggers come from a collector that was started.                         *)
NoneBeforeStart ==
    life = "unborn" =>
        \A l \in Loggers : logger[l] = "none" /\ \A t \in Threads : status[l][t] = "idle"

(* A worker that serves has bound m_inp unless something failed, and m_inp *)
(* has accepted all loggers while it is bound.                             *)
InpAccepts ==
    /\ worker = "serve" /\ ~fault => inpBound
    /\ inpBound => \A l \in Loggers : logger[l] # "none" => l \in attached

(* A collector that came up without a fault hears every logger that it has *)
(* made, also those made before m_inp was first bound, while it was        *)
(* stopped, or in a session whose binds failed before m_inp: they connect  *)
(* to one endpoint, which every run() binds again.  (After a fault it runs *)
(* on, and those not accepted yet are not heard.)                          *)
AllHeard ==
    worker = "serve" /\ ~fault =>
        \A l \in Loggers : logger[l] # "none" => l \in attached

IInv ==
    /\ TypeOK /\ CallCounted /\ NoneBeforeStart /\ InpAccepts
    /\ EmittedInOrder /\ PrintedBeforeWaiting /\ PrintedInOrder

(* The destructor of the collector ends, by itself or with its process, or *)
(* somebody keeps a logger: again and again one is open with no call in    *)
(* progress.  Calls in progress do not hold the destructor up, whatever    *)
(* they meet; whether loggers are given up is their holders' decision, and *)
(* one that the destroying thread itself holds it cannot give up.          *)
Kept == \E l \in Loggers : logger[l] = "open" /\ \A t \in Threads : status[l][t] = "idle"

DestructorEnds == (life = "stopping" ~> life \in {"gone", "aborted"}) \/ []<>Kept

(* Each logger keeps the promise of LogStream in this company.             *)
Stream(l) == INSTANCE LogStream WITH
    calls <- calls[l], status <- status[l], stream <- emitted[l], taken <- taken[l],
    attached <- Exists \/ life = "unborn"

KeepsStreams ==
    /\ \A l \in Loggers : Stream(l)!Init
    /\ [][\A l \in Loggers : [Stream(l)!Next]_(Stream(l)!vars)]_vars

(* The collector keeps the promise of LogService, a connection per logger. *)
Service == INSTANCE LogService WITH
    Pulls <- {"inp"}, Kept <- {"inp"}, Conns <- Loggers,
    Message <- Loggers \X CallIds,
    life <- CASE life = "stopping"                        -> "stopped"
              [] life \in {"unborn", "running", "stopped"} -> life
              [] OTHER                                    -> "gone",
    waiting <- [s \in {"inp"} |-> [l \in Loggers |->
                  [k \in 1..Len(Waiting(l)) |-> <<l, Waiting(l)[k]>>]]],
    printed <- [s \in {"inp"} |-> printed]

KeepsService == Service!Spec

=============================================================================
