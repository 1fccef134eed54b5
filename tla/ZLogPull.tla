------------------------------ MODULE ZLogPull ------------------------------
(***************************************************************************)
(* The log collector, class zlogpull (lib/zlogpull.cpp).                   *)
(*                                                                         *)
(* Two threads share the object.  The owner constructs it, calls start()   *)
(* and stop() and destroys it.  The worker is the thread that async() runs *)
(* run() on: it binds the four sockets, polls them together with the read  *)
(* end of a pipe, and calls one handler per readable item.  They meet in   *)
(* three places: the flag m_run, the pipe (stop() writes one byte to get   *)
(* the worker out of its poll) and the future m_fut (stop() waits on it    *)
(* before it touches the sockets).                                         *)
(*                                                                         *)
(* Each PULL socket has one peer.  A message is the pair of the connection *)
(* it came over and its number in the order of arrival at the socket.  A   *)
(* network peer gets a new connection with every launch of run(); the      *)
(* in-process peer keeps its one.  ZeroMQ keeps the order of messages      *)
(* within a connection only.  A control request is the frontend it asks    *)
(* for.  m_run is volatile and written by one thread only: a read returns  *)
(* its present value.                                                      *)
(***************************************************************************)
EXTENDS Naturals, Sequences

CONSTANTS
    Fallible,      \* the sockets whose bind() may throw (address in use)
    AsyncMayFail,  \* whether async() may find no thread (std::system_error)
    Frontends,     \* the frontends that control requests ask for
    MaxSessions,   \* bound: how often run() is launched
    MaxArrivals,   \* bound: how many messages reach each socket
    PipeCap        \* bytes the kernel pipe holds before write() blocks

Pulls   == {"tcp", "ipc", "inp"}      \* the PULL sockets that carry messages
Sockets == Pulls \cup {"ctl"}         \* and the REP socket for control
Items   == Sockets \cup {"pipe"}      \* all that the reactor polls

Conns   == 1..MaxSessions             \* connections of one socket

Empty   == [c \in Conns |-> << >>]    \* a socket that has nothing to read

ASSUME ConstantsAssumption ==
    /\ Fallible \subseteq Sockets
    /\ AsyncMayFail \in BOOLEAN
    /\ Frontends \subseteq {"inproc", "ipc", "tcp"}
    /\ MaxSessions \in Nat \ {0}
    /\ MaxArrivals \in Nat
    /\ PipeCap \in Nat
    /\ MaxSessions <= PipeCap

VARIABLES
    owner,      \* where the owner thread is, see OwnerStates
    inDtor,     \* whether the running stop() was called by the destructor
    unbinding,  \* position in UnbindOrder that stop() has reached
    m_run,      \* the flag shared by the two threads
    m_pipe,     \* bytes in the pipe
    worker,     \* where the worker thread is, see WorkerStates
    binding,    \* position in BindOrder that run() has reached
    ready,      \* items the last poll reported and that wait for dispatch
    bound,      \* sockets bound to their endpoint
    linked,     \* whether in-process peers have been attached to m_inp
    inbox,      \* per PULL socket and connection, the messages not yet read
    requests,   \* the control requests received and not yet read
    printed,    \* per PULL socket, the messages route() has printed
    answers,    \* the replies sent on the control socket, as lists of parts
    arrivals,   \* history: messages that have reached each PULL socket
    sessions,   \* history: times run() has been launched
    fault       \* history: what went wrong when this session was launched

ownerVars   == <<owner, inDtor, unbinding>>
workerVars  == <<worker, binding, ready>>
socketVars  == <<bound, linked>>
trafficVars == <<inbox, requests, printed, answers, arrivals>>
vars == <<ownerVars, workerVars, socketVars, trafficVars,
          m_run, m_pipe, sessions, fault>>

OwnerStates ==
    {"unborn",      \* the constructor has not run
     "idle",        \* no call in progress
     "cancel",      \* in stop(), about to write to the pipe
     "wait",        \* in stop(), waiting on m_fut
     "unbind",      \* in stop(), unbinding the sockets
     "close",       \* in the destructor, after stop()
     "destroyed",
     "aborted"}     \* stop() threw out of the destructor: std::terminate

WorkerStates ==
    {"none",        \* never launched
     "bind",        \* binding the sockets
     "loop",        \* about to test m_run
     "poll",        \* in reactor.poll()
     "dispatch",    \* about to call the handler of the next item in ready
     "handle",      \* in that handler, past its test of m_run
     "done"}        \* run() has returned: m_fut is ready

-----------------------------------------------------------------------------
(* The order in which run() binds the sockets, stop() unbinds them and the *)
(* reactor looks at them.                                                  *)

BindOrder == <<"tcp", "ipc", "inp", "ctl">>

MutUnbindOrder == <<"ctl", "inp", "ipc", "tcp">>
UnbindOrder == <<"tcp", "ipc", "inp", "ctl">>

PollOrder == <<"tcp", "ipc", "inp", "ctl", "pipe">>

(* The position after k, back at the first after the last.                 *)
Following(k) == IF k = 4 THEN 1 ELSE k + 1

(* The parts of the reply to a request for frontend f.  The case for       *)
(* get_frontend has no break, so the reply ends with the empty part of the *)
(* default case.                                                           *)
Response(f) ==
    CASE f = "ipc" -> <<"ipc_endpoint", "">>
      [] f = "tcp" -> <<"tcp_endpoint", "">>
      [] OTHER     -> <<"">>

(* What a poll finds readable.                                             *)
Readable ==
    {s \in Pulls : \E c \in Conns : inbox[s][c] # << >>}
        \cup {i \in {"ctl"}  : requests # << >>}
        \cup {i \in {"pipe"} : m_pipe > 0}

(* The item of ready that the reactor dispatches next.                     *)
IsNext(i) ==
    \E k \in 1..Len(PollOrder) :
        /\ PollOrder[k] = i
        /\ i \in ready
        /\ \A j \in 1..(k - 1) : PollOrder[j] \notin ready

-----------------------------------------------------------------------------
Init ==
    /\ owner = "unborn"
    /\ inDtor = FALSE
    /\ unbinding = 1
    /\ m_run = FALSE
    /\ m_pipe = 0
    /\ worker = "none"
    /\ binding = 1
    /\ ready = {}
    /\ bound = {}
    /\ linked = FALSE
    /\ inbox = [s \in Pulls |-> Empty]
    /\ requests = << >>
    /\ printed = [s \in Pulls |-> << >>]
    /\ answers = << >>
    /\ arrivals = [s \in Pulls |-> 0]
    /\ sessions = 0
    /\ fault = "none"

(***************************************************************************)
(* The owner thread.                                                       *)
(***************************************************************************)

(* m_fut = async(launch::async, &zlogpull::run, this): the future that is  *)
(* replaced is ready or empty, so the assignment does not block.           *)
Launch ==
    /\ worker' = "bind"
    /\ binding' = 1
    /\ sessions' = sessions + 1
    /\ fault' = "none"
    /\ UNCHANGED ready

(* The constructor and init().                                             *)
zlogpull ==
    /\ owner = "unborn"
    /\ owner' = "idle"
    /\ m_run' = TRUE
    /\ Launch
    /\ UNCHANGED <<inDtor, unbinding, m_pipe, socketVars, trafficVars>>

(* start() on a running collector returns at once (a step that changes     *)
(* nothing).  The flag is set before async(), which may throw.             *)
start ==
    /\ owner = "idle"
    /\ ~m_run
    /\ sessions < MaxSessions
    /\ m_run' = TRUE
    /\ \/ Launch
       \/ /\ AsyncMayFail
          /\ fault' = "thread"
          /\ sessions' = sessions + 1
          /\ UNCHANGED workerVars
    /\ UNCHANGED <<ownerVars, m_pipe, socketVars, trafficVars>>

(* Entry of stop(), called by the owner (d = FALSE) or by the destructor   *)
(* (d = TRUE).  A collector that is stopped already is left alone.         *)
MutStop(d) ==
    /\ owner = "idle"
    /\ inDtor' = d
    /\ m_run' = FALSE
    /\ owner' = "cancel"
    /\ UNCHANGED <<unbinding, m_pipe, workerVars, socketVars, trafficVars,
                   sessions, fault>>
stop(d) ==
    /\ owner = "idle"
    /\ inDtor' = d
    /\ m_run' = FALSE
    /\ owner' = IF m_run THEN "cancel" ELSE IF d THEN "close" ELSE "idle"
    /\ UNCHANGED <<unbinding, m_pipe, workerVars, socketVars, trafficVars,
                   sessions, fault>>

(* One byte into the pipe; write() blocks while the pipe is full.          *)
MutPollCancel ==
    /\ owner = "cancel"
    /\ owner' = "wait"
    /\ UNCHANGED <<inDtor, unbinding, m_run, m_pipe, workerVars, socketVars,
                   trafficVars, sessions, fault>>
poll_cancel ==
    /\ owner = "cancel"
    /\ m_pipe < PipeCap
    /\ m_pipe' = m_pipe + 1
    /\ owner' = "wait"
    /\ UNCHANGED <<inDtor, unbinding, m_run, workerVars, socketVars,
                   trafficVars, sessions, fault>>

(* m_fut.wait(): run() has returned.                                       *)
MutFutWait ==
    /\ owner = "wait"
    /\ owner' = "unbind"
    /\ unbinding' = 1
    /\ UNCHANGED <<inDtor, m_run, m_pipe, workerVars, socketVars, trafficVars,
                   sessions, fault>>
fut_wait ==
    /\ owner = "wait"
    /\ worker = "done"
    /\ owner' = "unbind"
    /\ unbinding' = 1
    /\ UNCHANGED <<inDtor, m_run, m_pipe, workerVars, socketVars, trafficVars,
                   sessions, fault>>

(* What unbinding socket s does to the traffic it has received: the queues *)
(* of in-process peers stay, those of network peers may be discarded.      *)
AfterUnbind(s) ==
    /\ inbox' \in {inbox} \cup
          {[inbox EXCEPT ![t] = Empty] : t \in {s} \cap {"tcp", "ipc"}}
    /\ requests' \in {requests} \cup {<< >> : t \in {s} \cap {"ctl"}}
    /\ UNCHANGED <<printed, answers, arrivals>>

(* The four unbind() calls of stop(), one per step.  unbind() of a socket  *)
(* that is not bound throws, and the rest of stop() is skipped: the caller *)
(* gets the exception, the destructor (noexcept) aborts the process.       *)
unbind ==
    /\ owner = "unbind"
    /\ LET s == UnbindOrder[unbinding]
       IN  \/ /\ s \in bound
              /\ bound' = bound \ {s}
              /\ AfterUnbind(s)
              /\ unbinding' = Following(unbinding)
              /\ owner' = CASE unbinding < 4 -> "unbind"
                            [] unbinding = 4 /\ inDtor -> "close"
                            [] unbinding = 4 /\ ~inDtor -> "idle"
           \/ /\ s \notin bound
              /\ unbinding' = 1
              /\ owner' = IF inDtor THEN "aborted" ELSE "idle"
              /\ UNCHANGED <<bound, trafficVars>>
    /\ UNCHANGED <<inDtor, linked, m_run, m_pipe, workerVars, sessions, fault>>

(* The rest of the destructor: the pipe is closed and the sockets are,     *)
(* with what they have received and not handed over.                       *)
close ==
    /\ owner = "close"
    /\ owner' = "destroyed"
    /\ m_pipe' = 0
    /\ inbox' = [s \in Pulls |-> Empty]
    /\ requests' = << >>
    /\ linked' = FALSE
    /\ UNCHANGED <<inDtor, unbinding, m_run, workerVars, bound, printed,
                   answers, arrivals, sessions, fault>>

(***************************************************************************)
(* The worker thread: run().                                               *)
(***************************************************************************)

(* The next bind() succeeds.  Binding m_inp attaches the in-process peers  *)
(* that connected before.                                                  *)
bind_next ==
    /\ worker = "bind"
    /\ LET s == BindOrder[binding]
       IN  /\ s \notin bound
           /\ bound' = bound \cup {s}
           /\ linked' = (linked \/ s = "inp")
    /\ binding' = Following(binding)
    /\ worker' = IF binding = 4 THEN "loop" ELSE "bind"
    /\ UNCHANGED <<ready, ownerVars, trafficVars, m_run, m_pipe, sessions, fault>>

(* The next bind() throws: the exception is printed, the binds after it    *)
(* are skipped, and run() goes on.                                         *)
bind_throws ==
    /\ worker = "bind"
    /\ BindOrder[binding] \in Fallible \cup bound
    /\ binding' = 1
    /\ worker' = "loop"
    /\ fault' = "bind"
    /\ UNCHANGED <<ready, ownerVars, socketVars, trafficVars, m_run, m_pipe,
                   sessions>>

(* while (m_run); after the loop run() takes its reactor down and returns. *)
test_run ==
    /\ worker = "loop"
    /\ worker' = IF m_run THEN "poll" ELSE "done"
    /\ UNCHANGED <<binding, ready, ownerVars, socketVars, trafficVars, m_run,
                   m_pipe, sessions, fault>>

(* reactor.poll() blocks until an item is readable, then dispatches the    *)
(* items it saw, in the order they were added.                             *)
poll ==
    /\ worker = "poll"
    /\ Readable # {}
    /\ ready' = Readable
    /\ worker' = "dispatch"
    /\ UNCHANGED <<binding, ownerVars, socketVars, trafficVars, m_run, m_pipe,
                   sessions, fault>>

(* The item i of the round is done with.                                   *)
Done(i) ==
    /\ ready' = ready \ {i}
    /\ worker' = IF ready = {i} THEN "loop" ELSE "dispatch"

(* if (!m_run) return: the handler of socket i may be entered, and stop()  *)
(* may reset the flag before it goes on.                                   *)
enter(i) ==
    /\ worker = "dispatch"
    /\ IsNext(i)
    /\ IF m_run THEN worker' = "handle" /\ UNCHANGED ready ELSE Done(i)
    /\ UNCHANGED <<binding, ownerVars, socketVars, trafficVars, m_run, m_pipe,
                   sessions, fault>>

(* The rest of the handler of socket i, to which its caller adds what it   *)
(* does to the traffic.                                                    *)
Handled(i) ==
    /\ worker = "handle"
    /\ IsNext(i)
    /\ Done(i)
    /\ UNCHANGED <<binding, ownerVars, socketVars, m_run, m_pipe, sessions, fault>>

(* in_tcp(), in_ipc(), in_inp(): one receive() and route(), which prints.  *)
MutInPullDrops(s) ==
    /\ Handled(s)
    /\ \E c \in Conns :
          /\ inbox[s][c] # << >>
          /\ inbox' = [inbox EXCEPT ![s][c] = Tail(@)]
          /\ printed' = IF m_run
                        THEN [printed EXCEPT ![s] = Append(@, Head(inbox[s][c]))]
                        ELSE printed
    /\ UNCHANGED <<requests, answers, arrivals>>
MutInPullDrains(s) ==
    /\ worker = "handle"
    /\ IsNext(s)
    /\ \E c \in Conns :
          /\ inbox[s][c] # << >>
          /\ inbox' = [inbox EXCEPT ![s][c] = Tail(@)]
          /\ printed' = [printed EXCEPT ![s] = Append(@, Head(inbox[s][c]))]
    /\ IF inbox'[s] = Empty THEN Done(s) ELSE UNCHANGED <<worker, ready>>
    /\ UNCHANGED <<binding, ownerVars, socketVars, m_run, m_pipe, sessions, fault>>
    /\ UNCHANGED <<requests, answers, arrivals>>
in_pull(s) ==
    /\ Handled(s)
    /\ \E c \in Conns :
          /\ inbox[s][c] # << >>
          /\ inbox' = [inbox EXCEPT ![s][c] = Tail(@)]
          /\ printed' = [printed EXCEPT ![s] = Append(@, Head(inbox[s][c]))]
    /\ UNCHANGED <<requests, answers, arrivals>>

(* in_ctl() with handle_cmd(): receive a request, send its reply.          *)
in_ctl ==
    /\ Handled("ctl")
    /\ requests # << >>
    /\ answers' = Append(answers, Response(Head(requests)))
    /\ requests' = Tail(requests)
    /\ UNCHANGED <<inbox, printed, arrivals>>

(* Takes one byte out of the pipe, whichever stop() wrote it, and whatever *)
(* m_run says.                                                             *)
poll_reset ==
    /\ worker = "dispatch"
    /\ IsNext("pipe")
    /\ Done("pipe")
    /\ m_pipe > 0
    /\ m_pipe' = m_pipe - 1
    /\ UNCHANGED <<binding, ownerVars, socketVars, trafficVars, m_run, sessions,
                   fault>>

(***************************************************************************)
(* The peers.                                                              *)
(***************************************************************************)

(* Peers reach m_inp from its first bind on, also while it is unbound; the *)
(* other sockets only while they are bound.                                *)
Reachable(s) ==
    /\ owner # "aborted"
    /\ s \in bound \/ (s = "inp" /\ linked)

ConnOf(s) == IF s = "inp" THEN 1 ELSE sessions

(* A message of a logger reaches PULL socket s.                            *)
Arrive(s) ==
    /\ Reachable(s)
    /\ arrivals[s] < MaxArrivals
    /\ arrivals' = [arrivals EXCEPT ![s] = @ + 1]
    /\ inbox' = [inbox EXCEPT ![s][ConnOf(s)] =
                               Append(@, <<ConnOf(s), arrivals[s] + 1>>)]
    /\ UNCHANGED <<requests, printed, answers, ownerVars, workerVars,
                   socketVars, m_run, m_pipe, sessions, fault>>

(* A request of a logger under construction reaches the control socket.    *)
Ask(f) ==
    /\ Reachable("ctl")
    /\ Len(requests) + Len(answers) < MaxArrivals
    /\ requests' = Append(requests, f)
    /\ UNCHANGED <<inbox, printed, answers, arrivals, ownerVars, workerVars,
                   socketVars, m_run, m_pipe, sessions, fault>>

-----------------------------------------------------------------------------
(* A call of stop() or of the destructor once begun.                       *)
Call == poll_cancel \/ fut_wait \/ unbind \/ close

Owner == zlogpull \/ start \/ (\E d \in BOOLEAN : stop(d)) \/ Call

Worker ==
    \/ bind_next \/ bind_throws \/ test_run \/ poll
    \/ (\E s \in Sockets : enter(s))
    \/ (\E s \in Pulls : in_pull(s)) \/ in_ctl \/ poll_reset

Peers == (\E s \in Pulls : Arrive(s)) \/ (\E f \in Frontends : Ask(f))

(* The object is gone, or the process is.                                  *)
Finished == owner \in {"destroyed", "aborted"} /\ UNCHANGED vars

Next == Owner \/ Worker \/ Peers \/ Finished

(* The threads are scheduled: a call that has begun and the worker go on   *)
(* whenever they can.  Nothing makes the owner call or a peer send.        *)
Fairness == WF_vars(Worker) /\ WF_vars(Call)

Spec == Init /\ [][Next]_vars /\ Fairness

-----------------------------------------------------------------------------
(***************************************************************************)
(* Properties.                                                             *)
(***************************************************************************)

Message == Conns \X (1..MaxArrivals)

(* The worker is between the launch and the return of run().               *)
Serving == {"bind", "loop", "poll", "dispatch", "handle"}

(* Every variable stays within its type.                                   *)
TypeOK ==
    /\ owner \in OwnerStates
    /\ inDtor \in BOOLEAN
    /\ unbinding \in 1..4
    /\ m_run \in BOOLEAN
    /\ m_pipe \in Nat
    /\ worker \in WorkerStates
    /\ binding \in 1..4
    /\ ready \in SUBSET Items
    /\ bound \in SUBSET Sockets
    /\ linked \in BOOLEAN
    /\ inbox \in [Pulls -> [Conns -> Seq(Message)]]
    /\ requests \in Seq(Frontends)
    /\ printed \in [Pulls -> Seq(Message)]
    /\ answers \in Seq({Response(f) : f \in Frontends})
    /\ arrivals \in [Pulls -> 0..MaxArrivals]
    /\ sessions \in 0..MaxSessions
    /\ fault \in {"none", "bind", "thread"}

(* A worker that sits in its poll while stop() waits for it has a byte in  *)
(* the pipe to wake it: the order of m_run = false, write() in stop() and  *)
(* of read(), while (m_run) in run() never loses the wake-up.              *)
NoLostWakeup ==
    owner = "wait" /\ worker = "poll" => m_pipe > 0

(* ZeroMQ sockets may be used by one thread at a time: when the owner      *)
(* unbinds or closes them run() has returned.                              *)
SocketsHandedOver ==
    owner \in {"unbind", "close", "destroyed"} => worker = "done"

(* A stopped collector holds no endpoint, however stop() ended: when a     *)
(* bind or async() failed stop() throws at the first socket that is not    *)
(* bound, and those it skips are not bound either.                         *)
StoppedHoldsNoEndpoint ==
    /\ owner = "idle" /\ ~m_run => bound = {}
    /\ owner \in {"close", "destroyed", "aborted"} => bound = {}

(* stop() throws, and the destructor aborts the process, only in a session *)
(* in which a bind or async() failed.                                      *)
AbortOnlyAfterFault == owner = "aborted" => fault # "none"

(* The flag says whether a worker serves: outside a call it is set exactly *)
(* when run() is running, unless async() threw out of start(), which       *)
(* leaves a collector that claims to run and cannot be started.            *)
FlagTellsWorker ==
    owner = "idle" =>
        /\ worker \in Serving => m_run
        /\ m_run => worker # "done" \/ fault = "thread"

(* poll_cancel() never blocks on a full pipe.  Bytes that a worker did not *)
(* read, because it saw m_run first, stay for the next sessions, but there *)
(* are never more than launches before this one.                           *)
CancelNeverBlocks == owner = "cancel" => m_pipe < sessions /\ m_pipe < PipeCap

(* run() is launched only when no other is running: two of them would use  *)
(* the same sockets.                                                       *)
OneRunAtATime ==
    [][sessions' # sessions => worker \in {"none", "done"}]_vars

(* stop() returns (or throws, or aborts): the worker gets out of its poll, *)
(* finishes the round it is in and stops, whatever keeps arriving.         *)
StopReturns ==
    owner = "cancel" ~> owner \in {"idle", "destroyed", "aborted"}

(* The collector keeps the promise of LogService: nothing is printed       *)
(* before the constructor or once stop() has seen the worker return;       *)
(* whatever the two threads do, each message is printed at most once, in   *)
(* its turn; and only stopping may give up what network peers sent.        *)
Life ==
    CASE owner = "unborn"                  -> "unborn"
      [] owner \in {"destroyed", "aborted"} -> "gone"
      [] m_run \/ owner \in {"cancel", "wait"} -> "running"
      [] OTHER                             -> "stopped"

Service == INSTANCE LogService WITH
    Kept <- {"inp"}, Message <- Message, life <- Life, waiting <- inbox

KeepsService == Service!Spec

-----------------------------------------------------------------------------
(***************************************************************************)
(* The inductive invariant.                                                *)
(***************************************************************************)


(* Who may move: between construction and destruction the flag is set      *)
(* outside calls only, and the owner works on the sockets only after       *)
(* run() has returned.                                                     *)
Phases ==
    /\ owner = "unborn" <=> worker = "none"
    /\ owner = "unborn" => sessions = 0
    /\ owner # "unborn" => sessions > 0
    /\ linked => owner \notin {"unborn", "destroyed"}
    /\ m_run => owner = "idle"
    /\ m_run /\ worker = "done" => fault = "thread"
    /\ worker \in Serving => m_run \/ owner \in {"cancel", "wait"}
    /\ worker = "bind" => fault = "none"
    /\ unbinding # 1 => owner = "unbind"
    /\ binding # 1 => worker = "bind"

(* The sockets that are bound are those at positions lo to hi of BindOrder.*)
BoundIs(lo, hi) == bound = {BindOrder[k] : k \in lo..hi}

(* In a session the bound sockets are the first ones of BindOrder, all     *)
(* four unless something failed, and stop() unbinds them from the front.   *)
BoundShape ==
    /\ worker = "bind" => BoundIs(1, binding - 1)
    /\ m_run \/ owner \in {"cancel", "wait"} =>
          \/ worker = "bind"
          \/ \E hi \in 0..4 : BoundIs(1, hi) /\ (fault = "none" => hi = 4)
    /\ owner = "unbind" =>
          \E hi \in (unbinding - 1)..4 :
              BoundIs(unbinding, hi) /\ (fault = "none" => hi = 4)
    /\ ~m_run /\ owner \notin {"cancel", "wait", "unbind"} => bound = {}

(* Each launch is good for one byte, which is still due while the flag is  *)
(* set or poll_cancel() has not been reached.                              *)
WakeBytes ==
    /\ m_pipe <= sessions
    /\ m_run \/ owner = "cancel" => m_pipe < sessions

IInv ==
    /\ TypeOK
    /\ Phases
    /\ BoundShape
    /\ WakeBytes
    /\ NoLostWakeup
    /\ AbortOnlyAfterFault

=============================================================================
