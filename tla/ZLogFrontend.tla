---------------------------- MODULE ZLogFrontend ----------------------------
(***************************************************************************)
(* How loggers find a collector.  The collectors (class zlogpull,          *)
(* lib/zlogpull.cpp) of one host are separate processes, at the same time  *)
(* or one after another; they share the two tcp ports.  A logger of a      *)
(* network frontend (class zlog, lib/zlog.h) asks in its constructor       *)
(* whichever collector has the control port, with one request and one      *)
(* reply, for the ipc endpoint to connect to.                              *)
(*                                                                         *)
(* A collector is modelled at the level of its binds, unbinds and of the   *)
(* control handler; ZLogPull has the detail of its two threads, and shows  *)
(* that the unbinds begin only after the worker has returned; it also has  *)
(* the launch for which async() finds no thread, which is left out here:   *)
(* it binds nothing.  A request is the pair of the logger and the session  *)
(* of the collector whose connection it came over.  The ipc endpoint of a  *)
(* collector is named after it: it is made once, in the constructor.       *)
(***************************************************************************)
EXTENDS Naturals, Sequences

CONSTANTS
    Collectors,     \* the collector processes of the host
    Loggers,        \* the loggers of network frontends
    Fallible,       \* sockets whose bind() may throw for reasons of the host
    MaxSessions,    \* bound: how often a collector launches run()
    MayCrash        \* whether a collector process may be killed

Nobody == "nobody"

Sockets == {"tcp", "ipc", "inp", "ctl"}

ASSUME ConstantsAssumption ==
    /\ Nobody \notin Collectors
    /\ Fallible \subseteq Sockets
    /\ MaxSessions \in Nat
    /\ MayCrash \in BOOLEAN

Ports   == {"tcp", "ctl"}     \* bound to fixed ports of the host

VARIABLES
    life,       \* where each collector is, see Lives
    m_run,      \* its flag
    inDtor,     \* whether its stop() was called by the destructor
    position,   \* the position of its next bind() or unbind()
    bound,      \* its sockets that are bound
    failed,     \* whether a bind of its present session has thrown
    sessions,   \* history: its launches of run()
    requests,   \* the requests at its control socket
    pc,         \* where each logger is in its constructor
    reply,      \* the collector whose endpoint is on its way to the logger
    endpoint    \* the collector whose endpoint the logger has connected to

collectorVars == <<life, m_run, inDtor, position, bound, failed, sessions>>
loggerVars    == <<pc, endpoint>>
vars == <<collectorVars, loggerVars, requests, reply>>

Lives ==
    {"unborn",
     "bind",        \* the worker is binding
     "serve",       \* the worker is polling
     "unbind",      \* stop() is unbinding, after the worker
     "idle",        \* stopped
     "destroyed",
     "aborted",     \* stop() threw out of the destructor
     "killed"}

-----------------------------------------------------------------------------
(* The order in which run() binds and the order in which stop() unbinds.   *)
BindOrder == <<"tcp", "ipc", "inp", "ctl">>

UnbindOrder == <<"tcp", "ipc", "inp", "ctl">>

Following(k) == IF k = 4 THEN 1 ELSE k + 1

(* A port is taken while some collector is bound to it; the ipc and inproc *)
(* endpoints are fresh names.                                              *)
Taken(s) == s \in Ports /\ \E d \in Collectors : s \in bound[d]

Init ==
    /\ life = [c \in Collectors |-> "unborn"]
    /\ m_run = [c \in Collectors |-> FALSE]
    /\ inDtor = [c \in Collectors |-> FALSE]
    /\ position = [c \in Collectors |-> 1]
    /\ bound = [c \in Collectors |-> {}]
    /\ failed = [c \in Collectors |-> FALSE]
    /\ sessions = [c \in Collectors |-> 0]
    /\ requests = [c \in Collectors |-> << >>]
    /\ pc = [l \in Loggers |-> "new"]
    /\ reply = [l \in Loggers |-> Nobody]
    /\ endpoint = [l \in Loggers |-> Nobody]

(***************************************************************************)
(* The collectors.                                                         *)
(***************************************************************************)

(* The constructor and start(): run() is launched.                         *)
start(c) ==
    /\ life[c] \in {"unborn", "idle"}
    /\ sessions[c] < MaxSessions
    /\ life' = [life EXCEPT ![c] = "bind"]
    /\ m_run' = [m_run EXCEPT ![c] = TRUE]
    /\ failed' = [failed EXCEPT ![c] = FALSE]
    /\ sessions' = [sessions EXCEPT ![c] = @ + 1]
    /\ UNCHANGED <<inDtor, position, bound, loggerVars, requests, reply>>

bind_next(c) ==
    /\ life[c] = "bind"
    /\ ~Taken(BindOrder[position[c]])
    /\ bound' = [bound EXCEPT ![c] = @ \cup {BindOrder[position[c]]}]
    /\ position' = [position EXCEPT ![c] = Following(@)]
    /\ life' = [life EXCEPT ![c] = IF position[c] = 4 THEN "serve" ELSE "bind"]
    /\ UNCHANGED <<m_run, inDtor, failed, sessions, loggerVars, requests, reply>>

(* The port is taken, or the host refuses (an ipc file that cannot be      *)
(* made): bind() throws, the binds after it are skipped.                   *)
MayThrow(s) == Taken(s) \/ s \in Fallible

MutBindThrows(c) ==
    /\ life[c] = "bind"
    /\ MayThrow(BindOrder[position[c]])
    /\ failed' = [failed EXCEPT ![c] = TRUE]
    /\ position' = [position EXCEPT ![c] = Following(@)]
    /\ life' = [life EXCEPT ![c] = IF position[c] = 4 THEN "serve" ELSE "bind"]
    /\ UNCHANGED <<m_run, inDtor, bound, sessions, loggerVars, requests, reply>>
bind_throws(c) ==
    /\ life[c] = "bind"
    /\ MayThrow(BindOrder[position[c]])
    /\ failed' = [failed EXCEPT ![c] = TRUE]
    /\ position' = [position EXCEPT ![c] = 1]
    /\ life' = [life EXCEPT ![c] = "serve"]
    /\ UNCHANGED <<m_run, inDtor, bound, sessions, loggerVars, requests, reply>>

(* stop() and the destructor up to m_run = false.  A stopped collector is  *)
(* left alone by stop() and destroyed by the destructor.                   *)
stop(c, d) ==
    /\ \/ /\ m_run[c]
          /\ UNCHANGED life
       \/ /\ life[c] = "idle"
          /\ d
          /\ life' = [life EXCEPT ![c] = "destroyed"]
    /\ m_run' = [m_run EXCEPT ![c] = FALSE]
    /\ inDtor' = [inDtor EXCEPT ![c] = d]
    /\ UNCHANGED <<position, bound, failed, sessions, loggerVars, requests, reply>>

(* run() sees m_run false and returns.                                     *)
run_returns(c) ==
    /\ life[c] = "serve"
    /\ ~m_run[c]
    /\ life' = [life EXCEPT ![c] = "unbind"]
    /\ UNCHANGED <<m_run, inDtor, position, bound, failed, sessions, loggerVars,
                   requests, reply>>

(* The requests that unbinding s may discard: those of the control socket. *)
AfterUnbind(c, s) ==
    \/ UNCHANGED requests
    \/ s = "ctl" /\ requests' = [requests EXCEPT ![c] = << >>]

(* One of the four unbind() calls of stop(); of a socket that is not bound *)
(* it throws.                                                              *)
unbind(c) ==
    /\ life[c] = "unbind"
    /\ LET s == UnbindOrder[position[c]]
           last == position[c] = 4 \/ s \notin bound[c]
       IN  /\ bound' = [bound EXCEPT ![c] = @ \ {s}]
           /\ position' = [position EXCEPT ![c] = IF last THEN 1 ELSE @ + 1]
           /\ life' = [life EXCEPT ![c] =
                CASE ~last -> "unbind"
                  [] last /\ ~inDtor[c] -> "idle"
                  [] last /\ inDtor[c] /\ s \in bound[c] -> "destroyed"
                  [] last /\ inDtor[c] /\ s \notin bound[c] -> "aborted"]
           /\ AfterUnbind(c, s)
    /\ UNCHANGED <<m_run, inDtor, failed, sessions, loggerVars, reply>>

(* The process is killed: the host takes its ports back.  Replies that it  *)
(* has sent may not arrive.                                                *)
kill(c) ==
    /\ MayCrash
    /\ life[c] \in {"bind", "serve", "unbind", "idle"}
    /\ life' = [life EXCEPT ![c] = "killed"]
    /\ m_run' = [m_run EXCEPT ![c] = FALSE]
    /\ position' = [position EXCEPT ![c] = 1]
    /\ bound' = [bound EXCEPT ![c] = {}]
    /\ requests' = [requests EXCEPT ![c] = << >>]
    /\ \E lost \in SUBSET {l \in Loggers : reply[l] = c} :
          reply' = [l \in Loggers |-> IF l \in lost THEN Nobody ELSE reply[l]]
    /\ UNCHANGED <<inDtor, failed, sessions, loggerVars>>

(* in_ctl() and handle_cmd(): the reply to the oldest request carries the  *)
(* ipc endpoint.  A reply over a connection that has been closed since is  *)
(* dropped by the REP socket.                                              *)
MutInCtlDrops(c) ==
    /\ life[c] = "serve"
    /\ "ctl" \in bound[c]
    /\ requests[c] # << >>
    /\ LET l == Head(requests[c])[1]
           conn == Head(requests[c])[2]
       IN  reply' = IF m_run[c] /\ conn = sessions[c]
                    THEN [reply EXCEPT ![l] = c] ELSE reply
    /\ requests' = [requests EXCEPT ![c] = Tail(@)]
    /\ UNCHANGED <<collectorVars, loggerVars>>
MutInCtlNoReceive(c) ==
    /\ life[c] = "serve"
    /\ m_run[c]
    /\ UNCHANGED vars
in_ctl(c) ==
    /\ life[c] = "serve"
    /\ m_run[c]
    /\ "ctl" \in bound[c]
    /\ requests[c] # << >>
    /\ LET l == Head(requests[c])[1]
           conn == Head(requests[c])[2]
       IN  reply' = IF conn = sessions[c] THEN [reply EXCEPT ![l] = c] ELSE reply
    /\ requests' = [requests EXCEPT ![c] = Tail(@)]
    /\ UNCHANGED <<collectorVars, loggerVars>>

(***************************************************************************)
(* The loggers.                                                            *)
(***************************************************************************)

(* The constructor for frontend f.  Only ipc asks: tcp connects to "???",  *)
(* which throws, and inproc is refused.  connect() and send() of the       *)
(* request do not need a collector.                                        *)
zlog(l, f) ==
    /\ pc[l] = "new"
    /\ pc' = [pc EXCEPT ![l] = IF f = "ipc" THEN "asked" ELSE "threw"]
    /\ UNCHANGED <<endpoint, collectorVars, requests, reply>>

(* ZeroMQ connects to the control port and hands the request over, once.   *)
Deliver(l, c) ==
    /\ pc[l] = "asked"
    /\ "ctl" \in bound[c]
    /\ requests' = [requests EXCEPT ![c] = Append(@, <<l, sessions[c]>>)]
    /\ pc' = [pc EXCEPT ![l] = "receive"]
    /\ UNCHANGED <<endpoint, collectorVars, reply>>

(* s.receive(rsp) returns, and m_push connects to what it got.             *)
receive(l) ==
    /\ pc[l] = "receive"
    /\ reply[l] # Nobody
    /\ endpoint' = [endpoint EXCEPT ![l] = reply[l]]
    /\ reply' = [reply EXCEPT ![l] = Nobody]
    /\ pc' = [pc EXCEPT ![l] = "connected"]
    /\ UNCHANGED <<collectorVars, requests>>

-----------------------------------------------------------------------------
Steps(c) == bind_next(c) \/ bind_throws(c) \/ run_returns(c) \/ unbind(c)

Collector(c) ==
    start(c) \/ (\E d \in BOOLEAN : stop(c, d)) \/ Steps(c) \/ kill(c) \/ in_ctl(c)

Logger(l) ==
    \/ \E f \in {"inproc", "ipc", "tcp"} : zlog(l, f)
    \/ \E c \in Collectors : Deliver(l, c)
    \/ receive(l)

(* The host has no collector left.                                         *)
Rest ==
    /\ \A c \in Collectors : life[c] \in {"destroyed", "aborted", "killed"}
    /\ UNCHANGED vars

Next ==
    \/ \E c \in Collectors : Collector(c)
    \/ \E l \in Loggers : Logger(l)
    \/ Rest

(* Threads are scheduled and connections come about.  Nothing makes an     *)
(* owner start or stop a collector.                                        *)
Fairness ==
    /\ \A c \in Collectors : WF_vars(Steps(c)) /\ WF_vars(in_ctl(c))
    /\ \A l \in Loggers :
          WF_vars(receive(l)) /\ WF_vars(\E c \in Collectors : Deliver(l, c))

Spec == Init /\ [][Next]_vars /\ Fairness

-----------------------------------------------------------------------------
(***************************************************************************)
(* Properties.                                                             *)
(***************************************************************************)

Requests == Loggers \X (0..MaxSessions)

(* Every variable stays within its type.                                   *)
TypeOK ==
    /\ life \in [Collectors -> Lives]
    /\ m_run \in [Collectors -> BOOLEAN]
    /\ inDtor \in [Collectors -> BOOLEAN]
    /\ position \in [Collectors -> 1..4]
    /\ bound \in [Collectors -> SUBSET Sockets]
    /\ failed \in [Collectors -> BOOLEAN]
    /\ sessions \in [Collectors -> 0..MaxSessions]
    /\ requests \in [Collectors -> Seq(Requests)]
    /\ pc \in [Loggers -> {"new", "asked", "receive", "connected", "threw"}]
    /\ reply \in [Loggers -> Collectors \cup {Nobody}]
    /\ endpoint \in [Loggers -> Collectors \cup {Nobody}]

(* A collector that has the control port and is not stopping serves on     *)
(* every socket, so that the endpoint in its replies is bound: the control *)
(* socket is bound last, and a bind that throws ends the binding.          *)
ControlServesAll ==
    \A c \in Collectors :
        "ctl" \in bound[c] /\ life[c] # "unbind" => bound[c] = Sockets

(* The two ports are in the hands of different collectors only while the   *)
(* one that has the control port unbinds: the loggers that come later find *)
(* the collector that receives on tcp, or none.                            *)
PortsTogether ==
    \A c, d \in Collectors :
        "tcp" \in bound[c] /\ "ctl" \in bound[d] /\ c # d => life[d] = "unbind"

(* A collector that could not bind everything never answers: it cannot     *)
(* have the control port, and the request finds another one.               *)
OnlyCompleteAnswers ==
    [][\A l \in Loggers :
          reply'[l] # reply[l] /\ reply'[l] # Nobody
              => ~failed[reply'[l]] /\ bound[reply'[l]] = Sockets]_vars

(* The inductive invariant of the proofs.  A port has one owner.  A        *)
(* collector holds the sockets before its position while it binds; while   *)
(* it serves, a first part of them, all if no bind has failed; while it    *)
(* unbinds, a first part of those from its position on; else none.         *)
PortOwners ==
    \A c, d \in Collectors : c # d => \A s \in Ports : ~(s \in bound[c] /\ s \in bound[d])

Holds(c, k) == BindOrder[k] \in bound[c]

FirstPart(c, first) == \A j \in first..4, k \in first..4 : j < k /\ Holds(c, k) => Holds(c, j)

Shape(c) ==
    CASE life[c] = "bind"   -> /\ ~failed[c]
                               /\ \A k \in 1..4 : Holds(c, k) <=> k < position[c]
      [] life[c] = "serve"  -> /\ position[c] = 1
                               /\ FirstPart(c, 1)
                               /\ Holds(c, 4) <=> ~failed[c]
      [] life[c] = "unbind" -> /\ \A k \in 1..4 : k < position[c] => ~Holds(c, k)
                               /\ FirstPart(c, position[c])
      [] OTHER              -> bound[c] = {} /\ position[c] = 1

IInv == TypeOK /\ PortOwners /\ \A c \in Collectors : Shape(c)

(* The constructor of l waits for a reply that cannot come: its request is *)
(* at no control socket, or came over a connection that is closed.         *)
Pending(l, c) ==
    /\ "ctl" \in bound[c]
    /\ \E k \in DOMAIN requests[c] : requests[c][k] = <<l, sessions[c]>>

Lost(l) ==
    /\ pc[l] = "receive"
    /\ reply[l] = Nobody
    /\ \A c \in Collectors : ~Pending(l, c)

(* A request is lost only when a collector lets go of its control port or  *)
(* is killed: a worker that has seen m_run false leaves the requests where *)
(* they are, and a reply that was sent survives stop().                    *)
LostOnlyWithPort ==
    [][\A l \in Loggers : ~Lost(l) /\ Lost(l)' =>
          \E c \in Collectors :
              \/ "ctl" \in bound[c] \ bound'[c]
              \/ life'[c] = "killed" /\ life[c] # "killed"]_vars

(* With a collector that goes on answering a constructor ends, unless its  *)
(* request was lost before.                                                *)
Answering(c) == life[c] = "serve" /\ m_run[c] /\ "ctl" \in bound[c]

HandshakeEnds ==
    (\E c \in Collectors : <>[]Answering(c)) =>
        \A l \in Loggers : pc[l] = "asked" ~> pc[l] = "connected" \/ Lost(l)

=============================================================================
