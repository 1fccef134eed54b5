-------------------------- MODULE ZLogFrontendProofs --------------------------
(***************************************************************************)
(* For any number of collectors and loggers, sessions and crashes: who has *)
(* the control port has every socket, and only such a collector answers.   *)
(***************************************************************************)
EXTENDS ZLogFrontend, TLAPS

USE ConstantsAssumption DEF ConstantsAssumption

(* The sockets are those of the two orders, which are the same.            *)
LEMMA OrderFacts ==
    /\ BindOrder[1] = "tcp" /\ BindOrder[2] = "ipc"
    /\ BindOrder[3] = "inp" /\ BindOrder[4] = "ctl"
    /\ \A k \in 1..4 : BindOrder[k] \in Sockets /\ UnbindOrder[k] = BindOrder[k]
    /\ \A j, k \in 1..4 : BindOrder[j] = BindOrder[k] => j = k
    /\ \A s \in Sockets : \E k \in 1..4 : s = BindOrder[k]
  BY DEF BindOrder, UnbindOrder, Sockets

(* A host on which nothing has been started satisfies IInv.                *)
LEMMA InitInv == Init => IInv
<1> SUFFICES ASSUME Init PROVE IInv
  OBVIOUS
<1>1. << >> \in Seq(Requests)
  OBVIOUS
<1>2. TypeOK
  BY <1>1 DEF Init, TypeOK, Lives
<1>3. PortOwners /\ \A c \in Collectors : Shape(c)
  BY DEF Init, PortOwners, Shape
<1>4. QED
  BY <1>2, <1>3 DEF IInv

(* No action of a collector takes a variable out of its type.              *)
LEMMA CollectorType ==
  ASSUME TypeOK, NEW c \in Collectors, Collector(c)
  PROVE  TypeOK'
<1> USE DEF TypeOK, collectorVars, loggerVars
<1>1. CASE start(c)
  BY <1>1 DEF start, Lives
<1>2. CASE bind_next(c)
  <2>1. position[c] \in 1..4
    OBVIOUS
  <2>2. Following(position[c]) \in 1..4
    BY <2>1 DEF Following
  <2>3. BindOrder[position[c]] \in Sockets
    BY <2>1, OrderFacts
  <2>4. bound' \in [Collectors -> SUBSET Sockets] /\ position' \in [Collectors -> 1..4]
    BY <1>2, <2>2, <2>3 DEF bind_next
  <2>5. life' \in [Collectors -> Lives]
    BY <1>2 DEF bind_next, Lives
  <2>6. QED
    BY <1>2, <2>4, <2>5 DEF bind_next
<1>3. CASE bind_throws(c)
  BY <1>3 DEF bind_throws, Lives
<1>4. CASE \E d \in BOOLEAN : stop(c, d)
  BY <1>4 DEF stop, Lives
<1>5. CASE run_returns(c)
  BY <1>5 DEF run_returns, Lives
<1>6. CASE unbind(c)
  <2>1. requests' \in [Collectors -> Seq(Requests)]
    <3>1. << >> \in Seq(Requests)
      OBVIOUS
    <3>2. QED
      BY <1>6, <3>1 DEF unbind, AfterUnbind
  <2>2. position' \in [Collectors -> 1..4]
    <3>1. PICK k : position' = [position EXCEPT ![c] = k] /\ (k = 1 \/ (position[c] # 4 /\ k = position[c] + 1))
      BY <1>6 DEF unbind
    <3>2. position[c] \in 1..4
      OBVIOUS
    <3>3. k \in 1..4
      BY <3>1, <3>2
    <3>4. QED
      BY <3>1, <3>3
  <2>3. life' \in [Collectors -> Lives]
    BY <1>6 DEF unbind, Lives
  <2>4. QED
    BY <1>6, <2>1, <2>2, <2>3 DEF unbind
<1>7. CASE kill(c)
  <2>1. << >> \in Seq(Requests)
    OBVIOUS
  <2>2. reply' \in [Loggers -> Collectors \cup {Nobody}]
    BY <1>7 DEF kill
  <2>3. QED
    BY <1>7, <2>1, <2>2 DEF kill, Lives
<1>8. CASE in_ctl(c)
  <2>1. requests[c] \in Seq(Requests) /\ requests[c] # << >>
    BY <1>8 DEF in_ctl
  <2>2. Tail(requests[c]) \in Seq(Requests)
    BY <2>1
  <2>3. requests' \in [Collectors -> Seq(Requests)]
    BY <1>8, <2>2 DEF in_ctl
  <2>4. reply' \in [Loggers -> Collectors \cup {Nobody}]
    BY <1>8 DEF in_ctl
  <2>5. QED
    BY <1>8, <2>3, <2>4 DEF in_ctl, collectorVars, loggerVars
<1>9. QED
  BY <1>1, <1>2, <1>3, <1>4, <1>5, <1>6, <1>7, <1>8 DEF Collector, Steps

(* No action at all does.                                                  *)
LEMMA TypeStep == TypeOK /\ [Next]_vars => TypeOK'
<1> SUFFICES ASSUME TypeOK, [Next]_vars PROVE TypeOK'
  OBVIOUS
<1>1. ASSUME NEW c \in Collectors, Collector(c) PROVE TypeOK'
  BY <1>1, CollectorType
<1>2. ASSUME NEW l \in Loggers, Logger(l) PROVE TypeOK'
  <2>1. ASSUME NEW f \in {"inproc", "ipc", "tcp"}, zlog(l, f) PROVE TypeOK'
    BY <2>1 DEF TypeOK, zlog, collectorVars
  <2>2. ASSUME NEW c \in Collectors, Deliver(l, c) PROVE TypeOK'
    <3>1. sessions[c] \in 0..MaxSessions
      BY DEF TypeOK
    <3>2. <<l, sessions[c]>> \in Requests
      BY <3>1, <2>2 DEF Requests, Deliver, TypeOK
    <3>3. requests' \in [Collectors -> Seq(Requests)]
      BY <2>2, <3>2 DEF TypeOK, Deliver
    <3>4. QED
      BY <2>2, <3>3 DEF TypeOK, Deliver, collectorVars
  <2>3. CASE receive(l)
    BY <2>3 DEF TypeOK, receive, collectorVars
  <2>4. QED
    BY <1>2, <2>1, <2>2, <2>3 DEF Logger
<1>3. CASE Rest \/ UNCHANGED vars
  BY <1>3 DEF TypeOK, Rest, vars, collectorVars, loggerVars
<1>4. QED
  BY <1>1, <1>2, <1>3 DEF Next

-----------------------------------------------------------------------------
(* A collector's step leaves the other collectors alone.                   *)
LEMMA Others ==
  ASSUME TypeOK, NEW c \in Collectors, Collector(c), NEW d \in Collectors, d # c
  PROVE  /\ life'[d] = life[d] /\ position'[d] = position[d]
         /\ bound'[d] = bound[d] /\ failed'[d] = failed[d]
BY DEF TypeOK, Collector, Steps, start, bind_next, bind_throws, stop, run_returns, unbind,
       kill, in_ctl, collectorVars

(* What a collector holds is what its position says, after each step too.  *)
LEMMA OwnShape ==
  ASSUME IInv, NEW c \in Collectors, Collector(c)
  PROVE  Shape(c)'
<1> USE DEF IInv
<1>1. /\ Shape(c) /\ position[c] \in 1..4 /\ bound[c] \subseteq Sockets
      /\ c \in DOMAIN life /\ c \in DOMAIN position /\ c \in DOMAIN bound /\ c \in DOMAIN failed
      /\ life[c] \in Lives
  BY DEF TypeOK
<1>2. CASE start(c)
  BY <1>1, <1>2, OrderFacts DEF start, Shape, Holds
<1>3. CASE bind_next(c)
  <2> DEFINE s == BindOrder[position[c]]
  <2>1. /\ life[c] = "bind" /\ ~failed[c] /\ failed'[c] = failed[c]
        /\ \A k \in 1..4 : Holds(c, k) <=> k < position[c]
        /\ bound'[c] = bound[c] \cup {s}
        /\ position'[c] = Following(position[c])
        /\ life'[c] = IF position[c] = 4 THEN "serve" ELSE "bind"
    BY <1>1, <1>3 DEF bind_next, Shape
  <2>2. \A k \in 1..4 : BindOrder[k] \in bound'[c] <=> k <= position[c]
    BY <1>1, <2>1, OrderFacts DEF Holds
  <2>3. CASE position[c] = 4
    BY <2>1, <2>2, <2>3 DEF Shape, Holds, FirstPart, Following
  <2>4. CASE position[c] # 4
    BY <1>1, <2>1, <2>2, <2>4 DEF Shape, Holds, Following
  <2>5. QED
    BY <2>3, <2>4
<1>4. CASE bind_throws(c)
  <2>1. /\ life'[c] = "serve" /\ position'[c] = 1 /\ failed'[c] /\ bound' = bound
        /\ \A k \in 1..4 : Holds(c, k) <=> k < position[c]
    BY <1>1, <1>4 DEF bind_throws, Shape
  <2>2. QED
    BY <1>1, <2>1 DEF Shape, Holds, FirstPart
<1>5. CASE \E d \in BOOLEAN : stop(c, d)
  <2>1. /\ position' = position /\ bound' = bound /\ failed' = failed
        /\ \/ life'[c] = life[c]
           \/ life[c] = "idle" /\ life'[c] = "destroyed"
    BY <1>1, <1>5 DEF stop
  <2>2. QED
    BY <1>1, <2>1 DEF Shape, Holds, FirstPart
<1>6. CASE run_returns(c)
  <2>1. /\ life[c] = "serve" /\ life'[c] = "unbind"
        /\ position' = position /\ bound' = bound /\ position[c] = 1 /\ FirstPart(c, 1)
    BY <1>1, <1>6 DEF run_returns, Shape
  <2>2. QED
    BY <2>1 DEF Shape, Holds, FirstPart
<1>7. CASE unbind(c)
  <2> DEFINE s    == BindOrder[position[c]]
             last == position[c] = 4 \/ s \notin bound[c]
  <2>1. UnbindOrder[position[c]] = s
    BY <1>1, OrderFacts
  <2>2. /\ life[c] = "unbind"
        /\ bound'[c] = bound[c] \ {s}
        /\ position'[c] = IF last THEN 1 ELSE position[c] + 1
        /\ ~last => life'[c] = "unbind"
        /\ last => life'[c] \in {"idle", "destroyed", "aborted"}
    <3>1. inDtor[c] \in BOOLEAN
      BY DEF TypeOK
    <3>2. QED
      BY <1>1, <1>7, <2>1, <3>1 DEF unbind
  <2>3. /\ \A k \in 1..4 : k < position[c] => ~Holds(c, k)
        /\ FirstPart(c, position[c])
    BY <1>1, <2>2 DEF Shape
  <2>4. CASE last
    <3>1. \A k \in 1..4 : BindOrder[k] \notin bound'[c]
      BY <1>1, <2>2, <2>3, <2>4, OrderFacts DEF Holds, FirstPart
    <3>2. bound'[c] = {}
      BY <1>1, <2>2, <3>1, OrderFacts
    <3>3. QED
      BY <2>2, <2>4, <3>2 DEF Shape
  <2>5. CASE ~last
    <3>1. \A k \in 1..4 : k < position[c] + 1 => BindOrder[k] \notin bound'[c]
      BY <1>1, <2>2, <2>3 DEF Holds
    <3>2. \A j \in (position[c] + 1)..4, k \in (position[c] + 1)..4 :
              j < k /\ BindOrder[k] \in bound'[c] => BindOrder[j] \in bound'[c]
      BY <1>1, <2>2, <2>3, OrderFacts DEF Holds, FirstPart
    <3>3. QED
      BY <2>2, <2>5, <3>1, <3>2 DEF Shape, Holds, FirstPart
  <2>6. QED
    BY <2>4, <2>5
<1>8. CASE kill(c)
  BY <1>1, <1>8 DEF kill, Shape
<1>9. CASE in_ctl(c)
  BY <1>1, <1>9 DEF in_ctl, collectorVars, Shape, Holds, FirstPart
<1>10. QED
  BY <1>2, <1>3, <1>4, <1>5, <1>6, <1>7, <1>8, <1>9 DEF Collector, Steps

(* A port is bound only while nobody has it.                               *)
LEMMA OwnersKept ==
  ASSUME IInv, NEW c \in Collectors, Collector(c)
  PROVE  PortOwners'
<1> USE DEF IInv
<1>1. \A s \in Ports : s \in bound'[c] /\ s \notin bound[c] =>
          \A d \in Collectors : s \notin bound[d]
  <2>1. CASE bind_next(c)
    BY <2>1 DEF TypeOK, bind_next, Taken
  <2>2. CASE ~bind_next(c)
    <3>1. bound'[c] \subseteq bound[c]
      BY <2>2 DEF TypeOK, Collector, Steps, start, bind_throws, stop, run_returns,
                  unbind, kill, in_ctl, collectorVars
    <3>2. QED
      BY <3>1
  <2>3. QED
    BY <2>1, <2>2
<1>2. \A d \in Collectors : d # c => bound'[d] = bound[d]
  BY Others
<1>3. QED
  BY <1>1, <1>2 DEF PortOwners

(* Steps of the loggers leave the collectors as they are.                  *)
LEMMA LoggersApart ==
  ASSUME IInv, \/ \E l \in Loggers : Logger(l)
               \/ Rest \/ UNCHANGED vars
  PROVE  UNCHANGED collectorVars
BY DEF Logger, zlog, Deliver, receive, Rest, vars, collectorVars

(* Every step keeps IInv.                                                  *)
LEMMA InvStep == IInv /\ [Next]_vars => IInv'
<1> SUFFICES ASSUME IInv, [Next]_vars PROVE IInv'
  OBVIOUS
<1>1. TypeOK'
  BY TypeStep DEF IInv
<1>2. ASSUME NEW c \in Collectors, Collector(c)
      PROVE  PortOwners' /\ (\A d \in Collectors : Shape(d))'
  <2>1. ASSUME NEW d \in Collectors, d # c PROVE Shape(d)'
    BY <1>2, <2>1, Others DEF IInv, Shape, Holds, FirstPart
  <2>2. Shape(c)'
    BY <1>2, OwnShape
  <2>3. QED
    BY <1>2, <2>1, <2>2, OwnersKept
<1>3. ASSUME (\E l \in Loggers : Logger(l)) \/ Rest \/ UNCHANGED vars
      PROVE  PortOwners' /\ (\A d \in Collectors : Shape(d))'
  <2>1. life' = life /\ position' = position /\ bound' = bound /\ failed' = failed
    BY <1>3, LoggersApart DEF collectorVars
  <2>2. PortOwners'
    BY <2>1 DEF IInv, PortOwners
  <2>3. ASSUME NEW d \in Collectors PROVE Shape(d)'
    BY <2>1 DEF IInv, Shape, Holds, FirstPart
  <2>4. QED
    BY <2>2, <2>3
<1>4. QED
  BY <1>1, <1>2, <1>3 DEF IInv, Next

-----------------------------------------------------------------------------
(* IInv holds in every reachable state of the host.                        *)
THEOREM Inductive == Spec => []IInv
<1>1. QED
  BY InitInv, InvStep, PTL DEF Spec

(* Who holds the control socket outside stop() holds every socket.         *)
LEMMA ControlIsLast == IInv => ControlServesAll
<1> SUFFICES ASSUME IInv, NEW c \in Collectors, "ctl" \in bound[c], life[c] # "unbind"
             PROVE  bound[c] = Sockets
  BY DEF ControlServesAll
<1>1. Shape(c) /\ position[c] \in 1..4 /\ bound[c] \subseteq Sockets
  BY DEF IInv, TypeOK
<1>2. Holds(c, 4)
  BY OrderFacts DEF Holds
<1>3. life[c] = "serve"
  BY <1>1, <1>2 DEF Shape
<1>4. \A k \in 1..4 : Holds(c, k)
  BY <1>1, <1>2, <1>3 DEF Shape, FirstPart
<1>5. QED
  BY <1>1, <1>4, OrderFacts DEF Holds

(* A collector that loggers can ask receives on every socket, whichever    *)
(* binds failed before (lines 112-115 of zlogpull.cpp).                    *)
THEOREM ControlMeansAll == Spec => []ControlServesAll
<1>1. QED
  BY Inductive, ControlIsLast, PTL

(* Two collectors share the two ports only while one of them unbinds.      *)
THEOREM NoSplitPorts == Spec => []PortsTogether
<1>1. IInv => PortsTogether
  BY ControlIsLast DEF IInv, ControlServesAll, PortsTogether, PortOwners, Ports, Sockets
<1>2. QED
  BY Inductive, <1>1, PTL

(* Only a collector that has bound everything answers a request.           *)
THEOREM CompleteAnswers == Spec => OnlyCompleteAnswers
<1>1. IInv /\ [Next]_vars =>
        [\A l \in Loggers : reply'[l] # reply[l] /\ reply'[l] # Nobody
            => ~failed[reply'[l]] /\ bound[reply'[l]] = Sockets]_vars
  <2> SUFFICES ASSUME IInv, Next, NEW l \in Loggers, reply'[l] # reply[l], reply'[l] # Nobody
               PROVE  ~failed[reply'[l]] /\ bound[reply'[l]] = Sockets
    BY DEF vars, collectorVars, loggerVars
  <2>1. reply \in [Loggers -> Collectors \cup {Nobody}]
    BY DEF IInv, TypeOK
  <2>2. PICK c \in Collectors : in_ctl(c)
    BY <2>1 DEF Next, Collector, Steps, Logger, start, bind_next, bind_throws, stop,
                run_returns, unbind, kill, zlog, Deliver, receive, Rest, vars
  <2>3. reply'[l] = c /\ life[c] = "serve" /\ "ctl" \in bound[c]
    BY <2>1, <2>2 DEF in_ctl
  <2>4. bound[c] = Sockets
    BY <2>3, ControlIsLast DEF ControlServesAll
  <2>5. ~failed[c]
    BY <2>3, OrderFacts DEF IInv, Shape, Holds
  <2>6. QED
    BY <2>3, <2>4, <2>5
<1>2. QED
  BY Inductive, <1>1, PTL DEF Spec, OnlyCompleteAnswers

-----------------------------------------------------------------------------
(* A request that waits at an open control socket, over a connection that  *)
(* is still open, goes on waiting or is answered, whatever the collectors  *)
(* do, unless its collector lets go of the port or is killed.              *)
LEMMA PendingKept ==
  ASSUME IInv, NEW c \in Collectors, Collector(c), NEW l \in Loggers, NEW d \in Collectors,
         Pending(l, d)
  PROVE  \/ Pending(l, d)'
         \/ reply'[l] # Nobody
         \/ "ctl" \in bound[d] \ bound'[d]
         \/ life'[d] = "killed" /\ life[d] # "killed"
<1> USE DEF IInv
<1>1. PICK k \in DOMAIN requests[d] : requests[d][k] = <<l, sessions[d]>>
  BY DEF Pending
<1>2. "ctl" \in bound[d] /\ life[d] \in {"serve", "unbind"}
  <2>1. Shape(d) /\ BindOrder[4] = "ctl" /\ position[d] \in 1..4
    BY OrderFacts DEF TypeOK
  <2>2. "ctl" \in bound[d]
    BY DEF Pending
  <2>3. QED
    BY <2>1, <2>2 DEF Shape, Holds, TypeOK, Lives
<1>3. CASE UNCHANGED <<requests, sessions>>
  BY <1>1, <1>2, <1>3 DEF Pending
<1>4. CASE start(c)
  <2>1. c # d
    BY <1>2, <1>4 DEF start
  <2>2. UNCHANGED <<requests, bound>> /\ sessions'[d] = sessions[d]
    BY <1>4, <2>1 DEF start, TypeOK
  <2>3. QED
    BY <1>1, <1>2, <2>2 DEF Pending
<1>5. CASE unbind(c)
  <2>1. CASE requests' = requests
    BY <1>1, <1>2, <1>5, <2>1 DEF unbind, Pending
  <2>2. CASE /\ UnbindOrder[position[c]] = "ctl"
             /\ requests' = [requests EXCEPT ![c] = << >>]
    <3>1. CASE c = d
      BY <1>2, <1>5, <2>2, <3>1 DEF unbind, TypeOK
    <3>2. CASE c # d
      <4>1. requests'[d] = requests[d] /\ bound'[d] = bound[d] /\ sessions' = sessions
        BY <1>5, <2>2, <3>2 DEF unbind, TypeOK
      <4>2. QED
        BY <1>1, <1>2, <4>1 DEF Pending
    <3>3. QED
      BY <3>1, <3>2
  <2>3. QED
    BY <1>5, <2>1, <2>2 DEF unbind, AfterUnbind
<1>6. CASE kill(c)
  <2>1. CASE c = d
    BY <1>2, <1>6, <2>1 DEF kill, TypeOK
  <2>2. CASE c # d
    <3>1. requests'[d] = requests[d] /\ bound'[d] = bound[d] /\ sessions' = sessions
      BY <1>6, <2>2 DEF kill, TypeOK
    <3>2. QED
      BY <1>1, <1>2, <3>1 DEF Pending
  <2>3. QED
    BY <2>1, <2>2
<1>7. CASE in_ctl(c)
  <2>1. sessions' = sessions /\ bound' = bound
    BY <1>7 DEF in_ctl, collectorVars
  <2>2. CASE c # d
    <3>1. requests'[d] = requests[d]
      BY <1>7, <2>2 DEF in_ctl, TypeOK
    <3>2. QED
      BY <1>1, <1>2, <2>1, <3>1 DEF Pending
  <2>3. CASE c = d /\ k = 1
    <3>1. Head(requests[c])[1] = l /\ Head(requests[c])[2] = sessions[c]
      <4>1. Head(requests[c]) = <<l, sessions[c]>>
        BY <1>1, <2>3 DEF TypeOK
      <4>2. QED
        BY <4>1
    <3>2. reply' = [reply EXCEPT ![l] = c]
      BY <1>7, <2>3, <3>1 DEF in_ctl
    <3>3. QED
      BY <3>2 DEF TypeOK
  <2>4. CASE c = d /\ k # 1
    <3>1. requests[d] \in Seq(Requests) /\ requests[d] # << >> /\ requests'[d] = Tail(requests[d])
      BY <1>7, <2>4 DEF in_ctl, TypeOK
    <3>2. k - 1 \in DOMAIN Tail(requests[d]) /\ Tail(requests[d])[k - 1] = requests[d][k]
      BY <1>1, <2>4, <3>1
    <3>3. QED
      BY <1>1, <1>2, <2>1, <3>1, <3>2 DEF Pending
  <2>5. QED
    BY <2>2, <2>3, <2>4
<1>8. QED
  BY <1>3, <1>4, <1>5, <1>6, <1>7 DEF Collector, Steps, bind_next, bind_throws, stop, run_returns

(* A reply on its way to a logger arrives, is replaced by another one, or  *)
(* goes with the process that sent it.                                     *)
LEMMA ReplyKept ==
  ASSUME IInv, NEW c \in Collectors, Collector(c), NEW l \in Loggers, reply[l] # Nobody
  PROVE  \/ reply'[l] # Nobody
         \/ life'[c] = "killed" /\ life[c] # "killed"
<1> USE DEF IInv
<1>1. CASE in_ctl(c)
  BY <1>1 DEF in_ctl, TypeOK
<1>2. CASE kill(c)
  BY <1>2 DEF kill, TypeOK
<1>3. QED
  BY <1>1, <1>2 DEF Collector, Steps, start, bind_next, bind_throws, stop, run_returns, unbind

(* Appending an element leaves those before it where they are.             *)
LEMMA AppendKeeps ==
  ASSUME NEW S, NEW s \in Seq(S), NEW e \in S, NEW k \in DOMAIN s
  PROVE  k \in DOMAIN Append(s, e) /\ Append(s, e)[k] = s[k]
  OBVIOUS

(* A request of the handshake is lost only with the control port or the    *)
(* process of a collector: the test of m_run in in_ctl(), which comes      *)
(* before receive() (lines 219-223 of zlogpull.cpp), loses none.           *)
THEOREM LostWithPort == Spec => LostOnlyWithPort
<1>1. IInv /\ [Next]_vars =>
        [\A l \in Loggers : ~Lost(l) /\ Lost(l)' =>
           \E c \in Collectors :
              \/ "ctl" \in bound[c] \ bound'[c]
              \/ life'[c] = "killed" /\ life[c] # "killed"]_vars
  <2> SUFFICES ASSUME IInv, Next, NEW l \in Loggers, ~Lost(l), Lost(l)'
               PROVE  \E c \in Collectors :
                         \/ "ctl" \in bound[c] \ bound'[c]
                         \/ life'[c] = "killed" /\ life[c] # "killed"
    BY DEF vars, collectorVars, loggerVars
  <2>1. pc'[l] = "receive" /\ reply'[l] = Nobody /\ \A c \in Collectors : ~Pending(l, c)'
    BY DEF Lost
  <2>2. ASSUME NEW c \in Collectors, Collector(c)
        PROVE  \E d \in Collectors :
                  \/ "ctl" \in bound[d] \ bound'[d]
                  \/ life'[d] = "killed" /\ life[d] # "killed"
    <3>1. pc[l] = "receive"
      BY <2>1, <2>2 DEF Collector, Steps, start, bind_next, bind_throws, stop, run_returns,
                        unbind, kill, in_ctl, loggerVars
    <3>2. CASE reply[l] # Nobody
      BY <2>1, <2>2, <3>2, ReplyKept
    <3>3. CASE reply[l] = Nobody
      <4>1. PICK d \in Collectors : Pending(l, d)
        BY <3>1, <3>3 DEF Lost
      <4>2. QED
        BY <2>1, <2>2, <4>1, PendingKept
    <3>4. QED
      BY <3>2, <3>3
  <2>3. ASSUME NEW m \in Loggers, NEW f \in {"inproc", "ipc", "tcp"}, zlog(m, f) PROVE FALSE
    <3>1. pc[l] = "receive"
      BY <2>1, <2>3 DEF zlog, IInv, TypeOK
    <3>2. QED
      BY <2>1, <2>3, <3>1 DEF zlog, Lost, Pending, collectorVars
  <2>4. ASSUME NEW m \in Loggers, NEW c \in Collectors, Deliver(m, c) PROVE FALSE
    <3>1. /\ requests[c] \in Seq(Requests) /\ sessions[c] \in 0..MaxSessions
          /\ requests'[c] = Append(requests[c], <<m, sessions[c]>>)
          /\ \A d \in Collectors : d # c => requests'[d] = requests[d]
          /\ sessions' = sessions /\ bound' = bound /\ reply' = reply /\ "ctl" \in bound[c]
      BY <2>4 DEF Deliver, IInv, TypeOK, collectorVars
    <3>2. CASE m = l
      <4>1. /\ Len(requests[c]) + 1 \in DOMAIN requests'[c]
            /\ requests'[c][Len(requests[c]) + 1] = <<l, sessions[c]>>
        BY <3>1, <3>2
      <4>2. Pending(l, c)'
        BY <3>1, <4>1 DEF Pending
      <4>3. QED
        BY <2>1, <4>2
    <3>3. CASE m # l
      <4>1. pc[l] = "receive" /\ reply[l] = Nobody
        BY <2>1, <2>4, <3>1, <3>3 DEF Deliver, IInv, TypeOK
      <4>2. PICK d \in Collectors : Pending(l, d)
        BY <4>1 DEF Lost
      <4>3. PICK k \in DOMAIN requests[d] : requests[d][k] = <<l, sessions[d]>>
        BY <4>2 DEF Pending
      <4>4. k \in DOMAIN requests'[d] /\ requests'[d][k] = requests[d][k]
        <5>1. CASE d = c
          <6>1. requests[c] \in Seq(Requests) /\ <<m, sessions[c]>> \in Requests
            BY <3>1 DEF Requests
          <6> DEFINE q == requests[c]
                     r == <<m, sessions[c]>>
          <6>2. q \in Seq(Requests) /\ r \in Requests /\ k \in DOMAIN q
            BY <5>1, <6>1
          <6> HIDE DEF q, r
          <6>3. k \in DOMAIN Append(q, r) /\ Append(q, r)[k] = q[k]
            BY ONLY <6>2, AppendKeeps
          <6>4. /\ k \in DOMAIN Append(requests[c], <<m, sessions[c]>>)
                /\ Append(requests[c], <<m, sessions[c]>>)[k] = requests[c][k]
            BY ONLY <6>3, Zenon DEF q, r
          <6>5. QED
            BY ONLY <6>4, <5>1, <3>1, Zenon
        <5>2. CASE d # c
          BY ONLY <5>2, <3>1, <4>3, Zenon
        <5>3. QED
          BY <5>1, <5>2
      <4>5. Pending(l, d)'
        BY <3>1, <4>2, <4>3, <4>4 DEF Pending
      <4>6. QED
        BY <2>1, <4>5
    <3>4. QED
      BY <3>2, <3>3
  <2>5. ASSUME NEW m \in Loggers, receive(m) PROVE FALSE
    <3>1. m # l /\ pc[l] = "receive" /\ reply[l] = Nobody
      BY <2>1, <2>5 DEF receive, IInv, TypeOK
    <3>2. QED
      BY <2>1, <2>5, <3>1 DEF receive, Lost, Pending, collectorVars
  <2>6. ASSUME Rest PROVE FALSE
    BY <2>1, <2>6 DEF Rest, vars, collectorVars, loggerVars, Lost, Pending
  <2>7. QED
    BY <2>2, <2>3, <2>4, <2>5, <2>6 DEF Next, Logger
<1>2. QED
  BY Inductive, <1>1, PTL DEF Spec, LostOnlyWithPort

=============================================================================
