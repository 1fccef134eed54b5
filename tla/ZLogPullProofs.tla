--------------------------- MODULE ZLogPullProofs ---------------------------
(***************************************************************************)
(* The collector's safety properties for every choice of failing sockets,  *)
(* of frontends and of the bounds.  IInv is inductive; its conjuncts are   *)
(* shown in three lemmas (types, control, bound sockets), one case per     *)
(* action, and each property follows from IInv in one step.                *)
(***************************************************************************)
EXTENDS ZLogPull, TLAPS

USE ConstantsAssumption DEF ConstantsAssumption

(* The two orders are the same list of the four sockets: stop() unbinds    *)
(* from the front what run() bound from the front.                         *)
LEMMA OrderFacts ==
    /\ BindOrder[1] = "tcp" /\ BindOrder[2] = "ipc"
    /\ BindOrder[3] = "inp" /\ BindOrder[4] = "ctl"
    /\ UnbindOrder[1] = "tcp" /\ UnbindOrder[2] = "ipc"
    /\ UnbindOrder[3] = "inp" /\ UnbindOrder[4] = "ctl"
    /\ \A k \in 1..4 : BindOrder[k] \in Sockets
  BY DEF BindOrder, UnbindOrder, Sockets, Pulls

(* A socket without messages has a queue of the right type.                *)
LEMMA EmptyType == Empty \in [Conns -> Seq(Message)]
<1>1. << >> \in Seq(Message)
  OBVIOUS
<1>2. QED
  BY <1>1 DEF Empty

(* A program that has not constructed its collector satisfies IInv.        *)
LEMMA InitInv == Init => IInv
<1> SUFFICES ASSUME Init PROVE IInv
  OBVIOUS
<1>1. TypeOK
  <2>1. inbox \in [Pulls -> [Conns -> Seq(Message)]]
    BY EmptyType DEF Init
  <2>2. /\ requests \in Seq(Frontends)
        /\ printed \in [Pulls -> Seq(Message)]
        /\ answers \in Seq({Response(f) : f \in Frontends})
    <3>1. \A S : << >> \in Seq(S)
      OBVIOUS
    <3>2. QED
      BY <3>1 DEF Init
  <2>3. arrivals \in [Pulls -> 0..MaxArrivals] /\ sessions \in 0..MaxSessions
    BY DEF Init
  <2>4. owner \in OwnerStates /\ worker \in WorkerStates
    BY DEF Init, OwnerStates, WorkerStates
  <2>5. /\ unbinding \in 1..4 /\ m_pipe \in Nat /\ binding \in 1..4
        /\ ready \in SUBSET Items /\ bound \in SUBSET Sockets
        /\ fault \in {"none", "bind", "thread"}
    BY DEF Init
  <2>6. inDtor \in BOOLEAN /\ m_run \in BOOLEAN /\ linked \in BOOLEAN
    BY DEF Init
  <2>7. QED
    BY <2>1, <2>2, <2>3, <2>4, <2>5, <2>6 DEF TypeOK
<1>2. Phases /\ BoundShape /\ WakeBytes /\ NoLostWakeup /\ AbortOnlyAfterFault
  BY DEF Init, Phases, BoundShape, WakeBytes, NoLostWakeup, AbortOnlyAfterFault, Serving
<1>3. QED
  BY <1>1, <1>2 DEF IInv

(* What comes over the present connection is a message.                    *)
LEMMA ArriveMessage ==
  ASSUME IInv, NEW s \in Pulls, Arrive(s)
  PROVE  ConnOf(s) \in Conns /\ <<ConnOf(s), arrivals[s] + 1>> \in Message
<1> USE DEF IInv, TypeOK
<1>1. ConnOf(s) \in Conns
  BY DEF Arrive, ConnOf, Reachable, Conns, Phases, BoundShape
<1>2. arrivals[s] + 1 \in 1..MaxArrivals
  BY DEF Arrive
<1>3. QED
  BY <1>1, <1>2 DEF Message

(* No action takes a variable out of its type.                             *)
LEMMA TypeStep == IInv /\ [Next]_vars => TypeOK'
<1> SUFFICES ASSUME IInv, [Next]_vars PROVE TypeOK'
  OBVIOUS
<1> USE DEF Following, IInv, ownerVars, workerVars, socketVars, trafficVars, TypeOK, OwnerStates, WorkerStates
<1>1. CASE zlogpull
  BY <1>1 DEF zlogpull, Launch, Phases
<1>2. CASE start
  BY <1>2 DEF start, Launch
<1>3. ASSUME NEW d \in BOOLEAN, stop(d) PROVE TypeOK'
  BY <1>3 DEF stop
<1>4. CASE poll_cancel
  BY <1>4 DEF poll_cancel
<1>5. CASE fut_wait
  BY <1>5 DEF fut_wait
<1>6. CASE unbind
  <2>1. inbox' \in [Pulls -> [Conns -> Seq(Message)]] /\ requests' \in Seq(Frontends)
    BY <1>6 DEF unbind, AfterUnbind, Empty
  <2>2. QED
    BY <1>6, <2>1 DEF unbind, AfterUnbind
<1>7. CASE close
  <2>1. inbox' \in [Pulls -> [Conns -> Seq(Message)]] /\ requests' \in Seq(Frontends)
    BY <1>7, EmptyType DEF close
  <2>2. QED
    BY <1>7, <2>1 DEF close
<1>8. CASE bind_next
  <2>1. bound' \in SUBSET Sockets
    BY <1>8, OrderFacts DEF bind_next
  <2>2. QED
    BY <1>8, <2>1 DEF bind_next
<1>9. CASE bind_throws
  BY <1>9 DEF bind_throws
<1>10. CASE test_run
  BY <1>10 DEF test_run
<1>11. CASE poll
  BY <1>11 DEF poll, Readable, Items, Sockets
<1>12. ASSUME NEW s \in Pulls, in_pull(s) PROVE TypeOK'
  <2>1. PICK c \in Conns :
           /\ inbox[s][c] # << >>
           /\ inbox' = [inbox EXCEPT ![s][c] = Tail(@)]
           /\ printed' = [printed EXCEPT ![s] = Append(@, Head(inbox[s][c]))]
    BY <1>12 DEF in_pull
  <2>2. inbox[s][c] \in Seq(Message)
    OBVIOUS
  <2>3. Head(inbox[s][c]) \in Message /\ Tail(inbox[s][c]) \in Seq(Message)
    BY <2>1, <2>2
  <2>4. inbox' \in [Pulls -> [Conns -> Seq(Message)]]
    BY <2>1, <2>3
  <2>5. printed' \in [Pulls -> Seq(Message)]
    BY <2>1, <2>3
  <2>6. QED
    BY <1>12, <2>4, <2>5 DEF in_pull, Handled, Done
<1>13. CASE in_ctl
  <2>1. answers' \in Seq({Response(f) : f \in Frontends}) /\ requests' \in Seq(Frontends)
    <3>1. Head(requests) \in Frontends /\ Tail(requests) \in Seq(Frontends)
      BY <1>13 DEF in_ctl
    <3> DEFINE R == {Response(f) : f \in Frontends}
    <3>2. Response(Head(requests)) \in R
      BY <3>1
    <3>3. answers \in Seq(R)
      OBVIOUS
    <3> HIDE DEF R
    <3>4. Append(answers, Response(Head(requests))) \in Seq(R)
      BY <3>2, <3>3
    <3>5. QED
      BY <1>13, <3>1, <3>4 DEF in_ctl, R
  <2>2. QED
    BY <1>13, <2>1 DEF in_ctl, Handled, Done
<1>14. CASE poll_reset
  BY <1>14 DEF poll_reset, Done
<1>15. ASSUME NEW s \in Pulls, Arrive(s) PROVE TypeOK'
  <2>1. ConnOf(s) \in Conns
    BY <1>15, ArriveMessage
  <2>2. arrivals[s] + 1 \in 1..MaxArrivals
    BY <1>15 DEF Arrive
  <2>3. <<ConnOf(s), arrivals[s] + 1>> \in Message
    BY <1>15, ArriveMessage
  <2>4. inbox[s][ConnOf(s)] \in Seq(Message)
    BY <2>1
  <2>5. Append(inbox[s][ConnOf(s)], <<ConnOf(s), arrivals[s] + 1>>) \in Seq(Message)
    BY <2>3, <2>4
  <2>6. inbox' \in [Pulls -> [Conns -> Seq(Message)]]
    BY <1>15, <2>1, <2>5 DEF Arrive
  <2>7. arrivals' \in [Pulls -> 0..MaxArrivals]
    BY <1>15, <2>2 DEF Arrive
  <2>8. QED
    BY <1>15, <2>6, <2>7 DEF Arrive
<1>16. ASSUME NEW f \in Frontends, Ask(f) PROVE TypeOK'
  BY <1>16 DEF Ask
<1>17. ASSUME NEW i \in Sockets, enter(i) PROVE TypeOK'
  BY <1>17 DEF enter, Done
<1>18. CASE UNCHANGED vars
  BY <1>18 DEF vars
<1>19. QED
  BY <1>1, <1>2, <1>3, <1>4, <1>5, <1>6, <1>7, <1>8, <1>9, <1>10, <1>11, <1>12,
     <1>13, <1>14, <1>15, <1>16, <1>17, <1>18
     DEF Next, Owner, Call, Worker, Peers, Finished

(* The protocol of the two threads over m_run, the pipe and the future is  *)
(* preserved by every action.  The case with an argument is unbind() of a  *)
(* socket that is not bound: by BoundShape that happens only after a       *)
(* fault, so the abort is excused.                                         *)
LEMMA ControlStep ==
    IInv /\ [Next]_vars => Phases' /\ WakeBytes' /\ NoLostWakeup' /\ AbortOnlyAfterFault'
<1> SUFFICES ASSUME IInv, [Next]_vars
             PROVE  Phases' /\ WakeBytes' /\ NoLostWakeup' /\ AbortOnlyAfterFault'
  OBVIOUS
<1> USE DEF Following, IInv, TypeOK, ownerVars, workerVars, socketVars, trafficVars, OwnerStates,
        WorkerStates, Serving, Phases, WakeBytes, NoLostWakeup, AbortOnlyAfterFault
<1>1. CASE zlogpull
  BY <1>1 DEF zlogpull, Launch
<1>2. CASE start
  BY <1>2 DEF start, Launch
<1>3. ASSUME NEW d \in BOOLEAN, stop(d)
      PROVE  Phases' /\ WakeBytes' /\ NoLostWakeup' /\ AbortOnlyAfterFault'
  BY <1>3 DEF stop
<1>4. CASE poll_cancel
  BY <1>4 DEF poll_cancel
<1>5. CASE fut_wait
  BY <1>5 DEF fut_wait
<1>6. CASE unbind
  <2> DEFINE s == UnbindOrder[unbinding]
  <2>1. CASE s \in bound
    BY <1>6, <2>1 DEF unbind
  <2>2. CASE s \notin bound
    <3>1. fault # "none"
      <4>1. PICK hi \in (unbinding - 1)..4 :
               BoundIs(unbinding, hi) /\ (fault = "none" => hi = 4)
        BY <1>6 DEF unbind, BoundShape
      <4>2. SUFFICES ASSUME hi = 4 PROVE FALSE
        BY <4>1
      <4>3. BindOrder[unbinding] \in bound
        BY <4>1, <4>2 DEF BoundIs
      <4>4. QED
        BY <4>3, <2>2, OrderFacts
    <3>2. QED
      BY <1>6, <2>2, <3>1 DEF unbind
  <2>3. QED
    BY <2>1, <2>2
<1>7. CASE close
  BY <1>7 DEF close
<1>8. CASE bind_next
  BY <1>8 DEF bind_next
<1>9. CASE bind_throws
  BY <1>9 DEF bind_throws
<1>10. CASE test_run
  BY <1>10 DEF test_run
<1>11. CASE poll
  BY <1>11 DEF poll, Readable
<1>12. ASSUME NEW s \in Pulls, in_pull(s)
       PROVE  Phases' /\ WakeBytes' /\ NoLostWakeup' /\ AbortOnlyAfterFault'
  BY <1>12 DEF in_pull, Handled, Done
<1>13. CASE in_ctl
  BY <1>13 DEF in_ctl, Handled, Done
<1>14. CASE poll_reset
  BY <1>14 DEF poll_reset, Done
<1>15. ASSUME NEW s \in Pulls, Arrive(s)
       PROVE  Phases' /\ WakeBytes' /\ NoLostWakeup' /\ AbortOnlyAfterFault'
  BY <1>15 DEF Arrive
<1>16. ASSUME NEW f \in Frontends, Ask(f)
       PROVE  Phases' /\ WakeBytes' /\ NoLostWakeup' /\ AbortOnlyAfterFault'
  BY <1>16 DEF Ask
<1>17. ASSUME NEW i \in Sockets, enter(i) PROVE Phases' /\ WakeBytes' /\ NoLostWakeup' /\ AbortOnlyAfterFault'
  BY <1>17 DEF enter, Done
<1>18. CASE UNCHANGED vars
  BY <1>18 DEF vars
<1>19. QED
  BY <1>1, <1>2, <1>3, <1>4, <1>5, <1>6, <1>7, <1>8, <1>9, <1>10, <1>11, <1>12,
     <1>13, <1>14, <1>15, <1>16, <1>17, <1>18
     DEF Next, Owner, Call, Worker, Peers, Finished

(* Adding the next socket of BindOrder to the first k - 1 gives the first  *)
(* k: what one bind() of run() does.                                       *)
LEMMA SpanGrow ==
    \A k \in 1..4 :
        {BindOrder[j] : j \in 1..(k - 1)} \cup {BindOrder[k]}
            = {BindOrder[j] : j \in 1..k}
<1> TAKE k \in 1..4
<1>1. \A j : j \in 1..k <=> j \in 1..(k - 1) \/ j = k
  OBVIOUS
<1>2. QED
  BY <1>1

(* Removing the first of a span of BindOrder leaves the span that starts   *)
(* one later: what one unbind() of stop() does.                            *)
LEMMA SpanShrink ==
    \A u, hi \in 1..4 : u <= hi =>
        {BindOrder[j] : j \in u..hi} \ {BindOrder[u]}
            = {BindOrder[j] : j \in (u + 1)..hi}
<1> SUFFICES ASSUME NEW u \in 1..4, NEW hi \in 1..4, u <= hi
             PROVE  {BindOrder[j] : j \in u..hi} \ {BindOrder[u]}
                        = {BindOrder[j] : j \in (u + 1)..hi}
  OBVIOUS
<1>1. \A i, j \in 1..4 : BindOrder[i] = BindOrder[j] => i = j
  BY OrderFacts
<1>2. \A j : j \in u..hi <=> j \in (u + 1)..hi \/ j = u
  OBVIOUS
<1>3. \A j \in (u + 1)..hi : j \in 1..4 /\ j # u
  OBVIOUS
<1>4. \A j \in (u + 1)..hi : BindOrder[j] # BindOrder[u]
  BY <1>1, <1>3
<1>5. QED
  BY <1>2, <1>4

(* The bound sockets stay the span of BindOrder that BoundShape describes. *)
LEMMA BoundStep == IInv /\ [Next]_vars => BoundShape'
<1> SUFFICES ASSUME IInv, [Next]_vars PROVE BoundShape'
  OBVIOUS
<1> USE DEF Following, IInv, TypeOK, ownerVars, workerVars, socketVars, OwnerStates,
        WorkerStates, Serving, Phases
<1>1. CASE zlogpull
  BY <1>1 DEF zlogpull, Launch, BoundShape, BoundIs
<1>2. CASE start
  <2>1. bound' = {}
    BY <1>2 DEF start, BoundShape
  <2>2. BoundIs(1, 0)'
    BY <2>1 DEF BoundIs
  <2>3. QED
    BY <1>2, <2>1, <2>2 DEF start, Launch, BoundShape, BoundIs
<1>3. ASSUME NEW d \in BOOLEAN, stop(d) PROVE BoundShape'
  BY <1>3 DEF stop, BoundShape, BoundIs
<1>4. CASE poll_cancel
  BY <1>4 DEF poll_cancel, BoundShape, BoundIs
<1>5. CASE fut_wait
  BY <1>5 DEF fut_wait, BoundShape, BoundIs
<1>6. CASE unbind
  <2> DEFINE s == UnbindOrder[unbinding]
  <2>1. PICK hi \in (unbinding - 1)..4 :
           BoundIs(unbinding, hi) /\ (fault = "none" => hi = 4)
    BY <1>6 DEF unbind, BoundShape
  <2>2. s = BindOrder[unbinding]
    BY OrderFacts
  <2>3. CASE s \in bound
    <3>1. unbinding <= hi
      BY <2>1, <2>3 DEF BoundIs
    <3>2. bound' = {BindOrder[j] : j \in (unbinding + 1)..hi}
      <4>1. bound' = bound \ {BindOrder[unbinding]}
        BY <1>6, <2>2, <2>3 DEF unbind
      <4>2. hi \in 1..4 /\ unbinding \in 1..4
        BY <3>1
      <4>3. bound = {BindOrder[j] : j \in unbinding..hi}
        BY <2>1 DEF BoundIs
      <4>4. QED
        BY <3>1, <4>1, <4>2, <4>3, SpanShrink
    <3>3. CASE unbinding < 4
      <4>1. unbinding' = unbinding + 1 /\ owner' = "unbind" /\ fault' = fault
            /\ worker' = worker /\ m_run' = m_run
        BY <1>6, <2>3, <3>3 DEF unbind
      <4>2. bound' = {BindOrder[j] : j \in unbinding'..hi}
        BY <3>2, <4>1
      <4>3. hi \in (unbinding' - 1)..4
        BY <3>1, <4>1
      <4>4. fault' = "none" => hi = 4
        BY <2>1, <4>1
      <4>5. worker' # "bind" /\ ~m_run'
        BY <1>6, <4>1 DEF unbind
      <4>6. QED
        BY <4>1, <4>2, <4>3, <4>4, <4>5 DEF BoundShape, BoundIs
    <3>4. CASE unbinding = 4
      <4>1. bound' = {}
        BY <3>1, <3>2, <3>4
      <4>2. QED
        BY <1>6, <2>3, <3>4, <4>1 DEF unbind, BoundShape
    <3>5. QED
      BY <3>3, <3>4
  <2>4. CASE s \notin bound
    <3>1. ~(unbinding <= hi)
      BY <2>1, <2>2, <2>4 DEF BoundIs
    <3>2. bound = {}
      BY <2>1, <3>1 DEF BoundIs
    <3>3. QED
      BY <1>6, <2>4, <3>2 DEF unbind, BoundShape
  <2>5. QED
    BY <2>3, <2>4
<1>7. CASE close
  BY <1>7 DEF close, BoundShape
<1>8. CASE bind_next
  <2>1. bound' = {BindOrder[j] : j \in 1..binding}
    <3>1. bound' = bound \cup {BindOrder[binding]}
      BY <1>8 DEF bind_next
    <3>2. bound = {BindOrder[j] : j \in 1..(binding - 1)}
      BY <1>8 DEF bind_next, BoundShape, BoundIs
    <3>3. QED
      BY <3>1, <3>2, SpanGrow
  <2>2. QED
    BY <1>8, <2>1 DEF bind_next, BoundShape, BoundIs
<1>9. CASE bind_throws
  BY <1>9 DEF bind_throws, BoundShape, BoundIs
<1>10. CASE test_run
  BY <1>10 DEF test_run, BoundShape, BoundIs
<1>11. CASE poll
  BY <1>11 DEF poll, BoundShape, BoundIs
<1>12. ASSUME NEW s \in Pulls, in_pull(s) PROVE BoundShape'
  BY <1>12 DEF in_pull, Handled, Done, BoundShape, BoundIs
<1>13. CASE in_ctl
  BY <1>13 DEF in_ctl, Handled, Done, BoundShape, BoundIs
<1>14. CASE poll_reset
  BY <1>14 DEF poll_reset, Done, BoundShape, BoundIs
<1>15. ASSUME NEW s \in Pulls, Arrive(s) PROVE BoundShape'
  BY <1>15 DEF Arrive, BoundShape, BoundIs
<1>16. ASSUME NEW f \in Frontends, Ask(f) PROVE BoundShape'
  BY <1>16 DEF Ask, BoundShape, BoundIs
<1>17. ASSUME NEW i \in Sockets, enter(i) PROVE BoundShape'
  BY <1>17 DEF enter, Done, BoundShape, BoundIs
<1>18. CASE UNCHANGED vars
  BY <1>18 DEF vars, BoundShape, BoundIs
<1>19. QED
  BY <1>1, <1>2, <1>3, <1>4, <1>5, <1>6, <1>7, <1>8, <1>9, <1>10, <1>11, <1>12,
     <1>13, <1>14, <1>15, <1>16, <1>17, <1>18
     DEF Next, Owner, Call, Worker, Peers, Finished

(* IInv holds in every reachable state of the collector.                   *)
THEOREM Inductive == Spec => []IInv
<1>1. IInv /\ [Next]_vars => IInv'
  BY TypeStep, ControlStep, BoundStep DEF IInv
<1>2. QED
  BY InitInv, <1>1, PTL DEF Spec

(* The wake-up that stop() sends through the pipe is never lost (lines     *)
(* 87-89 against 125-127 and 154 of zlogpull.cpp).                         *)
THEOREM WakeupKept == Spec => []NoLostWakeup
<1>1. IInv => NoLostWakeup
  BY DEF IInv
<1>2. QED
  BY Inductive, <1>1, PTL

(* stop() and the destructor touch the sockets only after run() has        *)
(* returned (line 89 before lines 90-93).                                  *)
THEOREM HandedOver == Spec => []SocketsHandedOver
<1>1. IInv => SocketsHandedOver
  BY DEF IInv, TypeOK, Phases, Serving, WorkerStates, SocketsHandedOver
<1>2. QED
  BY Inductive, <1>1, PTL

(* However stop() ends, a stopped collector holds no endpoint, whatever    *)
(* set of binds can fail.                                                  *)
THEOREM NoEndpointLeft == Spec => []StoppedHoldsNoEndpoint
<1>1. IInv => StoppedHoldsNoEndpoint
  BY DEF IInv, Phases, BoundShape, StoppedHoldsNoEndpoint
<1>2. QED
  BY Inductive, <1>1, PTL

(* The destructor aborts the process only if a bind or async() failed in   *)
(* this session.                                                           *)
THEOREM AbortNeedsFault == Spec => []AbortOnlyAfterFault
<1>1. IInv => AbortOnlyAfterFault
  BY DEF IInv
<1>2. QED
  BY Inductive, <1>1, PTL

(* Outside a call m_run is set exactly when run() is running, but for a    *)
(* start() that found no thread.                                           *)
THEOREM FlagIsRight == Spec => []FlagTellsWorker
<1>1. IInv => FlagTellsWorker
  BY DEF IInv, Phases, Serving, FlagTellsWorker
<1>2. QED
  BY Inductive, <1>1, PTL

(* The write() of poll_cancel() finds room as long as the pipe holds as    *)
(* many bytes as there are launches.                                       *)
THEOREM CancelDoesNotBlock == Spec => []CancelNeverBlocks
<1>1. IInv => CancelNeverBlocks
  BY DEF IInv, TypeOK, WakeBytes, CancelNeverBlocks
<1>2. QED
  BY Inductive, <1>1, PTL

(* start() launches run() only when no other run() is using the sockets.   *)
THEOREM SingleRun == Spec => OneRunAtATime
<1>1. IInv /\ [Next]_vars => [sessions' # sessions => worker \in {"none", "done"}]_vars
  <2> SUFFICES ASSUME IInv, Next, sessions' # sessions
               PROVE  worker \in {"none", "done"}
    BY DEF vars, socketVars
  <2>1. zlogpull \/ start
    BY DEF Next, Owner, Call, Worker, Peers, Finished, stop, poll_cancel, fut_wait,
           unbind, close, bind_next, bind_throws, test_run, poll, in_pull, in_ctl,
           poll_reset, enter, Handled, Done, Arrive, Ask, vars
  <2>2. QED
    BY <2>1 DEF zlogpull, start, IInv, TypeOK, Phases, Serving, WorkerStates
<1>2. QED
  BY Inductive, <1>1, PTL DEF Spec, OneRunAtATime

-----------------------------------------------------------------------------
(* The refinement.  Where the collector is in its life, told from owner    *)
(* and flag.                                                               *)
LEMMA LifeIs ==
  ASSUME IInv
  PROVE  /\ Life = "unborn" <=> owner = "unborn"
         /\ Life = "gone" <=> owner \in {"destroyed", "aborted"}
         /\ Life = "running" <=> m_run \/ owner \in {"cancel", "wait"}
         /\ Life = "stopped" <=> ~m_run /\ owner \in {"idle", "unbind", "close"}
<1>1. owner \in OwnerStates /\ (m_run => owner = "idle")
  BY DEF IInv, TypeOK, Phases
<1>2. CASE owner = "unborn"
  BY <1>1, <1>2 DEF Life
<1>3. CASE owner \in {"destroyed", "aborted"}
  BY <1>1, <1>3 DEF Life
<1>4. CASE m_run \/ owner \in {"cancel", "wait"}
  BY <1>1, <1>4 DEF Life
<1>5. CASE ~m_run /\ owner \in {"idle", "unbind", "close"}
  BY <1>1, <1>5 DEF Life
<1>6. QED
  BY <1>1, <1>2, <1>3, <1>4, <1>5 DEF OwnerStates

(* A collector that is not constructed promises nothing yet.               *)
LEMMA ServiceInit == Init => Service!Init
BY DEF Init, Life, Service!Init, Empty, Service!Empty

(* Steps of the owner start the service, stop it, give up messages of      *)
(* network peers while it is stopped, or end it.                           *)
LEMMA OwnerServes ==
  ASSUME IInv, IInv', Owner
  PROVE  [Service!Next]_(Service!vars)
<1>1. /\ owner \in OwnerStates /\ (m_run => owner = "idle")
      /\ inbox \in [Pulls -> [Conns -> Seq(Message)]] /\ unbinding \in 1..4
  BY DEF IInv, TypeOK, Phases
<1>2. CASE zlogpull
  <2>1. Life = "unborn" /\ Life' = "running" /\ UNCHANGED <<inbox, printed>>
    BY <1>2, LifeIs DEF zlogpull, trafficVars, Life
  <2>2. QED
    BY <2>1 DEF Service!Next, Service!Run
<1>3. CASE start
  <2>1. Life = "stopped" /\ Life' = "running" /\ UNCHANGED <<inbox, printed>>
    BY <1>3, LifeIs DEF start, ownerVars, trafficVars, Life
  <2>2. QED
    BY <2>1 DEF Service!Next, Service!Run
<1>4. ASSUME NEW d \in BOOLEAN, stop(d) PROVE [Service!Next]_(Service!vars)
  BY <1>4 DEF stop, trafficVars, Life, Service!vars
<1>5. CASE poll_cancel
  BY <1>5 DEF poll_cancel, trafficVars, Life, Service!vars
<1>6. CASE fut_wait
  <2>1. Life = "running" /\ Life' = "stopped" /\ UNCHANGED <<inbox, printed>>
    BY <1>1, <1>6, LifeIs DEF fut_wait, trafficVars, Life
  <2>2. QED
    BY <2>1 DEF Service!Next, Service!Stop
<1>7. CASE unbind
  <2> DEFINE s == UnbindOrder[unbinding]
  <2>1. Life = "stopped" /\ printed' = printed /\ m_run' = FALSE
    BY <1>1, <1>7, LifeIs DEF unbind, AfterUnbind, trafficVars
  <2>2. CASE s \notin bound
    <3>1. owner' \in {"aborted", "idle"} /\ inbox' = inbox
      BY <1>7, <2>2 DEF unbind, trafficVars
    <3>2. CASE owner' = "idle"
      BY <2>1, <3>1, <3>2 DEF Life, Service!vars
    <3>3. CASE owner' = "aborted"
      BY <2>1, <3>1, <3>3 DEF Life, Service!Next, Service!End
    <3>4. QED
      BY <3>1, <3>2, <3>3
  <2>3. CASE s \in bound
    <3>1. owner' \in {"unbind", "close", "idle"} /\ AfterUnbind(s)
      <4>1. inDtor \in BOOLEAN
        BY DEF IInv, TypeOK
      <4>2. QED
        BY <1>1, <1>7, <2>3, <4>1 DEF unbind
    <3>2. Life' = "stopped"
      BY <2>1, <3>1 DEF Life
    <3>3. CASE inbox' = inbox
      BY <2>1, <3>2, <3>3 DEF Service!vars
    <3>4. CASE inbox' # inbox
      <4>1. PICK t \in {s} \cap {"tcp", "ipc"} : inbox' = [inbox EXCEPT ![t] = Empty]
        BY <3>1, <3>4 DEF AfterUnbind
      <4>2. t \in Pulls /\ t \notin {"inp"}
        BY <4>1 DEF Pulls
      <4>3. Service!GiveUp(t)
        BY <2>1, <3>2, <4>1, <4>2 DEF Service!GiveUp, Empty, Service!Empty
      <4>4. QED
        BY <4>2, <4>3 DEF Service!Next
    <3>5. QED
      BY <3>3, <3>4
  <2>4. QED
    BY <2>2, <2>3
<1>8. CASE close
  <2>1. Life = "stopped" /\ Life' = "gone"
    BY <1>1, <1>8, LifeIs DEF close, Life
  <2>2. inbox' = [s \in Pulls |-> Empty] /\ printed' = printed
    BY <1>8 DEF close
  <2>3. QED
    BY <2>1, <2>2 DEF Service!Next, Service!End, Empty, Service!Empty
<1>9. QED
  BY <1>2, <1>3, <1>4, <1>5, <1>6, <1>7, <1>8 DEF Owner, Call

(* Of the worker's steps the handlers of the PULL sockets print the oldest *)
(* message of a connection, and the others change nothing that is promised.*)
LEMMA WorkerServes ==
  ASSUME IInv, Worker
  PROVE  [Service!Next]_(Service!vars)
<1>1. ASSUME NEW s \in Pulls, in_pull(s) PROVE [Service!Next]_(Service!vars)
  <2>1. PICK c \in Conns :
           /\ inbox[s][c] # << >>
           /\ inbox' = [inbox EXCEPT ![s][c] = Tail(@)]
           /\ printed' = [printed EXCEPT ![s] = Append(@, Head(inbox[s][c]))]
    BY <1>1 DEF in_pull
  <2>2. Life = "running" /\ Life' = Life
    BY <1>1, LifeIs DEF in_pull, Handled, ownerVars, IInv, Phases, Serving, Life
  <2>3. Service!PrintOne(s, c)
    BY <2>1, <2>2 DEF Service!PrintOne
  <2>4. QED
    BY <2>3 DEF Service!Next
<1>2. CASE \/ bind_next \/ bind_throws \/ test_run \/ poll \/ poll_reset
           \/ in_ctl \/ \E s \in Sockets : enter(s)
  <2>1. UNCHANGED <<owner, m_run, inbox, printed>>
    BY <1>2 DEF bind_next, bind_throws, test_run, poll, poll_reset, in_ctl, enter, Handled,
                ownerVars, trafficVars
  <2>2. QED
    BY <2>1 DEF Life, Service!vars
<1>3. QED
  BY <1>1, <1>2 DEF Worker

(* A message arrives at a collector that is running or stopped.            *)
LEMMA PeersServed ==
  ASSUME IInv, Peers
  PROVE  [Service!Next]_(Service!vars)
<1>1. ASSUME NEW s \in Pulls, Arrive(s) PROVE [Service!Next]_(Service!vars)
  <2>1. Life \in {"running", "stopped"} /\ Life' = Life
    <3>1. owner \notin {"unborn", "destroyed", "aborted"}
      BY <1>1 DEF Arrive, Reachable, IInv, Phases, BoundShape
    <3>2. owner \in OwnerStates
      BY DEF IInv, TypeOK
    <3>3. QED
      BY <1>1, <3>1, <3>2, LifeIs DEF Arrive, ownerVars, Life, OwnerStates
  <2>2. Service!Receive(s, ConnOf(s), <<ConnOf(s), arrivals[s] + 1>>)
    BY <1>1, <2>1 DEF Arrive, Service!Receive
  <2>3. QED
    BY <1>1, <2>2, ArriveMessage DEF Service!Next
<1>2. ASSUME NEW f \in Frontends, Ask(f) PROVE [Service!Next]_(Service!vars)
  BY <1>2 DEF Ask, ownerVars, Life, Service!vars
<1>3. QED
  BY <1>1, <1>2 DEF Peers

(* The collector implements LogService: with two threads, any binds that   *)
(* fail and any stop() it prints what waits, in its turn, at most once and *)
(* only while it runs, and keeps what in-process peers sent.               *)
THEOREM ImplementsService == Spec => KeepsService
<1>1. IInv /\ IInv' /\ [Next]_vars => [Service!Next]_(Service!vars)
  <2> SUFFICES ASSUME IInv, IInv', [Next]_vars PROVE [Service!Next]_(Service!vars)
    OBVIOUS
  <2>1. CASE Finished \/ UNCHANGED vars
    BY <2>1 DEF Finished, vars, ownerVars, trafficVars, Life, Service!vars
  <2>2. QED
    BY <2>1, OwnerServes, WorkerServes, PeersServed DEF Next
<1>2. QED
  BY Inductive, ServiceInit, <1>1, PTL DEF Spec, KeepsService, Service!Spec

=============================================================================
