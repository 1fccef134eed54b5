--------------------------- MODULE MCZLogPullTurns ---------------------------
(***************************************************************************)
(* The collector with a monitor of the turns that its sockets take: a      *)
(* busy socket must not keep the others waiting.                           *)
(***************************************************************************)
EXTENDS ZLogPull

VARIABLE
    overtaken   \* per socket, how often each other one was served since it waits

(* Socket s has something to read, and is served by this step.             *)
Waits(s)  == s \in Readable
Served(s) == IF s = "ctl" THEN answers' # answers ELSE printed'[s] # printed[s]

NoTurns == [s \in Sockets |-> [u \in Sockets \ {s} |-> 0]]

(* The count starts again with every turn of the socket, when it has       *)
(* nothing to read, and with every launch.                                 *)
CountTurns ==
    overtaken' =
        [s \in Sockets |->
            IF Waits(s) /\ Waits(s)' /\ ~Served(s) /\ sessions' = sessions
            THEN [u \in Sockets \ {s} |-> overtaken[s][u] + (IF Served(u) THEN 1 ELSE 0)]
            ELSE NoTurns[s]]

TurnsInit == Init /\ overtaken = NoTurns
TurnsNext == Next /\ CountTurns
TurnsSpec == TurnsInit /\ [][TurnsNext]_<<vars, overtaken>>

(* Bounds: one control request; and stop() ends what is explored, since    *)
(* the handlers do nothing after it.                                       *)
Bounded ==
    /\ Len(requests) + Len(answers) <= 1
    /\ m_run \/ sessions = 0

-----------------------------------------------------------------------------
(* A socket that has something to read is overtaken at most once by those  *)
(* behind it in the order of the reactor, and at most twice by those       *)
(* before it: in the round that was under way when it became readable, and *)
(* in its own.  Each handler receives one message only (zlogpull.cpp, line *)
(* 193), so no sender, however fast, shuts the others out.                 *)
Before(u, s) ==
    \E j, k \in DOMAIN PollOrder : j < k /\ PollOrder[j] = u /\ PollOrder[k] = s

TakesTurns ==
    \A s \in Sockets : \A u \in Sockets \ {s} :
        overtaken[s][u] <= IF Before(u, s) THEN 2 ELSE 1

=============================================================================
