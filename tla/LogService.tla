----------------------------- MODULE LogService -----------------------------
(***************************************************************************)
(* What a collector promises to its peers (lib/zlogpull.cpp): while it     *)
(* runs, and only then, it takes the messages of each connection in the    *)
(* order in which they came and prints them.  Messages that wait survive   *)
(* stop() and start() at the sockets in Kept; at the others they may be    *)
(* given up while the collector is stopped.                                *)
(***************************************************************************)
EXTENDS Naturals, Sequences

CONSTANTS
    Pulls,      \* the sockets that carry messages
    Kept,       \* those whose peers stay connected over stop() and start()
    Conns,      \* the connections of a socket
    Message     \* what comes over them

VARIABLES
    life,       \* "unborn", "running", "stopped" or "gone"
    waiting,    \* per socket and connection, the messages that wait
    printed     \* per socket, the messages printed

vars == <<life, waiting, printed>>

Empty == [c \in Conns |-> << >>]

Init ==
    /\ life = "unborn"
    /\ waiting = [s \in Pulls |-> Empty]
    /\ printed = [s \in Pulls |-> << >>]

Run ==
    /\ life \in {"unborn", "stopped"}
    /\ life' = "running"
    /\ UNCHANGED <<waiting, printed>>

Stop ==
    /\ life = "running"
    /\ life' = "stopped"
    /\ UNCHANGED <<waiting, printed>>

Receive(s, c, m) ==
    /\ life \in {"running", "stopped"}
    /\ waiting' = [waiting EXCEPT ![s][c] = Append(@, m)]
    /\ UNCHANGED <<life, printed>>

PrintOne(s, c) ==
    /\ life = "running"
    /\ waiting[s][c] # << >>
    /\ waiting' = [waiting EXCEPT ![s][c] = Tail(@)]
    /\ printed' = [printed EXCEPT ![s] = Append(@, Head(waiting[s][c]))]
    /\ UNCHANGED life

GiveUp(s) ==
    /\ life = "stopped"
    /\ s \notin Kept
    /\ waiting' = [waiting EXCEPT ![s] = Empty]
    /\ UNCHANGED <<life, printed>>

(* The collector ends, by its destructor or with its process.              *)
End ==
    /\ life = "stopped"
    /\ life' = "gone"
    /\ waiting' \in {waiting, [s \in Pulls |-> Empty]}
    /\ UNCHANGED printed

Next ==
    \/ Run \/ Stop \/ End
    \/ \E s \in Pulls :
          \/ \E c \in Conns : PrintOne(s, c) \/ \E m \in Message : Receive(s, c, m)
          \/ GiveUp(s)

Spec == Init /\ [][Next]_vars

=============================================================================
