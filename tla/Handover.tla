------------------------------ MODULE Handover ------------------------------
(***************************************************************************)
(* What a broker promises when a client id goes from one connection to     *)
(* another, whatever it does besides.  ClientLifecycle implements it with  *)
(* the details of one broker, Cluster for several brokers that announce    *)
(* their clients to each other.                                            *)
(*                                                                         *)
(* A connection opens once, after it has closed the client that has its    *)
(* key in the registry and that close has ended; it is registered once, in *)
(* the place of any other; it closes once; and the end of a close deletes  *)
(* its key from the registry, whichever connection has it by then.         *)
(***************************************************************************)

CONSTANTS
    Conns,      \* connections
    Keys        \* what the registry is indexed by

VARIABLES
    key,        \* the key of each connection
    conn,       \* how far each connection is
    awaits,     \* the connections whose close each one waits for
    announced,  \* connections that were registered
    clients     \* connections that are registered

vars == <<key, conn, awaits, announced, clients>>

States == {"idle", "waiting", "open", "closing", "closed"}
Shut == {"closing", "closed"}

\* Closes that this step ends.
Ended == {c \in Conns : conn[c] # "closed" /\ conn'[c] = "closed"}

\* The keys of those are deleted.
Unregister == clients' = {c \in clients : \A d \in Ended : key[d] # key[c]}

\* Whom a newcomer closes.
Rivals(c) == {d \in clients : key[d] = key[c] /\ conn[d] = "open"}

Init ==
    /\ key \in [Conns -> Keys]
    /\ conn = [c \in Conns |-> "idle"]
    /\ awaits = [c \in Conns |-> {}]
    /\ announced = {} /\ clients = {}

\* CONNECT gives a connection its key.
Identify(c) ==
    /\ conn[c] = "idle"
    /\ \E k \in Keys : key' = [key EXCEPT ![c] = k]
    /\ UNCHANGED <<conn, awaits, announced, clients>>

\* A newcomer closes its rival; it opens at once if nothing is left to wait
\* for.
Begin(c) ==
    /\ conn[c] = "idle"
    /\ conn' \in [Conns -> States]
    /\ \A d \in Conns \ {c} : IF d \in Rivals(c) THEN conn'[d] \in Shut ELSE conn'[d] = conn[d]
    /\ \/ conn'[c] = "waiting"
       \/ conn'[c] = "open" /\ Rivals(c) \subseteq Ended
    /\ awaits' = [awaits EXCEPT ![c] = Rivals(c) \ Ended]
    /\ Unregister
    /\ UNCHANGED <<key, announced>>

\* A newcomer that waits for no close any more opens.
Complete(c) ==
    /\ conn[c] = "waiting" /\ awaits[c] = {}
    /\ conn' = [conn EXCEPT ![c] = "open"]
    /\ UNCHANGED <<key, awaits, announced, clients>>

\* A connection that has opened is registered, even if it has closed.
Announce(c) ==
    /\ conn[c] \notin {"idle", "waiting"}
    /\ c \notin announced
    /\ announced' = announced \cup {c}
    /\ clients' = {d \in clients : key[d] # key[c]} \cup {c}
    /\ UNCHANGED <<key, conn, awaits>>

\* Open connections are closed, for any reason, some of them at once.
Close ==
    /\ conn' \in [Conns -> States]
    /\ \A c \in Conns : conn'[c] = conn[c] \/ (conn[c] = "open" /\ conn'[c] \in Shut)
    /\ Unregister
    /\ UNCHANGED <<key, awaits, announced>>

\* A close ends; those that waited for it alone may open in the same step.
End(c) ==
    /\ conn[c] = "closing"
    /\ conn' \in [Conns -> States]
    /\ conn'[c] = "closed"
    /\ \A d \in Conns \ {c} :
          conn'[d] = conn[d] \/ (conn[d] = "waiting" /\ awaits[d] \subseteq {c} /\ conn'[d] = "open")
    /\ awaits' = [d \in Conns |-> awaits[d] \ {c}]
    /\ Unregister
    /\ UNCHANGED <<key, announced>>

Next ==
    \/ Close
    \/ \E c \in Conns : Identify(c) \/ Begin(c) \/ Complete(c) \/ Announce(c) \/ End(c)

Spec == Init /\ [][Next]_vars
=============================================================================
