------------------------------- MODULE Servers -------------------------------
(***************************************************************************)
(* What Publishing and Cluster have in common: brokers that share an       *)
(* ascoltatore and a persistence, their connections, and how both close.   *)
(***************************************************************************)

CONSTANTS
    Brokers,        \* instances of Server
    Conns,          \* instances of Client
    Home            \* Client.server

ASSUME ServersAssumption == Home \in [Conns -> Brokers] /\ Conns \cap Brokers = {}

VARIABLES
    up,     \* whether Server.close was called, and whether it has ended
    conn    \* _closing and _closed, and before them how far CONNECT is

Open(c) == conn[c] = "open"

\* A close is under way; Server.close waits for those that are stopping, its
\* own, and for sockets that are open: not for a close of a lost connection.
Closing(c) == conn[c] \in {"closing", "stopping"}

\* Client.close of those of D that are open: at once for those of Q, which
\* have no subscriptions, else when the ascoltatore has answered.
Closed(D, Q, how) ==
    [c \in Conns |-> IF c \notin D \/ ~Open(c) THEN conn[c]
                     ELSE IF c \in Q THEN "closed" ELSE how]

\* Server.close may end.
Stopped(b) == up[b] = "closing" /\ \A c \in Conns : Home[c] = b => conn[c] # "stopping"

ServersTypeOK ==
    /\ up \in [Brokers -> {"up", "closing", "closed"}]
    /\ conn \in [Conns -> {"idle", "waiting", "open", "closing", "stopping", "closed"}]
=============================================================================
