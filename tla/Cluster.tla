------------------------------ MODULE Cluster ------------------------------
(***************************************************************************)
(* Brokers that share an ascoltatore: a broker announces a client that has *)
(* connected on "$SYS/<broker>/new/clients", and the others close the one  *)
(* that they have under its id (lib/server.js).  ClientLifecycle has the   *)
(* details of one broker.                                                  *)
(***************************************************************************)
EXTENDS Servers, Sequences

CONSTANTS
    Id,             \* the client id of each connection
    Unsubscribed    \* connections without subscriptions

VARIABLES
    restoring,  \* connections whose session is being restored
    waits,      \* the older client that each connection waits for
    clients,    \* Server.clients of all brokers
    announced,  \* how far Server.publish of each announcement is
    inbox,      \* announcements on the way to each broker
    kicked,     \* observer: <<c, d>>, c was closed by the announcement of d
    past        \* observer: <<c, d>>, that of d had come before c was announced,
                \* at another broker

clusterVars == <<restoring, waits, clients, announced, inbox, kicked, past>>
observers == <<kicked, past>>

\* The connections that have the key of c in clients of its broker.
Same(c) == {d \in Conns : Home[d] = Home[c] /\ Id[d] = Id[c]}

\* Client.close of D: those that close at once leave clients, and with them
\* goes whatever has their key.
CloseClients(D, how) ==
    /\ conn' = Closed(D, Unsubscribed, how)
    /\ clients' = clients \ UNION {Same(c) : c \in {d \in D : Open(d) /\ d \in Unsubscribed}}

\* The announcement of d has come to broker b.
Known(b, d) == announced[d] = "routed" /\ \A k \in DOMAIN inbox[b] : inbox[b][k] # d

-----------------------------------------------------------------------------
(* Connections *)

\* handleConnect: the client that has the id is closed.
Connect(c) ==
    LET old == clients \cap Same(c) IN
    /\ conn[c] = "idle" /\ up[Home[c]] # "closed"
    /\ waits' = [waits EXCEPT ![c] = {d \in old : Open(d)}]
    /\ conn' = [Closed(old, Unsubscribed, "closing") EXCEPT ![c] = "waiting"]
    /\ clients' = IF \E d \in old : Open(d) /\ d \in Unsubscribed THEN clients \ Same(c) ELSE clients
    /\ UNCHANGED <<up, restoring, announced, inbox, observers>>

\* completeConnection, which the close of the older client calls back.
\* Mutant: it does not wait for that.
CompleteEarly(c) ==
    /\ conn[c] = "waiting"
    /\ conn' = [conn EXCEPT ![c] = "open"]
    /\ waits' = [waits EXCEPT ![c] = {}]
    /\ restoring' = restoring \cup {c}
    /\ UNCHANGED <<up, clients, announced, inbox, observers>>

Complete(c) ==
    /\ conn[c] = "waiting"
    /\ \A d \in waits[c] : conn[d] = "closed"
    /\ conn' = [conn EXCEPT ![c] = "open"]
    /\ waits' = [waits EXCEPT ![c] = {}]
    /\ restoring' = restoring \cup {c}
    /\ UNCHANGED <<up, clients, announced, inbox, observers>>

\* clientConnected, also of a client that has closed meanwhile: Server.publish
\* asks the persistence to store the announcement, whose QoS is undefined.
Announce(c) ==
    /\ c \in restoring
    /\ restoring' = restoring \ {c}
    /\ announced' = [announced EXCEPT ![c] = "store"]
    /\ clients' = (clients \ Same(c)) \cup {c}
    /\ past' = past \cup {<<c, d>> : d \in {e \in Conns : Home[e] # Home[c] /\ Known(Home[c], e)}}
    /\ UNCHANGED <<up, conn, waits, inbox, kicked>>

\* Any close of a client: by its peer, a loss, an error.
Leave(c) ==
    /\ Open(c)
    /\ CloseClients({c}, "closing")
    /\ UNCHANGED <<up, restoring, waits, announced, inbox, observers>>

\* A close ends, and clientDisconnected deletes the key.
Unregister(c) ==
    /\ Closing(c)
    /\ conn' = [conn EXCEPT ![c] = "closed"]
    /\ clients' = clients \ Same(c)
    /\ UNCHANGED <<up, restoring, waits, announced, inbox, observers>>

-----------------------------------------------------------------------------
(* Announcements *)

\* The callback of storePacket, and the ascoltatore that it calls.
AnnouncementStored(c) ==
    /\ announced[c] = "store"
    /\ announced' = [announced EXCEPT ![c] = IF up[Home[c]] = "up" THEN "sent" ELSE "dropped"]
    /\ UNCHANGED <<up, conn, restoring, waits, clients, inbox, observers>>

RouteAnnouncement(c) ==
    /\ announced[c] = "sent"
    /\ announced' = [announced EXCEPT ![c] = "routed"]
    /\ inbox' = [b \in Brokers |-> IF up[b] = "closed" THEN inbox[b] ELSE Append(inbox[b], c)]
    /\ UNCHANGED <<up, conn, restoring, waits, clients, observers>>

\* Whom the handler of "$SYS/+/new/clients" closes at broker b.  Mutants: also
\* for an announcement of its own; not one that is announced itself.
RivalsToo(b, d) == {c \in clients : Home[c] = b /\ Id[c] = Id[d]}
RivalsBehind(b, d) == {c \in clients : Home[c] = b /\ Id[c] = Id[d] /\ Home[d] # b /\ announced[c] # "routed"}
Rivals(b, d) == {c \in clients : Home[c] = b /\ Id[c] = Id[d] /\ Home[d] # b}

Kick(b) ==
    LET d == Head(inbox[b]) IN
    /\ inbox[b] # <<>>
    /\ inbox' = [inbox EXCEPT ![b] = Tail(@)]
    /\ CloseClients(Rivals(b, d), "closing")
    /\ kicked' = kicked \cup {<<c, d>> : c \in {e \in Rivals(b, d) : Open(e)}}
    /\ UNCHANGED <<up, restoring, waits, announced, past>>

-----------------------------------------------------------------------------
(* Close of a broker *)

BrokerClose(b) ==
    /\ up[b] = "up"
    /\ up' = [up EXCEPT ![b] = "closing"]
    /\ CloseClients({c \in clients : Home[c] = b}, "stopping")
    /\ UNCHANGED <<restoring, waits, announced, inbox, observers>>

\* Its clients have closed: it closes its ascoltatore.  Mutant: the inbox is
\* not emptied but gone.
BrokerClosedGone(b) ==
    /\ Stopped(b)
    /\ up' = [up EXCEPT ![b] = "closed"]
    /\ inbox' = [e \in Brokers \ {b} |-> inbox[e]]
    /\ UNCHANGED <<conn, restoring, waits, clients, announced, observers>>

BrokerClosed(b) ==
    /\ Stopped(b)
    /\ up' = [up EXCEPT ![b] = "closed"]
    /\ inbox' = [inbox EXCEPT ![b] = <<>>]
    /\ UNCHANGED <<conn, restoring, waits, clients, announced, observers>>

-----------------------------------------------------------------------------
NothingAnnounced ==
    /\ restoring = {} /\ clients = {} /\ kicked = {} /\ past = {}
    /\ waits = [c \in Conns |-> {}]
    /\ announced = [c \in Conns |-> "none"]
    /\ inbox = [b \in Brokers |-> <<>>]

ClusterInit ==
    /\ up = [b \in Brokers |-> "up"]
    /\ conn = [c \in Conns |-> "idle"]
    /\ NothingAnnounced

ClusterNext ==
    \/ \E c \in Conns :
          \/ Connect(c) \/ Complete(c) \/ Announce(c) \/ Leave(c) \/ Unregister(c)
          \/ AnnouncementStored(c) \/ RouteAnnouncement(c)
    \/ \E b \in Brokers : Kick(b) \/ BrokerClose(b) \/ BrokerClosed(b)

ClusterSpec == ClusterInit /\ [][ClusterNext]_<<up, conn, clusterVars>>

-----------------------------------------------------------------------------
(* The refinement mapping *)

\* A client that Server.close stops is closing like any other; one that waits
\* does so for those that have not closed.
key == [c \in Conns |-> <<Home[c], Id[c]>>]
status == [c \in Conns |-> IF Closing(c) THEN "closing" ELSE conn[c]]
awaits == [c \in Conns |-> {d \in waits[c] : conn[d] # "closed"}]
named == {c \in Conns : announced[c] # "none"}

Takeover == INSTANCE Handover WITH
    Conns <- Conns, Keys <- Brokers \X {Id[c] : c \in Conns},
    key <- key, conn <- status, awaits <- awaits, announced <- named,
    clients <- clients

-----------------------------------------------------------------------------
(* Properties *)

\* The type invariant.
ClusterTypeOK ==
    /\ ServersTypeOK
    /\ restoring \in SUBSET Conns /\ clients \in SUBSET Conns
    /\ waits \in [Conns -> SUBSET Conns]
    /\ announced \in [Conns -> {"none", "store", "sent", "dropped", "routed"}]
    /\ inbox \in [Brokers -> Seq(Conns)]
    /\ kicked \in SUBSET (Conns \X Conns) /\ past \in SUBSET (Conns \X Conns)

\* Each broker hands a client id over as it promises, whatever the others
\* announce and whoever stops: every step is one of Handover or changes
\* nothing of it.
HandoverSteps == [][Takeover!Next]_(Takeover!vars)

\* Two brokers that have a client of the same id, and have heard of each
\* other's, do not both have an open one: in whatever order they were
\* announced, one was closed or replaced.
OneBrokerPerId ==
    \A c, d \in clients :
        (/\ Id[c] = Id[d] /\ Home[c] # Home[d]
         /\ up[Home[c]] = "up" /\ up[Home[d]] = "up"
         /\ Known(Home[d], c) /\ Known(Home[c], d))
        => ~(Open(c) /\ Open(d))

\* An announcement closes only a client of another broker with the same id,
\* and none that was announced after it had come: of two clients that connect
\* one after the other, the later stays.
KickedByRival ==
    \A k \in kicked :
        /\ Id[k[1]] = Id[k[2]] /\ Home[k[1]] # Home[k[2]]
        /\ k \notin past
=============================================================================
