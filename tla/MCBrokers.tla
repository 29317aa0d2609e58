----------------------------- MODULE MCBrokers -----------------------------
(***************************************************************************)
(* Small instances of Publishing and of Cluster, in one run: the two views *)
(* of the brokers have no steps in common, and the initial state chooses.  *)
(***************************************************************************)
EXTENDS Publishing, Cluster

CONSTANTS Views, b1, b2, c1, c2, c3

VARIABLE view

vars == <<view, up, conn, publishingVars, clusterVars>>

MCHome == [c \in Conns |-> IF c = c3 THEN b2 ELSE b1]
MCId == [c \in Conns |-> "id"]

\* A retained packet whose QoS may have to be lowered, and its deletion.
Retained == [qos |-> 2, retain |-> TRUE, empty |-> FALSE]
Deletion == [qos |-> 0, retain |-> TRUE, empty |-> TRUE]
MCPackets == {Retained, Deletion}
MCWills == {Retained}

Init ==
    /\ view \in Views
    /\ \/ view = "publishing" /\ PublishingInit /\ NothingAnnounced
       \/ view = "cluster" /\ ClusterInit /\ NothingPublished /\ mode = CHOOSE m \in Modes : TRUE

Next ==
    \/ view = "publishing" /\ PublishingNext /\ UNCHANGED <<view, clusterVars>>
    \/ view = "cluster" /\ ClusterNext /\ UNCHANGED <<view, publishingVars>>

\* authorizePublish, the persistence and the ascoltatore answer in the end.
\* One condition is enough, as the answers are finite in number.
Fairness == WF_vars((\E n \in Pubs : Answer(n)) /\ UNCHANGED <<view, clusterVars>>)

Spec == Init /\ [][Next]_vars /\ Fairness
=============================================================================
