---------------------------- MODULE ClusterProofs ----------------------------
(***************************************************************************)
(* Proofs about Cluster, for any brokers, connections and ids: two brokers *)
(* that have heard of each other's client do not both keep it, and a later *)
(* client is not closed for an earlier one.                                *)
(***************************************************************************)
EXTENDS Cluster, Integers, TLAPS

clusterState == <<up, conn, clusterVars>>

-----------------------------------------------------------------------------
(* The inductive invariant *)

\* A connection is announced once, when its session is restored.
Early == \A c \in Conns : conn[c] \in {"idle", "waiting"} => announced[c] = "none" /\ c \notin restoring
Unannounced == \A c \in restoring : announced[c] = "none"
Registered == \A c \in clients : announced[c] # "none"

\* What had come to the broker of a client stays known there.
PastKnown == \A k \in past : announced[k[1]] # "none" /\ Known(Home[k[1]], k[2])

\* Of two connections only one can have been announced after that of the
\* other had come.
PastOneWay == \A k \in past : <<k[2], k[1]>> \notin past

\* An open client that its broker has, and whose rival has come there, was
\* announced after that.
Heard ==
    \A c \in clients, d \in Conns :
        (Open(c) /\ Id[c] = Id[d] /\ Home[d] # Home[c] /\ up[Home[c]] # "closed" /\ Known(Home[c], d))
        => <<c, d>> \in past

\* Those that were closed had been announced, and see KickedByRival.
KickedKnown == \A k \in kicked : announced[k[1]] # "none"

\* A newcomer waits for clients that it closed.
Waited == \A c \in Conns : \A d \in waits[c] : conn[d] \in {"closing", "stopping", "closed"}

Announcements == Early /\ Unannounced /\ Registered
Pasts == PastKnown /\ PastOneWay

IInv == ClusterTypeOK /\ Announcements /\ Pasts /\ Heard /\ KickedKnown /\ KickedByRival /\ Waited

ConnStates == {"idle", "waiting", "open", "closing", "stopping", "closed"}
Announced == {"none", "store", "sent", "dropped", "routed"}

-----------------------------------------------------------------------------
(* Parts of actions *)

\* Client.close leaves a connection as it is or ends its being open.
LEMMA ClosedTyped ==
    ASSUME NEW D, NEW Q, NEW how \in {"closing", "stopping"}, conn \in [Conns -> ConnStates]
    PROVE  /\ Closed(D, Q, how) \in [Conns -> ConnStates]
           /\ \A c \in Conns : Closed(D, Q, how)[c] = conn[c]
                  \/ Closed(D, Q, how)[c] \in {"closing", "stopping", "closed"}
           /\ \A c \in Conns : Closed(D, Q, how)[c] = "open" => c \notin D
  BY DEF Closed, Open, ConnStates

LEMMA CloseClientsTyped ==
    ASSUME NEW D, NEW how \in {"closing", "stopping"}, CloseClients(D, how), conn \in [Conns -> ConnStates]
    PROVE  /\ conn' \in [Conns -> ConnStates]
           /\ clients' \subseteq clients
           /\ \A c \in Conns : conn'[c] = conn[c] \/ conn'[c] \in {"closing", "stopping", "closed"}
           /\ \A c \in Conns : conn'[c] = "open" => c \notin D
  BY ClosedTyped DEF CloseClients

\* What has come to a broker is not on its way any more, and stays known when
\* the broker takes another announcement.
LEMMA TailSeq ==
    ASSUME NEW s \in Seq(Conns), s # <<>>
    PROVE  /\ Tail(s) \in Seq(Conns) /\ Head(s) \in Conns
           /\ \A k \in DOMAIN Tail(s) : k + 1 \in DOMAIN s /\ Tail(s)[k] = s[k + 1]
           /\ \A k \in DOMAIN s : s[k] = Head(s) \/ \E j \in DOMAIN Tail(s) : Tail(s)[j] = s[k]
           /\ 1 \in DOMAIN s /\ s[1] = Head(s)
<1>1. /\ Tail(s) \in Seq(Conns) /\ Head(s) \in Conns
      /\ \A k \in DOMAIN Tail(s) : k + 1 \in DOMAIN s /\ Tail(s)[k] = s[k + 1]
      /\ 1 \in DOMAIN s /\ s[1] = Head(s)
  OBVIOUS
<1>2. ASSUME NEW k \in DOMAIN s, k # 1
      PROVE  k - 1 \in DOMAIN Tail(s) /\ Tail(s)[k - 1] = s[k]
  BY <1>2
<1> QED  BY <1>1, <1>2

LEMMA AppendSeq ==
    ASSUME NEW s \in Seq(Conns), NEW c \in Conns
    PROVE  /\ Append(s, c) \in Seq(Conns)
           /\ \A k \in DOMAIN s : k \in DOMAIN Append(s, c) /\ Append(s, c)[k] = s[k]
           /\ \E k \in DOMAIN Append(s, c) : Append(s, c)[k] = c
           /\ \A k \in DOMAIN Append(s, c) : k \in DOMAIN s \/ Append(s, c)[k] = c
  OBVIOUS

\* The steps that close clients and change nothing of announcements but what
\* is on its way.
CloseClientsStep ==
    /\ \E D \in SUBSET Conns, how \in {"closing", "stopping"} : CloseClients(D, how)
    /\ UNCHANGED <<restoring, waits, announced>>

LEMMA CloseSteps ==
    ASSUME clients \subseteq Conns
    PROVE  /\ \A c \in Conns : Leave(c) => CloseClientsStep
           /\ \A b \in Brokers : Kick(b) \/ BrokerClose(b) => CloseClientsStep
<1>1. ASSUME NEW c \in Conns, Leave(c) PROVE CloseClientsStep
  <2>1. CloseClients({c}, "closing") /\ {c} \in SUBSET Conns
    BY <1>1 DEF Leave
  <2> QED  BY <1>1, <2>1 DEF Leave, CloseClientsStep
<1>2. ASSUME NEW b \in Brokers, Kick(b) PROVE CloseClientsStep
  <2>1. CloseClients(Rivals(b, Head(inbox[b])), "closing") /\ Rivals(b, Head(inbox[b])) \in SUBSET Conns
    BY <1>2 DEF Kick, Rivals
  <2> QED  BY <1>2, <2>1 DEF Kick, CloseClientsStep
<1>3. ASSUME NEW b \in Brokers, BrokerClose(b) PROVE CloseClientsStep
  <2>1. CloseClients({c \in clients : Home[c] = b}, "stopping") /\ {c \in clients : Home[c] = b} \in SUBSET Conns
    BY <1>3 DEF BrokerClose
  <2> QED  BY <1>3, <2>1 DEF BrokerClose, CloseClientsStep
<1> QED  BY <1>1, <1>2, <1>3

-----------------------------------------------------------------------------
(* Types *)

LEMMA TypesKept ==
    ASSUME ClusterTypeOK, [ClusterNext]_clusterState
    PROVE  ClusterTypeOK'
<1> USE ServersAssumption
<1>0. /\ up \in [Brokers -> {"up", "closing", "closed"}]
      /\ conn \in [Conns -> ConnStates]
      /\ announced \in [Conns -> Announced]
      /\ inbox \in [Brokers -> Seq(Conns)]
      /\ waits \in [Conns -> SUBSET Conns]
      /\ restoring \subseteq Conns /\ clients \subseteq Conns
      /\ kicked \subseteq Conns \X Conns /\ past \subseteq Conns \X Conns
  BY DEF ClusterTypeOK, ServersTypeOK, ConnStates, Announced
<1> DEFINE Typed ==
             /\ up' \in [Brokers -> {"up", "closing", "closed"}]
             /\ conn' \in [Conns -> ConnStates]
             /\ announced' \in [Conns -> Announced]
             /\ inbox' \in [Brokers -> Seq(Conns)]
             /\ waits' \in [Conns -> SUBSET Conns]
             /\ restoring' \subseteq Conns /\ clients' \subseteq Conns
             /\ kicked' \subseteq Conns \X Conns /\ past' \subseteq Conns \X Conns
<1> SUFFICES Typed
  BY DEF ClusterTypeOK, ServersTypeOK, ConnStates, Announced
<1>1. CASE UNCHANGED clusterState
  BY <1>0, <1>1 DEF clusterState, clusterVars
<1>2. ASSUME NEW c \in Conns, Connect(c) PROVE Typed
  <2>1. conn' \in [Conns -> ConnStates]
    BY <1>0, <1>2, ClosedTyped DEF Connect, ConnStates
  <2>2. waits' \in [Conns -> SUBSET Conns]
    BY <1>0, <1>2 DEF Connect
  <2> QED  BY <1>0, <1>2, <2>1, <2>2 DEF Connect, observers
<1>3. ASSUME NEW c \in Conns, Complete(c) PROVE Typed
  BY <1>0, <1>3 DEF Complete, observers, ConnStates
<1>4. ASSUME NEW c \in Conns, Announce(c) PROVE Typed
  BY <1>0, <1>4 DEF Announce, Announced
<1>5. ASSUME NEW c \in Conns, Leave(c) PROVE Typed
  BY <1>0, <1>5, CloseClientsTyped DEF Leave, observers
<1>6. ASSUME NEW c \in Conns, Unregister(c) PROVE Typed
  BY <1>0, <1>6 DEF Unregister, observers, ConnStates
<1>7. ASSUME NEW c \in Conns, AnnouncementStored(c) PROVE Typed
  BY <1>0, <1>7 DEF AnnouncementStored, observers, Announced
<1>8. ASSUME NEW c \in Conns, RouteAnnouncement(c) PROVE Typed
  <2>1. inbox' \in [Brokers -> Seq(Conns)]
    BY <1>0, <1>8, AppendSeq DEF RouteAnnouncement
  <2> QED  BY <1>0, <1>8, <2>1 DEF RouteAnnouncement, observers, Announced
<1>9. ASSUME NEW b \in Brokers, Kick(b) PROVE Typed
  <2>1. inbox' \in [Brokers -> Seq(Conns)] /\ Head(inbox[b]) \in Conns
    BY <1>0, <1>9, TailSeq DEF Kick
  <2>2. conn' \in [Conns -> ConnStates] /\ clients' \subseteq clients
    BY <1>0, <1>9, CloseClientsTyped DEF Kick
  <2>3. kicked' \subseteq Conns \X Conns
    BY <1>0, <1>9, <2>1 DEF Kick, Rivals
  <2> QED  BY <1>0, <1>9, <2>1, <2>2, <2>3 DEF Kick
<1>10. ASSUME NEW b \in Brokers, BrokerClose(b) PROVE Typed
  BY <1>0, <1>10, CloseClientsTyped DEF BrokerClose, observers
<1>11. ASSUME NEW b \in Brokers, BrokerClosed(b) PROVE Typed
  BY <1>0, <1>11 DEF BrokerClosed, observers
<1> QED
  BY <1>1, <1>2, <1>3, <1>4, <1>5, <1>6, <1>7, <1>8, <1>9, <1>10, <1>11 DEF ClusterNext

-----------------------------------------------------------------------------
(* What has come to a broker *)

\* An announcement that a broker takes is the only one that comes to it.
LEMMA KnownKept ==
    ASSUME ClusterTypeOK, Unannounced, [ClusterNext]_clusterState,
           NEW x \in Brokers, NEW d \in Conns
    PROVE  /\ Known(x, d) => Known(x, d)'
           /\ Known(x, d)' => \/ Known(x, d)
                              \/ up'[x] = "closed"
                              \/ Kick(x) /\ d = Head(inbox[x])
<1> DEFINE Kept == /\ Known(x, d) => Known(x, d)'
                   /\ Known(x, d)' => \/ Known(x, d)
                                      \/ up'[x] = "closed"
                                      \/ Kick(x) /\ d = Head(inbox[x])
<1> SUFFICES Kept
  OBVIOUS
<1>0. /\ announced \in [Conns -> Announced]
      /\ inbox \in [Brokers -> Seq(Conns)] /\ inbox[x] \in Seq(Conns)
      /\ up \in [Brokers -> {"up", "closing", "closed"}]
  BY DEF ClusterTypeOK, ServersTypeOK, Announced
<1>1. CASE UNCHANGED <<announced, inbox>>
  BY <1>1 DEF Known
<1>2. ASSUME NEW c \in Conns, Announce(c) PROVE Kept
  BY <1>0, <1>2 DEF Announce, Known, Unannounced
<1>3. ASSUME NEW c \in Conns, AnnouncementStored(c) PROVE Kept
  BY <1>0, <1>3 DEF AnnouncementStored, Known
<1>4. ASSUME NEW c \in Conns, RouteAnnouncement(c) PROVE Kept
  <2>1. announced[c] = "sent" /\ announced' = [announced EXCEPT ![c] = "routed"]
    BY <1>4 DEF RouteAnnouncement
  <2>2. up' = up
    BY <1>4 DEF RouteAnnouncement
  <2>3. CASE up[x] = "closed"
    <3>1. inbox'[x] = inbox[x]
      BY <1>4, <2>3 DEF RouteAnnouncement
    <3> QED  BY <1>0, <2>1, <2>2, <2>3, <3>1 DEF Known
  <2>4. CASE up[x] # "closed"
    <3>1. inbox'[x] = Append(inbox[x], c)
      BY <1>4, <2>4 DEF RouteAnnouncement
    <3>2. CASE d = c
      <4>1. ~Known(x, d) /\ ~Known(x, d)'
        <5>1. PICK k \in DOMAIN inbox'[x] : inbox'[x][k] = d
          BY <1>0, <3>1, <3>2, AppendSeq
        <5>2. ~Known(x, d)'
          BY <5>1 DEF Known
        <5>3. ~Known(x, d)
          BY <2>1, <3>2 DEF Known
        <5> QED  BY <5>2, <5>3
      <4> QED  BY <4>1
    <3>3. CASE d # c
      <4>1. Known(x, d)' = Known(x, d)
        BY <1>0, <2>1, <3>1, <3>3, AppendSeq DEF Known
      <4> QED  BY <4>1
    <3> QED  BY <3>2, <3>3
  <2> QED  BY <2>3, <2>4
<1>5. ASSUME NEW b \in Brokers, Kick(b) PROVE Kept
  <2>1. announced' = announced /\ inbox' = [inbox EXCEPT ![b] = Tail(@)] /\ inbox[b] # <<>>
    BY <1>5 DEF Kick
  <2>2. CASE x # b
    BY <1>0, <2>1, <2>2 DEF Known
  <2>3. CASE x = b
    <3>1. inbox'[x] = Tail(inbox[x]) /\ inbox[x] # <<>>
      BY <1>0, <2>1, <2>3
    <3>2. Known(x, d) => Known(x, d)'
      BY <1>0, <2>1, <3>1, TailSeq DEF Known
    <3>3. Known(x, d)' => Known(x, d) \/ d = Head(inbox[x])
      <4> SUFFICES ASSUME Known(x, d)', ~Known(x, d) PROVE d = Head(inbox[x])
        OBVIOUS
      <4>1. PICK k \in DOMAIN inbox[x] : inbox[x][k] = d
        BY <2>1 DEF Known
      <4>2. \A j \in DOMAIN Tail(inbox[x]) : Tail(inbox[x])[j] # d
        BY <3>1 DEF Known
      <4> QED  BY <1>0, <3>1, <4>1, <4>2, TailSeq
    <3> QED  BY <1>5, <2>3, <3>2, <3>3
  <2> QED  BY <2>2, <2>3
<1>6. ASSUME NEW b \in Brokers, BrokerClosed(b) PROVE Kept
  BY <1>0, <1>6 DEF BrokerClosed, Known
<1> QED
  BY <1>1, <1>2, <1>3, <1>4, <1>5, <1>6 DEF ClusterNext, clusterState, clusterVars,
     Connect, Complete, Leave, Unregister, BrokerClose

-----------------------------------------------------------------------------
(* Announcements, and who was first *)

LEMMA AnnouncementsKept ==
    ASSUME ClusterTypeOK, Announcements, [ClusterNext]_clusterState
    PROVE  Announcements'
<1>0. /\ conn \in [Conns -> ConnStates]
      /\ announced \in [Conns -> Announced]
      /\ restoring \subseteq Conns /\ clients \subseteq Conns
  BY DEF ClusterTypeOK, ServersTypeOK, ConnStates, Announced
<1>1. CASE UNCHANGED clusterState
  BY <1>1 DEF clusterState, clusterVars, Announcements, Early, Unannounced, Registered
<1>2. ASSUME NEW c \in Conns, Connect(c) PROVE Announcements'
  <2>1. \A d \in Conns \ {c} : conn'[d] = conn[d] \/ conn'[d] \in {"closing", "stopping", "closed"}
    BY <1>0, <1>2, ClosedTyped DEF Connect
  <2>2. conn[c] = "idle"
    BY <1>2 DEF Connect
  <2>3. clients' \subseteq clients /\ announced' = announced /\ restoring' = restoring
    BY <1>2 DEF Connect
  <2>4. Early'
    BY <2>1, <2>2, <2>3 DEF Announcements, Early
  <2> QED  BY <2>3, <2>4 DEF Announcements, Unannounced, Registered
<1>3. ASSUME NEW c \in Conns, Complete(c) PROVE Announcements'
  BY <1>0, <1>3 DEF Complete, Announcements, Early, Unannounced, Registered
<1>4. ASSUME NEW c \in Conns, Announce(c) PROVE Announcements'
  BY <1>0, <1>4 DEF Announce, Announcements, Early, Unannounced, Registered
<1>5. ASSUME CloseClientsStep PROVE Announcements'
  BY <1>0, <1>5, CloseClientsTyped
     DEF CloseClientsStep, Announcements, Early, Unannounced, Registered
<1>6. ASSUME NEW c \in Conns, Unregister(c) PROVE Announcements'
  BY <1>0, <1>6 DEF Unregister, Announcements, Early, Unannounced, Registered
<1>7. ASSUME NEW c \in Conns, AnnouncementStored(c) PROVE Announcements'
  BY <1>0, <1>7 DEF AnnouncementStored, Announcements, Early, Unannounced, Registered
<1>8. ASSUME NEW c \in Conns, RouteAnnouncement(c) PROVE Announcements'
  BY <1>0, <1>8 DEF RouteAnnouncement, Announcements, Early, Unannounced, Registered
<1>9. ASSUME NEW b \in Brokers, BrokerClosed(b) PROVE Announcements'
  BY <1>9 DEF BrokerClosed, Announcements, Early, Unannounced, Registered
<1> QED
  BY <1>1, <1>2, <1>3, <1>4, <1>5, <1>6, <1>7, <1>8, <1>9, <1>0, CloseSteps DEF ClusterNext

LEMMA PastsKept ==
    ASSUME ClusterTypeOK, Announcements, Pasts, [ClusterNext]_clusterState
    PROVE  Pasts'
<1>0. /\ announced \in [Conns -> Announced] /\ past \subseteq Conns \X Conns
      /\ restoring \subseteq Conns
  BY DEF ClusterTypeOK, Announced
<1>1. \A x \in Brokers, d \in Conns : Known(x, d) => Known(x, d)'
  BY KnownKept DEF Announcements
<1>2. \A d \in Conns : announced[d] # "none" => announced'[d] # "none"
  BY <1>0 DEF ClusterNext, clusterState, clusterVars, Connect, Complete, Announce, Leave, Unregister,
     AnnouncementStored, RouteAnnouncement, Kick, BrokerClose, BrokerClosed
<1>3. CASE past' = past
  BY <1>0, <1>1, <1>2, <1>3, ServersAssumption DEF Pasts, PastKnown, PastOneWay
<1>4. ASSUME NEW c \in Conns, Announce(c) PROVE Pasts'
  <2>1. /\ past' = past \cup {<<c, d>> : d \in {e \in Conns : Home[e] # Home[c] /\ Known(Home[c], e)}}
        /\ announced[c] = "none" /\ announced'[c] = "store"
    BY <1>0, <1>4 DEF Announce, Announcements, Unannounced
  <2>2. ASSUME NEW k \in past' \ past
        PROVE  k[1] = c /\ k[2] \in Conns /\ Known(Home[c], k[2]) /\ announced[k[2]] = "routed" /\ k = <<c, k[2]>>
    BY <2>1 DEF Known
  <2>3. PastKnown'
    BY <1>0, <1>1, <1>2, <2>1, <2>2, ServersAssumption DEF Pasts, PastKnown
  <2>4. \A k \in past : announced[k[1]] # "none" /\ announced[k[2]] = "routed" /\ k = <<k[1], k[2]>>
    BY <1>0 DEF Pasts, PastKnown, Known
  <2>5. ASSUME NEW k \in past', <<k[2], k[1]>> \in past' PROVE FALSE
    <3>1. CASE k \in past /\ <<k[2], k[1]>> \in past
      BY <3>1 DEF Pasts, PastOneWay
    <3>2. CASE k \in past /\ <<k[2], k[1]>> \notin past
      <4>1. k[2] = c
        BY <2>2, <2>5, <3>2
      <4> QED  BY <2>1, <2>4, <3>2, <4>1
    <3>3. CASE k \notin past /\ <<k[2], k[1]>> \in past
      <4>1. k[1] = c
        BY <2>2, <3>3
      <4> QED  BY <2>1, <2>4, <3>3, <4>1
    <3>4. CASE k \notin past /\ <<k[2], k[1]>> \notin past
      <4>1. k[1] = c /\ k[2] = c
        BY <2>2, <2>5, <3>4
      <4> QED  BY <2>1, <2>2, <3>4, <4>1
    <3> QED  BY <3>1, <3>2, <3>3, <3>4
  <2> QED  BY <2>3, <2>5 DEF Pasts, PastOneWay
<1> QED
  BY <1>3, <1>4 DEF ClusterNext, clusterState, clusterVars, observers, Connect, Complete, Leave, Unregister,
     AnnouncementStored, RouteAnnouncement, Kick, BrokerClose, BrokerClosed

LEMMA HeardKept ==
    ASSUME ClusterTypeOK, Announcements, Heard, [ClusterNext]_clusterState
    PROVE  Heard'
<1>0. /\ conn \in [Conns -> ConnStates] /\ announced \in [Conns -> Announced]
      /\ up \in [Brokers -> {"up", "closing", "closed"}]
      /\ clients \subseteq Conns /\ restoring \subseteq Conns
  BY DEF ClusterTypeOK, ServersTypeOK, ConnStates, Announced
<1>1. past \subseteq past'
  BY DEF ClusterNext, clusterState, clusterVars, observers, Connect, Complete, Announce, Leave, Unregister,
     AnnouncementStored, RouteAnnouncement, Kick, BrokerClose, BrokerClosed
<1>2. \A b \in Brokers : up'[b] # "closed" => up[b] # "closed"
  BY <1>0 DEF ClusterNext, clusterState, clusterVars, observers, Connect, Complete, Announce, Leave, Unregister,
     AnnouncementStored, RouteAnnouncement, Kick, BrokerClose, BrokerClosed
<1> SUFFICES ASSUME NEW c \in clients', NEW d \in Conns, Open(c)', Id[c] = Id[d], Home[d] # Home[c],
                    up'[Home[c]] # "closed", Known(Home[c], d)'
             PROVE  <<c, d>> \in past'
  BY DEF Heard
<1>3. c \in Conns /\ Home[c] \in Brokers /\ conn'[c] = "open"
  <2>1. clients' \subseteq Conns
    BY TypesKept DEF ClusterTypeOK
  <2> QED  BY <2>1, ServersAssumption DEF Open
<1>4. CASE Announce(c)
  <2>1. Known(Home[c], d)
    BY <1>0, <1>3, <1>4 DEF Announce, Known
  <2> QED  BY <1>4, <2>1 DEF Announce
<1>5. CASE ~Announce(c)
  <2>1. c \in clients
    <3>1. CASE clients' \subseteq clients
      BY <3>1
    <3>2. ASSUME NEW e \in Conns, Announce(e) PROVE c \in clients
      BY <1>5, <3>2 DEF Announce
    <3>3. (\A e \in Conns : ~Announce(e)) => clients' \subseteq clients
      <4>1. CloseClientsStep => clients' \subseteq clients
        BY <1>0, CloseClientsTyped DEF CloseClientsStep
      <4> QED
        BY <1>0, <4>1, CloseSteps DEF ClusterNext, clusterState, clusterVars, Connect, Complete, Unregister,
           AnnouncementStored, RouteAnnouncement, BrokerClosed
    <3> QED  BY <3>1, <3>2, <3>3
  <2>2. conn[c] \notin {"idle", "waiting"}
    BY <1>0, <1>3, <2>1 DEF Announcements, Early, Registered
  <2>3. Open(c)
    <3>1. ASSUME NEW e \in Conns, Connect(e) PROVE conn[c] = "open"
      <4>1. e # c
        BY <2>2, <3>1 DEF Connect
      <4> DEFINE N == Closed(clients \cap Same(e), Unsubscribed, "closing")
      <4>2. N \in [Conns -> ConnStates] /\ (N[c] = conn[c] \/ N[c] \in {"closing", "stopping", "closed"})
        BY <1>0, <1>3, ClosedTyped
      <4>3. conn' = [N EXCEPT ![e] = "waiting"]
        BY <3>1 DEF Connect
      <4> HIDE DEF N
      <4>4. conn'[c] = N[c]
        BY <1>3, <4>1, <4>2, <4>3
      <4> QED  BY <1>3, <4>2, <4>4
    <3>2. ASSUME CloseClientsStep PROVE conn[c] = "open"
      BY <1>0, <1>3, <3>2, CloseClientsTyped DEF CloseClientsStep
    <3>3. ASSUME NEW e \in Conns, Complete(e) \/ Unregister(e) PROVE conn[c] = "open"
      BY <1>0, <1>3, <2>2, <3>3 DEF Complete, Unregister
    <3>4. ASSUME conn' = conn PROVE conn[c] = "open"
      BY <1>3, <3>4
    <3> QED
      BY <1>0, <3>1, <3>2, <3>3, <3>4, CloseSteps DEF ClusterNext, clusterState, clusterVars, Open, Announce,
         AnnouncementStored, RouteAnnouncement, BrokerClosed
  <2>4. CASE Known(Home[c], d)
    BY <1>1, <1>2, <1>3, <2>1, <2>3, <2>4 DEF Heard
  <2>5. CASE Kick(Home[c]) /\ d = Head(inbox[Home[c]])
    <3>1. c \in Rivals(Home[c], d)
      BY <2>1 DEF Rivals
    <3>2. CloseClients(Rivals(Home[c], d), "closing")
      BY <2>5 DEF Kick
    <3>3. conn'[c] # "open"
      BY <1>0, <1>3, <3>1, <3>2, CloseClientsTyped
    <3> QED  BY <1>3, <3>3
  <2> QED  BY <1>3, <2>4, <2>5, KnownKept DEF Announcements
<1> QED  BY <1>4, <1>5

LEMMA KickedKept ==
    ASSUME ClusterTypeOK, Announcements, Pasts, KickedKnown, KickedByRival, [ClusterNext]_clusterState
    PROVE  KickedKnown' /\ KickedByRival'
<1>0. /\ announced \in [Conns -> Announced]
      /\ inbox \in [Brokers -> Seq(Conns)]
      /\ restoring \subseteq Conns /\ clients \subseteq Conns
      /\ kicked \subseteq Conns \X Conns /\ past \subseteq Conns \X Conns
  BY DEF ClusterTypeOK, Announced
<1>1. \A d \in Conns : announced[d] # "none" => announced'[d] # "none"
  BY <1>0 DEF ClusterNext, clusterState, clusterVars, observers, Connect, Complete, Announce, Leave, Unregister,
     AnnouncementStored, RouteAnnouncement, Kick, BrokerClose, BrokerClosed
<1>2. CASE UNCHANGED <<kicked, past>>
  BY <1>0, <1>1, <1>2 DEF KickedKnown, KickedByRival
<1>3. ASSUME NEW c \in Conns, Announce(c) PROVE KickedKnown' /\ KickedByRival'
  <2>1. /\ kicked' = kicked /\ announced[c] = "none"
        /\ past' = past \cup {<<c, d>> : d \in {e \in Conns : Home[e] # Home[c] /\ Known(Home[c], e)}}
    BY <1>3 DEF Announce, Announcements, Unannounced
  <2>2. \A k \in kicked : k[1] # c
    BY <2>1 DEF KickedKnown
  <2>3. KickedKnown'
    BY <1>0, <1>1, <2>1 DEF KickedKnown
  <2>4. \A k \in kicked : k \notin past'
    BY <2>1, <2>2 DEF KickedByRival
  <2> QED  BY <2>1, <2>3, <2>4 DEF KickedByRival
<1>4. ASSUME NEW b \in Brokers, Kick(b) PROVE KickedKnown' /\ KickedByRival'
  <2> DEFINE d == Head(inbox[b])
  <2>1. /\ kicked' = kicked \cup {<<c, d>> : c \in {e \in Rivals(b, d) : Open(e)}}
        /\ past' = past /\ announced' = announced /\ inbox[b] # <<>>
    BY <1>4 DEF Kick
  <2>2. d \in Conns /\ ~Known(b, d)
    BY <1>0, <2>1, TailSeq DEF Known
  <2>3. ASSUME NEW c \in Rivals(b, d)
        PROVE  c \in Conns /\ announced[c] # "none" /\ Home[c] = b /\ Id[c] = Id[d] /\ Home[d] # b
    BY <1>0 DEF Rivals, Announcements, Registered
  <2>4. ASSUME NEW c \in Rivals(b, d) PROVE <<c, d>> \notin past
    BY <2>2, <2>3 DEF Pasts, PastKnown
  <2>5. KickedKnown'
    BY <2>1, <2>3 DEF KickedKnown
  <2>6. KickedByRival'
    BY <2>1, <2>3, <2>4 DEF KickedByRival
  <2> QED  BY <2>5, <2>6
<1> QED
  BY <1>2, <1>3, <1>4 DEF ClusterNext, clusterState, clusterVars, observers, Connect, Complete, Leave,
     Unregister, AnnouncementStored, RouteAnnouncement, BrokerClose, BrokerClosed

-----------------------------------------------------------------------------
(* The handover of a client id *)

ShutStates == {"closing", "stopping", "closed"}

\* A connection that is closing does not open again.
LEMMA ShutStays ==
    ASSUME ClusterTypeOK, [ClusterNext]_clusterState, NEW d \in Conns, conn[d] \in ShutStates
    PROVE  conn'[d] \in ShutStates /\ (conn[d] = "closed" => conn'[d] = "closed")
<1> DEFINE Stays == conn'[d] \in ShutStates /\ (conn[d] = "closed" => conn'[d] = "closed")
<1> SUFFICES Stays
  OBVIOUS
<1>0. conn \in [Conns -> ConnStates] /\ clients \subseteq Conns
  BY DEF ClusterTypeOK, ServersTypeOK, ConnStates
<1>1. CASE conn' = conn
  BY <1>1
<1>2. ASSUME NEW c \in Conns, Connect(c) PROVE Stays
  <2>1. conn[c] = "idle" /\ conn' = [Closed(clients \cap Same(c), Unsubscribed, "closing") EXCEPT ![c] = "waiting"]
    BY <1>2 DEF Connect
  <2>2. d # c
    BY <2>1 DEF ShutStates
  <2> QED  BY <1>0, <2>1, <2>2 DEF Closed, Open, ShutStates
<1>3. ASSUME NEW c \in Conns, Complete(c) PROVE Stays
  BY <1>0, <1>3 DEF Complete, ShutStates
<1>4. ASSUME CloseClientsStep PROVE Stays
  BY <1>0, <1>4 DEF CloseClientsStep, CloseClients, Closed, Open, ShutStates
<1>5. ASSUME NEW c \in Conns, Unregister(c) PROVE Stays
  BY <1>0, <1>5 DEF Unregister, Closing, ShutStates
<1> QED
  BY <1>0, <1>1, <1>2, <1>3, <1>4, <1>5, CloseSteps
     DEF ClusterNext, clusterState, clusterVars, Announce, AnnouncementStored, RouteAnnouncement, BrokerClosed

LEMMA WaitedKept ==
    ASSUME ClusterTypeOK, Waited, [ClusterNext]_clusterState
    PROVE  Waited'
<1>0. waits \in [Conns -> SUBSET Conns] /\ conn \in [Conns -> ConnStates] /\ clients \subseteq Conns
  BY DEF ClusterTypeOK, ServersTypeOK, ConnStates
<1>1. \A c \in Conns : \A d \in waits[c] : conn'[d] \in {"closing", "stopping", "closed"}
  BY <1>0, ShutStays DEF Waited, ShutStates
<1>2. CASE \A c \in Conns : waits'[c] \subseteq waits[c]
  BY <1>1, <1>2 DEF Waited
<1>3. ASSUME NEW c \in Conns, Connect(c) PROVE Waited'
  <2> DEFINE old == clients \cap Same(c)
  <2>1. /\ conn[c] = "idle"
        /\ conn' = [Closed(old, Unsubscribed, "closing") EXCEPT ![c] = "waiting"]
        /\ waits' = [waits EXCEPT ![c] = {d \in old : Open(d)}]
    BY <1>3 DEF Connect
  <2>2. ASSUME NEW d \in old, Open(d) PROVE conn'[d] \in {"closing", "stopping", "closed"}
    <3>1. d # c /\ d \in Conns
      BY <1>0, <2>1, <2>2 DEF Open
    <3> QED  BY <1>0, <2>1, <2>2, <3>1 DEF Closed
  <2> QED  BY <1>0, <1>1, <2>1, <2>2 DEF Waited
<1>4. ASSUME NEW c \in Conns, Complete(c) PROVE Waited'
  <2>1. \A d \in Conns : waits'[d] \subseteq waits[d]
    BY <1>0, <1>4 DEF Complete
  <2> QED  BY <1>2, <2>1
<1> QED
  BY <1>2, <1>3, <1>4 DEF ClusterNext, clusterState, clusterVars, Announce, Leave, Unregister,
     AnnouncementStored, RouteAnnouncement, Kick, BrokerClose, BrokerClosed

-----------------------------------------------------------------------------
(* Theorems *)

LEMMA Starts == ClusterInit => IInv
  BY ServersAssumption
     DEF ClusterInit, NothingAnnounced, IInv, ClusterTypeOK, ServersTypeOK, Announcements, Early, Unannounced,
         Registered, Pasts, PastKnown, PastOneWay, Heard, KickedKnown, KickedByRival, Waited

LEMMA Steps == IInv /\ [ClusterNext]_clusterState => IInv'
  BY TypesKept, AnnouncementsKept, PastsKept, HeardKept, KickedKept, WaitedKept DEF IInv

THEOREM Invariant == ClusterSpec => []IInv
<1>1. ClusterSpec => ClusterInit /\ [][ClusterNext]_clusterState
  BY DEF ClusterSpec, clusterState
<1> QED  BY <1>1, Starts, Steps, PTL

\* The registries, connections and announcements keep their types.
THEOREM TypesCorrect == ClusterSpec => []ClusterTypeOK
<1>1. IInv => ClusterTypeOK
  BY DEF IInv
<1> QED  BY <1>1, Invariant, PTL

LEMMA OneStays == IInv => OneBrokerPerId
<1> SUFFICES ASSUME IInv, NEW c \in clients, NEW d \in clients,
                    Id[c] = Id[d], Home[c] # Home[d], up[Home[c]] = "up", up[Home[d]] = "up",
                    Known(Home[d], c), Known(Home[c], d), Open(c), Open(d)
             PROVE  FALSE
  BY DEF OneBrokerPerId
<1>1. c \in Conns /\ d \in Conns
  BY DEF IInv, ClusterTypeOK
<1>2. <<c, d>> \in past /\ <<d, c>> \in past
  BY <1>1 DEF IInv, Heard
<1> QED  BY <1>2 DEF IInv, Pasts, PastOneWay

\* Of two brokers that have heard of each other's client of one id, one has
\* closed or replaced it.
THEOREM OneBrokerKeepsIt == ClusterSpec => []OneBrokerPerId
  BY Invariant, OneStays, PTL

\* A client is closed for another only if that has its id, at another broker,
\* and had not come before the client was announced.
THEOREM LaterStays == ClusterSpec => []KickedByRival
<1>1. IInv => KickedByRival
  BY DEF IInv
<1> QED  BY <1>1, Invariant, PTL

-----------------------------------------------------------------------------
\* What the mapping makes of a step.
LEMMA Mapped ==
    ASSUME IInv, [ClusterNext]_clusterState
    PROVE  /\ key' = key /\ key \in [Conns -> Brokers \X {Id[c] : c \in Conns}]
           /\ \A c, d \in Conns : key[c] = key[d] <=> c \in Same(d)
           /\ status \in [Conns -> Takeover!States] /\ status' \in [Conns -> Takeover!States]
           /\ \A c \in Conns : conn[c] \notin {"closing", "stopping"} => status[c] = conn[c]
           /\ \A c \in Conns : conn'[c] \notin {"closing", "stopping"} => status'[c] = conn'[c]
           /\ \A c \in Conns : conn[c] \in {"closing", "stopping"} => status[c] = "closing"
           /\ \A c \in Conns : conn'[c] \in {"closing", "stopping"} => status'[c] = "closing"
           /\ Takeover!Ended = {c \in Conns : conn[c] # "closed" /\ conn'[c] = "closed"}
           /\ \A c \in Conns : waits'[c] = waits[c] => awaits'[c] = awaits[c] \ Takeover!Ended
<1>1. IInv'
  BY Steps
<1>2. /\ conn \in [Conns -> ConnStates] /\ conn' \in [Conns -> ConnStates]
      /\ waits \in [Conns -> SUBSET Conns]
  BY <1>1 DEF IInv, ClusterTypeOK, ServersTypeOK, ConnStates
<1>3. /\ status \in [Conns -> Takeover!States] /\ status' \in [Conns -> Takeover!States]
      /\ \A c \in Conns : conn[c] \notin {"closing", "stopping"} => status[c] = conn[c]
      /\ \A c \in Conns : conn'[c] \notin {"closing", "stopping"} => status'[c] = conn'[c]
      /\ \A c \in Conns : conn[c] \in {"closing", "stopping"} => status[c] = "closing"
      /\ \A c \in Conns : conn'[c] \in {"closing", "stopping"} => status'[c] = "closing"
  BY <1>2 DEF status, Closing, ConnStates, Takeover!States
<1>4. Takeover!Ended = {c \in Conns : conn[c] # "closed" /\ conn'[c] = "closed"}
  BY <1>3 DEF Takeover!Ended
<1>5. ASSUME NEW c \in Conns, waits'[c] = waits[c] PROVE awaits'[c] = awaits[c] \ Takeover!Ended
  <2>1. \A d \in waits[c] : d \in Conns /\ (conn[d] = "closed" => conn'[d] = "closed")
    BY <1>2, ShutStays DEF IInv, ShutStates
  <2>2. awaits[c] = {d \in waits[c] : conn[d] # "closed"} /\ awaits'[c] = {d \in waits[c] : conn'[d] # "closed"}
    BY <1>5 DEF awaits
  <2> QED  BY <1>4, <2>1, <2>2
<1>6. key' = key /\ key \in [Conns -> Brokers \X {Id[c] : c \in Conns}]
  BY ServersAssumption DEF key
<1>7. \A c, d \in Conns : key[c] = key[d] <=> c \in Same(d)
  BY DEF key, Same
<1> QED  BY <1>3, <1>4, <1>5, <1>6, <1>7

\* Closing clients is a Close of Handover.
LEMMA CloseMapped ==
    ASSUME IInv, ClusterNext, CloseClientsStep
    PROVE  Takeover!Close
<1>0. /\ conn \in [Conns -> ConnStates] /\ clients \subseteq Conns
      /\ waits \in [Conns -> SUBSET Conns]
  BY DEF IInv, ClusterTypeOK, ServersTypeOK, ConnStates
<1>1. PICK D \in SUBSET Conns, how \in {"closing", "stopping"} : CloseClients(D, how)
  BY DEF CloseClientsStep
<1>2. /\ \A c \in Conns : conn'[c] = conn[c] \/ (conn[c] = "open" /\ conn'[c] \in {"closing", "stopping", "closed"})
      /\ {c \in D : Open(c) /\ c \in Unsubscribed} = {c \in Conns : conn[c] # "closed" /\ conn'[c] = "closed"}
  BY <1>0, <1>1 DEF CloseClients, Closed, Open
<1>3. clients' = {c \in clients : \A d \in Takeover!Ended : key[d] # key[c]}
  <2>1. Takeover!Ended = {c \in D : Open(c) /\ c \in Unsubscribed}
    BY <1>2, Mapped
  <2>2. clients' = clients \ UNION {Same(c) : c \in Takeover!Ended}
    BY <1>1, <2>1 DEF CloseClients
  <2>3. Takeover!Ended \subseteq Conns
    BY <2>1
  <2> QED  BY <1>0, <2>2, <2>3, Mapped
<1>4. awaits' = awaits
  <2>1. ASSUME NEW c \in Conns PROVE awaits'[c] = awaits[c]
    <3>1. waits'[c] = waits[c]
      BY DEF CloseClientsStep
    <3>2. awaits'[c] = awaits[c] \ Takeover!Ended
      BY <3>1, Mapped
    <3>3. awaits[c] \cap Takeover!Ended = {}
      BY <1>0, <1>2, Mapped DEF awaits, IInv, Waited
    <3> QED  BY <3>2, <3>3
  <2> QED  BY <2>1 DEF awaits
<1>5. named' = named
  BY DEF named, CloseClientsStep
<1>6. \A c \in Conns : status'[c] = status[c] \/ (status[c] = "open" /\ status'[c] \in Takeover!Shut)
  <2> SUFFICES ASSUME NEW c \in Conns
               PROVE  status'[c] = status[c] \/ (status[c] = "open" /\ status'[c] \in Takeover!Shut)
    OBVIOUS
  <2>1. CASE conn'[c] = conn[c]
    BY <2>1 DEF status, Closing
  <2>2. CASE conn[c] = "open" /\ conn'[c] \in {"closing", "stopping", "closed"}
    BY <2>2, Mapped DEF Takeover!Shut
  <2> QED  BY <1>2, <2>1, <2>2
<1> QED  BY <1>3, <1>4, <1>5, <1>6, Mapped DEF Takeover!Close, Takeover!Unregister

LEMMA ConnectMapped ==
    ASSUME IInv, ClusterNext, NEW c \in Conns, Connect(c)
    PROVE  Takeover!Begin(c)
<1> DEFINE old == clients \cap Same(c)
<1>0. /\ conn \in [Conns -> ConnStates] /\ clients \subseteq Conns
      /\ waits \in [Conns -> SUBSET Conns]
  BY DEF IInv, ClusterTypeOK, ServersTypeOK, ConnStates
<1>1. /\ conn[c] = "idle"
      /\ conn' = [Closed(old, Unsubscribed, "closing") EXCEPT ![c] = "waiting"]
      /\ waits' = [waits EXCEPT ![c] = {d \in old : Open(d)}]
      /\ clients' = IF \E d \in old : Open(d) /\ d \in Unsubscribed THEN clients \ Same(c) ELSE clients
      /\ announced' = announced
  BY DEF Connect
<1>2. Takeover!Rivals(c) = {d \in old : Open(d)}
  <2>1. \A d \in Conns : status[d] = "open" <=> Open(d)
    BY Mapped, <1>0 DEF status, Closing, Open
  <2>2. \A d \in Conns : key[d] = key[c] <=> d \in Same(c)
    BY Mapped
  <2> QED  BY <1>0, <2>1, <2>2 DEF Takeover!Rivals
<1>3. conn'[c] = "waiting" /\ status'[c] = "waiting" /\ status[c] = "idle"
  BY <1>0, <1>1, Mapped DEF Closed
<1>4. \A d \in Conns \ {c} :
         conn'[d] = IF d \in old /\ Open(d) THEN IF d \in Unsubscribed THEN "closed" ELSE "closing" ELSE conn[d]
  BY <1>0, <1>1 DEF Closed
<1>5. Takeover!Ended = {d \in old : Open(d) /\ d \in Unsubscribed}
  <2>1. \A d \in old : Open(d) => d # c /\ d \in Conns /\ conn[d] # "closed"
    BY <1>0, <1>1 DEF Open
  <2>2. Takeover!Ended = {d \in Conns : conn[d] # "closed" /\ conn'[d] = "closed"}
    BY Mapped
  <2>3. \A d \in Conns : conn[d] # "closed" /\ conn'[d] = "closed" <=> d \in old /\ Open(d) /\ d \in Unsubscribed
    BY <1>0, <1>3, <1>4, <2>1
  <2> QED  BY <1>0, <2>2, <2>3
<1>6. \A d \in Conns \ {c} :
         IF d \in Takeover!Rivals(c) THEN status'[d] \in Takeover!Shut ELSE status'[d] = status[d]
  <2> SUFFICES ASSUME NEW d \in Conns \ {c}
               PROVE  IF d \in Takeover!Rivals(c) THEN status'[d] \in Takeover!Shut ELSE status'[d] = status[d]
    OBVIOUS
  <2>1. CASE d \in Takeover!Rivals(c)
    BY <1>2, <1>4, <2>1, Mapped DEF Takeover!Shut
  <2>2. CASE d \notin Takeover!Rivals(c)
    BY <1>2, <1>4, <2>2 DEF status, Closing
  <2> QED  BY <2>1, <2>2
<1>7. awaits' = [awaits EXCEPT ![c] = Takeover!Rivals(c) \ Takeover!Ended]
  <2>1. awaits'[c] = Takeover!Rivals(c) \ Takeover!Ended
    <3>1. awaits'[c] = {d \in Takeover!Rivals(c) : conn'[d] # "closed"}
      BY <1>0, <1>1, <1>2 DEF awaits
    <3>2. ASSUME NEW d \in Takeover!Rivals(c) PROVE conn'[d] = "closed" <=> d \in Takeover!Ended
      <4>1. d \in Conns \ {c} /\ d \in old /\ Open(d)
        BY <1>0, <1>1, <1>2 DEF Open
      <4> QED  BY <1>4, <1>5, <4>1
    <3> QED  BY <3>1, <3>2
  <2>2. ASSUME NEW d \in Conns \ {c} PROVE awaits'[d] = awaits[d]
    <3>1. awaits'[d] = awaits[d] \ Takeover!Ended
      BY <1>0, <1>1, Mapped
    <3>2. awaits[d] \cap Takeover!Ended = {}
      BY <1>0, <1>5 DEF awaits, IInv, Waited, Open
    <3> QED  BY <3>1, <3>2
  <2> QED  BY <2>1, <2>2 DEF awaits
<1>8. clients' = {e \in clients : \A d \in Takeover!Ended : key[d] # key[e]}
  <2>1. \A d \in Takeover!Ended : d \in Conns /\ Same(d) = Same(c)
    BY <1>0, <1>5 DEF Same
  <2>2. \A e \in clients : (\A d \in Takeover!Ended : key[d] # key[e]) <=> (Takeover!Ended = {} \/ e \notin Same(c))
    BY <1>0, <2>1, Mapped DEF Same
  <2> QED  BY <1>1, <1>5, <2>2
<1>9. named' = named /\ key' = key
  BY <1>1, Mapped DEF named
<1> QED  BY <1>3, <1>6, <1>7, <1>8, <1>9, Mapped DEF Takeover!Begin, Takeover!Unregister

\* Every step is one of Handover, or changes nothing of it.
LEMMA Handed == IInv /\ [ClusterNext]_clusterState => [Takeover!Next]_(Takeover!vars)
<1> SUFFICES ASSUME IInv, [ClusterNext]_clusterState
             PROVE  Takeover!Next \/ UNCHANGED Takeover!vars
  OBVIOUS
<1>0. /\ conn \in [Conns -> ConnStates] /\ clients \subseteq Conns
      /\ waits \in [Conns -> SUBSET Conns] /\ announced \in [Conns -> Announced]
      /\ restoring \subseteq Conns
  BY DEF IInv, ClusterTypeOK, ServersTypeOK, ConnStates, Announced
<1>1. ASSUME UNCHANGED <<conn, waits, clients>>, \A c \in Conns : announced'[c] = "none" <=> announced[c] = "none"
      PROVE  UNCHANGED Takeover!vars
  <2>1. named' = named /\ clients' = clients
    BY <1>1 DEF named
  <2>2. key' = key
    BY Mapped
  <2>3. awaits' = awaits /\ status' = status
    BY <1>1 DEF awaits, status, Closing
  <2> QED  BY <2>1, <2>2, <2>3 DEF Takeover!vars
<1>2. ASSUME NEW c \in Conns, Connect(c), ClusterNext PROVE Takeover!Next
  BY <1>2, ConnectMapped DEF Takeover!Next
<1>3. ASSUME NEW c \in Conns, Complete(c) PROVE Takeover!Next
  <2>1. /\ conn[c] = "waiting" /\ \A d \in waits[c] : conn[d] = "closed"
        /\ conn' = [conn EXCEPT ![c] = "open"]
        /\ waits' = [waits EXCEPT ![c] = {}]
        /\ UNCHANGED <<clients, announced>>
    BY <1>3 DEF Complete
  <2>2. status[c] = "waiting" /\ status' = [status EXCEPT ![c] = "open"]
    <3>1. status[c] = "waiting" /\ status'[c] = "open"
      BY <1>0, <2>1, Mapped
    <3>2. \A d \in Conns \ {c} : status'[d] = status[d]
      BY <1>0, <2>1 DEF status, Closing
    <3> QED  BY <3>1, <3>2 DEF status
  <2>3. awaits[c] = {} /\ awaits' = awaits
    <3>1. Takeover!Ended = {}
      BY <1>0, <2>1, Mapped
    <3>2. awaits[c] = {} /\ awaits'[c] = {}
      BY <1>0, <2>1 DEF awaits
    <3>3. \A d \in Conns \ {c} : awaits'[d] = awaits[d]
      BY <1>0, <2>1, <3>1, Mapped
    <3> QED  BY <3>2, <3>3 DEF awaits
  <2>4. Takeover!Complete(c)
    BY <2>1, <2>2, <2>3, Mapped DEF Takeover!Complete, named
  <2> QED  BY <2>4 DEF Takeover!Next
<1>4. ASSUME NEW c \in Conns, Announce(c) PROVE Takeover!Next
  <2>1. /\ c \in restoring /\ announced' = [announced EXCEPT ![c] = "store"]
        /\ clients' = (clients \ Same(c)) \cup {c}
        /\ UNCHANGED <<conn, waits>>
    BY <1>4 DEF Announce
  <2>2. announced[c] = "none" /\ conn[c] \notin {"idle", "waiting"}
    BY <2>1 DEF IInv, Announcements, Unannounced, Early
  <2>3. status[c] \notin {"idle", "waiting"} /\ c \notin named
    BY <2>2 DEF status, named, Closing
  <2>4. named' = named \cup {c}
    BY <1>0, <2>1 DEF named
  <2>5. clients' = {d \in clients : key[d] # key[c]} \cup {c}
    BY <1>0, <2>1, Mapped
  <2>6. UNCHANGED <<key, status, awaits>>
    <3>1. key' = key
      BY Mapped
    <3> QED  BY <2>1, <3>1 DEF status, awaits, Closing
  <2>7. Takeover!Announce(c)
    BY <2>3, <2>4, <2>5, <2>6 DEF Takeover!Announce
  <2> QED  BY <2>7 DEF Takeover!Next
<1>5. ASSUME CloseClientsStep, ClusterNext PROVE Takeover!Next
  BY <1>5, CloseMapped DEF Takeover!Next
<1>6. ASSUME NEW c \in Conns, Unregister(c) PROVE Takeover!Next
  <2>1. /\ conn[c] \in {"closing", "stopping"} /\ conn' = [conn EXCEPT ![c] = "closed"]
        /\ clients' = clients \ Same(c)
        /\ UNCHANGED <<waits, announced>>
    BY <1>6 DEF Unregister, Closing
  <2>2. Takeover!Ended = {c}
    BY <1>0, <2>1, Mapped
  <2>3. status[c] = "closing" /\ status'[c] = "closed"
    BY <1>0, <2>1, Mapped
  <2>4. \A d \in Conns \ {c} : status'[d] = status[d]
    BY <1>0, <2>1 DEF status, Closing
  <2>5. awaits' = [d \in Conns |-> awaits[d] \ {c}]
    <3>1. \A d \in Conns : awaits'[d] = awaits[d] \ {c}
      BY <2>1, <2>2, Mapped
    <3> QED  BY <3>1 DEF awaits
  <2>6. clients' = {e \in clients : \A d \in Takeover!Ended : key[d] # key[e]}
    BY <1>0, <2>1, <2>2, Mapped
  <2>7. named' = named
    BY <2>1 DEF named
  <2>8. Takeover!End(c)
    BY <2>3, <2>4, <2>5, <2>6, <2>7, Mapped DEF Takeover!End, Takeover!Unregister
  <2> QED  BY <2>8 DEF Takeover!Next
<1>7. ASSUME NEW c \in Conns, AnnouncementStored(c) \/ RouteAnnouncement(c) PROVE UNCHANGED Takeover!vars
  <2>1. UNCHANGED <<conn, waits, clients>> /\ \A d \in Conns : announced'[d] = "none" <=> announced[d] = "none"
    BY <1>0, <1>7 DEF AnnouncementStored, RouteAnnouncement
  <2> QED  BY <1>1, <2>1
<1>8. ASSUME NEW b \in Brokers, BrokerClosed(b) PROVE UNCHANGED Takeover!vars
  <2>1. UNCHANGED <<conn, waits, clients, announced>>
    BY <1>8 DEF BrokerClosed
  <2> QED  BY <1>1, <2>1
<1>9. CASE UNCHANGED clusterState
  BY <1>1, <1>9 DEF clusterState, clusterVars
<1> QED
  BY <1>0, <1>2, <1>3, <1>4, <1>5, <1>6, <1>7, <1>8, <1>9, CloseSteps DEF ClusterNext

\* Each broker hands a client id over as Handover promises, whatever the
\* others announce and whoever stops.
THEOREM HandsOver == ClusterSpec => Takeover!Init /\ HandoverSteps
<1>1. ClusterInit => Takeover!Init
  <2> SUFFICES ASSUME ClusterInit PROVE Takeover!Init
    OBVIOUS
  <2>1. /\ conn = [c \in Conns |-> "idle"] /\ clients = {}
        /\ waits = [c \in Conns |-> {}] /\ announced = [c \in Conns |-> "none"]
    BY DEF ClusterInit, NothingAnnounced
  <2>2. key \in [Conns -> Brokers \X {Id[c] : c \in Conns}]
    BY ServersAssumption DEF key
  <2>3. status = [c \in Conns |-> "idle"] /\ awaits = [c \in Conns |-> {}] /\ named = {}
    BY <2>1 DEF status, awaits, named, Closing
  <2> QED  BY <2>1, <2>2, <2>3 DEF Takeover!Init
<1>2. ClusterSpec => ClusterInit /\ [][ClusterNext]_clusterState
  BY DEF ClusterSpec, clusterState
<1> QED  BY <1>1, <1>2, Invariant, Handed, PTL DEF HandoverSteps
=============================================================================
