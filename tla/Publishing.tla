----------------------------- MODULE Publishing -----------------------------
(***************************************************************************)
(* Publications from the PUBLISH packet to the PUBACK: authorization,      *)
(* storing, the ascoltatore that the brokers share, the retained packet of *)
(* a topic and its subscribers, wills, and the close of a broker           *)
(* (lib/client.js, lib/server.js, lib/persistence/abstract.js).            *)
(*                                                                         *)
(* The clients are connected (ClientLifecycle has how they come to be).    *)
(* There is one topic, to which all publications and subscriptions belong. *)
(***************************************************************************)
EXTENDS Servers, Integers, Sequences

CONSTANTS
    Running,        \* brokers that have not stopped in the beginning
    Connected,      \* connections that have not closed in the beginning
    Wills,          \* those of Packets that can be wills
    Packets,        \* what is published: [qos, retain, empty]
    Modes,          \* onQoS2publish
    StoreQos0,      \* storeMessagesQos0
    None,           \* no connection and no broker
    MaxPubs         \* bound of the model: publications

Packet == [qos: 0 .. 2, retain: BOOLEAN, empty: BOOLEAN]

ASSUME PublishingAssumption ==
    /\ None \notin Conns \cup Brokers
    /\ Running \subseteq Brokers
    /\ Connected \subseteq {c \in Conns : Home[c] \in Running}
    /\ Packets \subseteq Packet /\ Wills \subseteq Packets
    /\ Modes \subseteq {"noack", "dropToQoS1", "disconnect"}
    /\ StoreQos0 \in BOOLEAN
    /\ MaxPubs \in Nat

Pubs == 1 .. MaxPubs

\* The application publishes too; then from is its broker.
Kinds == {"none", "client", "will", "application"}
Info == [kind: Kinds, from: Conns \cup Brokers \cup {None}, packet: Packet]

VARIABLES
    mode,       \* onQoS2publish of the brokers
    sub,        \* how far its SUBSCRIBE is
    saw,        \* what its lookupRetained has found
    count,      \* publications so far
    info,       \* what each publication is
    stage,      \* how far it is
    left,       \* what of storePacket has not called back
    reach,      \* the clients whose handler the ascoltatore hands it to
    way,        \* publications on the way to each broker
    retained,   \* the retained packet
    acked,      \* PUBACKs
    puts,       \* observer: what storeRetained wrote, in its order
    readAt,     \* observer: how much of puts a lookupRetained has read
    got         \* observer: what was forwarded to each client

subVars == <<sub, saw, readAt, got>>
pubVars == <<count, info, stage, left, reach, way, acked>>
storeVars == <<retained, puts>>
publishingVars == <<mode, subVars, pubVars, storeVars>>

\* A handler is in the ascoltatore once subscribe has answered, before the
\* retained packet is looked up.  Mutant: after it has been forwarded.
LateHandler == {"done"}
HasHandler == {"held", "looked", "done"}

-----------------------------------------------------------------------------
(* Parts of actions *)

\* Those without subscriptions.
Bare == {c \in Conns : sub[c] = "none"}

\* Client.close of the clients of D.
Close(D) == conn' = Closed(D, Bare, "closing")

\* What storePacket has to wait for: the retained packet and the offline
\* packets.
Parts(p) ==
    (IF p.retain THEN {"retained"} ELSE {}) \cup
    (IF p.qos # 0 \/ StoreQos0 THEN {"offline"} ELSE {})

BrokerOf(i) == IF i.from \in Brokers THEN i.from ELSE Home[i.from]

\* The callback of storePacket.
Stored(i) == IF up[BrokerOf(i)] = "up" THEN "sent" ELSE "dropped"

\* A publication begins, at stage s.
Begin(kind, from, p, s) ==
    LET n == count + 1 IN
    /\ count < MaxPubs
    /\ count' = n
    /\ info' = [info EXCEPT ![n] = [kind |-> kind, from |-> from, packet |-> p]]
    /\ stage' = [stage EXCEPT ![n] = s]

\* Server.publish calls storePacket for i.
StoreStage(i) == IF Parts(i.packet) = {} THEN Stored(i) ELSE "store"

BeginStored(kind, from, p) ==
    LET i == [kind |-> kind, from |-> from, packet |-> p] IN
    /\ Begin(kind, from, p, StoreStage(i))
    /\ left' = [left EXCEPT ![count + 1] = Parts(p)]
    /\ UNCHANGED <<reach, way, acked>>

\* authorizePublish is asked.
BeginAsked(kind, from, p) ==
    /\ Begin(kind, from, p, "auth")
    /\ UNCHANGED <<left, reach, way, acked>>

\* dopuback.
Acknowledge(n, qos) ==
    acked' = IF info[n].kind = "client" /\ qos = 1 /\ Open(info[n].from)
             THEN acked \cup {n} ELSE acked

-----------------------------------------------------------------------------
(* Clients that close *)

\* A close without a will: DISCONNECT, or a newer client with the id.
Disconnect(c) ==
    /\ Open(c)
    /\ Close({c})
    /\ UNCHANGED <<mode, up, subVars, pubVars, storeVars>>

\* onNonDisconnectClose: the will, if c has one, is published as if c had
\* sent it.
NonDisconnectClose(c) ==
    /\ Close({c})
    /\ (\E p \in Wills : BeginAsked("will", c, p)) \/ UNCHANGED pubVars
    /\ UNCHANGED <<mode, up, storeVars>>

\* The connection is lost.
Lose(c) ==
    /\ Open(c)
    /\ NonDisconnectClose(c)
    /\ UNCHANGED subVars

\* The ascoltatore has unsubscribed a client that closes.
Cleanup(c) ==
    /\ Closing(c)
    /\ conn' = [conn EXCEPT ![c] = "closed"]
    /\ UNCHANGED <<mode, up, subVars, pubVars, storeVars>>

-----------------------------------------------------------------------------
(* SUBSCRIBE and the retained packet *)

Subscribe(c) ==
    /\ Open(c) /\ sub[c] = "none"
    /\ sub' = [sub EXCEPT ![c] = "asked"]
    /\ UNCHANGED <<mode, up, conn, saw, readAt, got, pubVars, storeVars>>

\* The ascoltatore answers; forwardRetained begins, also for a closed client.
SubscribeAnswer(c) ==
    /\ sub[c] = "asked"
    /\ sub' = [sub EXCEPT ![c] = "held"]
    /\ UNCHANGED <<mode, up, conn, saw, readAt, got, pubVars, storeVars>>

\* lookupRetained reads.
LookupRetained(c) ==
    /\ sub[c] = "held"
    /\ sub' = [sub EXCEPT ![c] = "looked"]
    /\ saw' = [saw EXCEPT ![c] = retained]
    /\ readAt' = [readAt EXCEPT ![c] = Len(puts)]
    /\ UNCHANGED <<mode, up, conn, got, pubVars, storeVars>>

\* The callback forwards what was found.
ForwardRetained(c) ==
    /\ sub[c] = "looked"
    /\ sub' = [sub EXCEPT ![c] = "done"]
    /\ got' = [got EXCEPT ![c] = IF Open(c) /\ saw[c] # 0 THEN @ \cup {saw[c]} ELSE @]
    /\ saw' = [saw EXCEPT ![c] = 0]
    /\ UNCHANGED <<mode, up, conn, readAt, pubVars, storeVars>>

\* The callback has an error, which it emits on the connection.
LookupFails(c) ==
    /\ sub[c] = "held"
    /\ sub' = [sub EXCEPT ![c] = "done"]
    /\ IF Open(c) THEN NonDisconnectClose(c)
       ELSE UNCHANGED <<mode, up, conn, pubVars, storeVars>>
    /\ UNCHANGED <<saw, readAt, got>>

-----------------------------------------------------------------------------
(* Publications *)

\* The listener of publish.
Publish(c) ==
    /\ Open(c)
    /\ \E p \in Packets : BeginAsked("client", c, p)
    /\ UNCHANGED <<mode, up, conn, subVars, storeVars>>

\* Server.publish, called by the application until the broker has closed.
ApplicationPublish(b) ==
    /\ up[b] # "closed"
    /\ \E p \in Packets : BeginStored("application", b, p)
    /\ UNCHANGED <<mode, up, conn, subVars, storeVars>>

\* authorizePublish denies it or fails, or its QoS 2 is not tolerated.
Refuse(n) ==
    /\ stage[n] = "auth"
    /\ stage' = [stage EXCEPT ![n] = "refused"]
    /\ Close({info[n].from})
    /\ UNCHANGED <<mode, up, subVars, count, info, left, reach, way, acked, storeVars>>

Tolerated(n) == info[n].packet.qos # 2 \/ mode # "disconnect"

\* The QoS that is left of q.  Mutant: without looking whether it is 2.
LoweredAlways(q) == IF mode = "dropToQoS1" THEN q - 1 ELSE q
Lowered(q) == IF q = 2 /\ mode = "dropToQoS1" THEN 1 ELSE q

\* authorizePublish says "ignore".
Ignore(n) ==
    /\ stage[n] = "auth" /\ Tolerated(n)
    /\ stage' = [stage EXCEPT ![n] = "ignored"]
    /\ Acknowledge(n, Lowered(info[n].packet.qos))
    /\ UNCHANGED <<mode, up, conn, subVars, count, info, left, reach, way, storeVars>>

\* authorizePublish accepts it.
Accept(n) ==
    LET i == [info[n] EXCEPT !.packet.qos = Lowered(@)] IN
    /\ stage[n] = "auth" /\ Tolerated(n)
    /\ info' = [info EXCEPT ![n] = i]
    /\ stage' = [stage EXCEPT ![n] = StoreStage(i)]
    /\ left' = [left EXCEPT ![n] = Parts(i.packet)]
    /\ UNCHANGED <<mode, up, conn, subVars, count, reach, way, acked, storeVars>>

\* The counter of storePacket after part.  Mutants: any part ends it; one
\* call more than there are parts does.
EndsAtOnce(n, part) == part \in left[n]
EndsLate(n, part) == left[n] = {}
Ends(n, part) == left[n] = {part}

\* A part calls back, once; its error is not looked at.
PartDone(n, part) ==
    /\ part \in left[n]
    /\ left' = [left EXCEPT ![n] = @ \ {part}]
    /\ stage' = [stage EXCEPT ![n] = IF @ = "store" /\ Ends(n, part) THEN Stored(info[n]) ELSE @]
    /\ UNCHANGED <<mode, up, conn, subVars, count, info, reach, way, acked>>

\* storeRetained: an empty payload deletes.
StoreRetained(n) ==
    /\ PartDone(n, "retained")
    /\ retained' = IF info[n].packet.empty THEN 0 ELSE n
    /\ puts' = Append(puts, n)

\* storeOfflinePacket, or either of the two with an error.
StoreCallback(n) ==
    /\ \E part \in left[n] : PartDone(n, part)
    /\ UNCHANGED storeVars

\* The ascoltatore accepts the publication, for the handlers it has.
Route(n) ==
    /\ stage[n] = "sent"
    /\ stage' = [stage EXCEPT ![n] = "routed"]
    /\ reach' = [reach EXCEPT ![n] = {c \in Conns : sub[c] \in HasHandler /\ conn[c] # "closed"}]
    /\ way' = [b \in Brokers |-> IF up[b] # "closed" /\ \E c \in reach'[n] : Home[c] = b
                                 THEN Append(way[b], n) ELSE way[b]]
    /\ UNCHANGED <<mode, up, conn, subVars, count, info, left, acked, storeVars>>

\* It calls back; then the hook published, the event, and the PUBACK.
Published(n) ==
    /\ stage[n] = "routed"
    /\ stage' = [stage EXCEPT ![n] = "done"]
    /\ Acknowledge(n, info[n].packet.qos)
    /\ UNCHANGED <<mode, up, conn, subVars, count, info, left, reach, way, storeVars>>

-----------------------------------------------------------------------------
(* A publication comes to a broker *)

Receive(b) ==
    LET n == Head(way[b]) IN
    /\ way[b] # <<>>
    /\ way' = [way EXCEPT ![b] = Tail(@)]
    /\ got' = [c \in Conns |-> IF c \in reach[n] /\ Home[c] = b /\ Open(c)
                               THEN got[c] \cup {n} ELSE got[c]]
    /\ UNCHANGED <<mode, up, conn, sub, saw, readAt,
                   count, info, stage, left, reach, acked, storeVars>>

-----------------------------------------------------------------------------
(* Close of a broker *)

\* Server.close.
ServerClose(b) ==
    /\ up[b] = "up"
    /\ up' = [up EXCEPT ![b] = "closing"]
    /\ conn' = Closed({c \in Conns : Home[c] = b}, Bare, "stopping")
    /\ UNCHANGED <<mode, subVars, pubVars, storeVars>>

\* Its clients have closed: it closes its ascoltatore.
ServerClosed(b) ==
    /\ Stopped(b)
    /\ up' = [up EXCEPT ![b] = "closed"]
    /\ way' = [way EXCEPT ![b] = <<>>]
    /\ UNCHANGED <<mode, conn, subVars, count, info, stage, left, reach, acked, storeVars>>

-----------------------------------------------------------------------------
NothingPublished ==
    /\ mode \in Modes
    /\ sub = [c \in Conns |-> "none"]
    /\ saw = [c \in Conns |-> 0] /\ readAt = [c \in Conns |-> 0]
    /\ got = [c \in Conns |-> {}]
    /\ count = 0
    /\ info = [n \in Pubs |-> [kind |-> "none", from |-> None,
                               packet |-> [qos |-> 0, retain |-> FALSE, empty |-> FALSE]]]
    /\ stage = [n \in Pubs |-> "none"]
    /\ left = [n \in Pubs |-> {}] /\ reach = [n \in Pubs |-> {}]
    /\ way = [b \in Brokers |-> <<>>]
    /\ acked = {}
    /\ retained = 0 /\ puts = <<>>

PublishingInit ==
    /\ up = [b \in Brokers |-> IF b \in Running THEN "up" ELSE "closed"]
    /\ conn = [c \in Conns |-> IF c \in Connected THEN "open" ELSE "closed"]
    /\ NothingPublished

\* What happens to publication n without another packet.
Answer(n) ==
    \/ Refuse(n) \/ Ignore(n) \/ Accept(n)
    \/ StoreRetained(n) \/ StoreCallback(n)
    \/ Route(n) \/ Published(n)

Client(c) ==
    \/ Disconnect(c) \/ Lose(c) \/ Cleanup(c)
    \/ Subscribe(c) \/ SubscribeAnswer(c)
    \/ LookupRetained(c) \/ ForwardRetained(c) \/ LookupFails(c)
    \/ Publish(c)

Broker(b) == ApplicationPublish(b) \/ Receive(b) \/ ServerClose(b) \/ ServerClosed(b)

PublishingNext ==
    \/ \E n \in Pubs : Answer(n)
    \/ \E c \in Conns : Client(c)
    \/ \E b \in Brokers : Broker(b)

PublishingSpec == PublishingInit /\ [][PublishingNext]_<<up, conn, publishingVars>>

-----------------------------------------------------------------------------
(* Properties *)

Stages == {"none", "auth", "refused", "ignored", "store", "sent", "dropped", "routed", "done"}

\* The type invariant.
PublishingTypeOK ==
    /\ ServersTypeOK
    /\ mode \in Modes
    /\ sub \in [Conns -> {"none", "asked", "held", "looked", "done"}]
    /\ saw \in [Conns -> 0 .. MaxPubs] /\ readAt \in [Conns -> Nat]
    /\ got \in [Conns -> SUBSET Pubs]
    /\ count \in 0 .. MaxPubs
    /\ info \in [Pubs -> Info]
    /\ stage \in [Pubs -> Stages]
    /\ left \in [Pubs -> SUBSET {"retained", "offline"}]
    /\ reach \in [Pubs -> SUBSET Conns]
    /\ way \in [Brokers -> Seq(Pubs)]
    /\ retained \in 0 .. MaxPubs /\ puts \in Seq(Pubs)
    /\ acked \in SUBSET Pubs

\* A PUBACK means that each part storePacket waits for has called back and that
\* the ascoltatore has the publication, unless it was to be ignored.
AckedIsOut ==
    \A n \in acked :
        /\ info[n].kind = "client"
        /\ stage[n] = "ignored" \/ (stage[n] = "done" /\ left[n] = {})

\* Publication n has come to broker b.
Arrived(b, n) == stage[n] \in {"routed", "done"} /\ \A k \in DOMAIN way[b] : way[b][k] # n

\* A subscriber misses no retained publication, whether it was under way when
\* it subscribed or came later: once it is out, the subscriber was handed it
\* live or looked it up, or it had been overwritten before the lookup.
RetainedNoGap ==
    \A c \in Conns, n \in Pubs :
        (Open(c) /\ sub[c] = "done" /\ Arrived(Home[c], n) /\ ~info[n].packet.empty)
        => \A i \in DOMAIN puts : puts[i] = n => (n \in got[c] \/ i < readAt[c])

\* To be acknowledged.
Owed(n) ==
    /\ info[n].kind = "client"
    /\ info[n].packet.qos = 1 \/ (info[n].packet.qos = 2 /\ mode = "dropToQoS1")

\* A publication waits for nothing but what calls back, is dropped by no broker
\* but one that closes, and when it has come to its end its client has the
\* PUBACK that it is owed, unless it closed: also for a QoS 2 that was lowered.
EndedIsAcked ==
    \A n \in Pubs :
        /\ stage[n] = "store" => left[n] # {}
        /\ stage[n] = "dropped" => up[BrokerOf(info[n])] # "up"
        /\ stage[n] \in {"done", "ignored"} /\ Owed(n) => n \in acked \/ ~Open(info[n].from)

\* Every publication, of a client, a will or the application,
\* comes to its end, in whatever order the answers come, and a client that
\* stays open has its PUBACK then.  Only a broker that closes drops one.
PublicationsEnd ==
    \A n \in Pubs :
        (stage[n] # "none") ~>
            \/ stage[n] = "refused"
            \/ stage[n] # "none" /\ up[BrokerOf(info[n])] # "up"
            \/ /\ stage[n] \in {"done", "ignored"}
               /\ Owed(n) => n \in acked \/ ~Open(info[n].from)
=============================================================================
