-------------------------- MODULE PublishingProofs --------------------------
(***************************************************************************)
(* Proofs about Publishing, for any brokers, connections, packets and any  *)
(* number of publications: what a PUBACK means, and that a subscriber      *)
(* misses no retained publication.                                         *)
(***************************************************************************)
EXTENDS Publishing, TLAPS

publishingState == <<up, conn, publishingVars>>

Ups == [Brokers -> {"up", "closing", "closed"}]
ConnStates == {"idle", "waiting", "open", "closing", "stopping", "closed"}
PartNames == {"retained", "offline"}

-----------------------------------------------------------------------------
(* Parts of actions *)

\* Client.close leaves a connection as it is or ends its being open.
LEMMA ClosedTyped ==
    ASSUME NEW D, NEW Q, NEW how \in {"closing", "stopping"}, conn \in [Conns -> ConnStates]
    PROVE  /\ Closed(D, Q, how) \in [Conns -> ConnStates]
           /\ \A c \in Conns : Closed(D, Q, how)[c] = "open" => conn[c] = "open" /\ c \notin D
  BY DEF Closed, Open, ConnStates

LEMMA CloseTyped ==
    ASSUME NEW D, Close(D), conn \in [Conns -> ConnStates]
    PROVE  /\ conn' \in [Conns -> ConnStates]
           /\ \A c \in Conns : conn'[c] = "open" => conn[c] = "open" /\ c \notin D
  BY ClosedTyped DEF Close

LEMMA PartsTyped == \A p : Parts(p) \subseteq PartNames
  BY DEF Parts, PartNames

LEMMA StageTyped == \A i : StoreStage(i) \in Stages /\ Stored(i) \in Stages
  BY DEF StoreStage, Stored, Stages

LEMMA LoweredTyped == \A q \in 0 .. 2 : Lowered(q) \in 0 .. 2
  BY DEF Lowered

\* Only the QoS of an accepted packet is changed.
LEMMA AcceptedTyped ==
    ASSUME NEW i \in Info
    PROVE  LET j == [i EXCEPT !.packet.qos = Lowered(@)] IN
           j \in Info /\ j.kind = i.kind /\ j.from = i.from /\ j.packet.empty = i.packet.empty
<1> DEFINE p == i.packet
           q == [p EXCEPT !.qos = Lowered(p.qos)]
           j == [i EXCEPT !.packet = q]
<1>1. p \in Packet /\ i.kind \in Kinds /\ i.from \in Conns \cup Brokers \cup {None}
  BY DEF Info
<1>2. PICK s \in 0 .. 2, r \in BOOLEAN, e \in BOOLEAN : p = [qos |-> s, retain |-> r, empty |-> e]
  BY <1>1 DEF Packet
<1>3. q = [qos |-> Lowered(s), retain |-> r, empty |-> e]
  BY <1>2
<1>4. q \in Packet
  BY <1>2, <1>3, LoweredTyped DEF Packet
<1>5. q.empty = p.empty
  BY <1>2, <1>3
<1> HIDE DEF p, q
<1>6. PICK k \in Kinds, f \in Conns \cup Brokers \cup {None}, pk \in Packet :
         i = [kind |-> k, from |-> f, packet |-> pk]
  BY DEF Info
<1>7. j = [kind |-> k, from |-> f, packet |-> q]
  BY <1>6
<1>8. j \in Info
  BY <1>4, <1>6, <1>7 DEF Info
<1>9. j.kind = i.kind /\ j.from = i.from /\ j.packet = q
  BY <1>6, <1>7
<1> QED  BY <1>5, <1>8, <1>9 DEF p, q

\* A publication that begins is the next one.
LEMMA BeginTyped ==
    ASSUME PublishingTypeOK, NEW kind \in Kinds, NEW from \in Conns \cup Brokers \cup {None},
           NEW p \in Packet, NEW s \in Stages, Begin(kind, from, p, s)
    PROVE  /\ count + 1 \in Pubs /\ count' = count + 1
           /\ count' \in 0 .. MaxPubs
           /\ info' \in [Pubs -> Info]
           /\ stage' \in [Pubs -> Stages] /\ stage'[count + 1] = s
           /\ \A n \in Pubs \ {count + 1} : info'[n] = info[n] /\ stage'[n] = stage[n]
<1>1. count \in 0 .. MaxPubs /\ info \in [Pubs -> Info] /\ stage \in [Pubs -> Stages] /\ MaxPubs \in Nat
  BY PublishingAssumption DEF PublishingTypeOK
<1>2. count + 1 \in Pubs /\ count' = count + 1 /\ count' \in 0 .. MaxPubs
  BY <1>1 DEF Begin, Pubs
<1>3. [kind |-> kind, from |-> from, packet |-> p] \in Info
  BY DEF Info
<1> QED  BY <1>1, <1>2, <1>3 DEF Begin

-----------------------------------------------------------------------------
(* Types *)

ServersTyped == up \in Ups /\ conn \in [Conns -> ConnStates]
SubTyped ==
    /\ sub \in [Conns -> {"none", "asked", "held", "looked", "done"}]
    /\ saw \in [Conns -> 0 .. MaxPubs] /\ readAt \in [Conns -> Nat]
    /\ got \in [Conns -> SUBSET Pubs]
PubTyped ==
    /\ count \in 0 .. MaxPubs
    /\ info \in [Pubs -> Info]
    /\ stage \in [Pubs -> Stages]
    /\ left \in [Pubs -> SUBSET PartNames]
    /\ reach \in [Pubs -> SUBSET Conns]
    /\ way \in [Brokers -> Seq(Pubs)]
    /\ acked \in SUBSET Pubs
StoreTyped == retained \in 0 .. MaxPubs /\ puts \in Seq(Pubs)

LEMMA TypesSplit ==
    /\ PublishingTypeOK <=> mode \in Modes /\ ServersTyped /\ SubTyped /\ PubTyped /\ StoreTyped
    /\ PublishingTypeOK' <=> mode' \in Modes /\ ServersTyped' /\ SubTyped' /\ PubTyped' /\ StoreTyped'
  BY DEF PublishingTypeOK, ServersTypeOK, ServersTyped, SubTyped, PubTyped, StoreTyped, Ups, ConnStates, PartNames

\* What is asked or stored is a publication.
LEMMA BeginAskedTyped ==
    ASSUME PublishingTypeOK, NEW kind \in Kinds, NEW from \in Conns \cup Brokers \cup {None},
           NEW p \in Packets, BeginAsked(kind, from, p)
    PROVE  PubTyped'
<1>1. p \in Packet /\ "auth" \in Stages
  BY PublishingAssumption DEF Stages
<1>2. Begin(kind, from, p, "auth") /\ UNCHANGED <<left, reach, way, acked>>
  BY DEF BeginAsked
<1> QED  BY <1>1, <1>2, BeginTyped, TypesSplit DEF PubTyped

LEMMA BeginStoredTyped ==
    ASSUME PublishingTypeOK, NEW kind \in Kinds, NEW from \in Conns \cup Brokers \cup {None},
           NEW p \in Packets, BeginStored(kind, from, p)
    PROVE  PubTyped'
<1> DEFINE i == [kind |-> kind, from |-> from, packet |-> p]
<1>1. p \in Packet /\ StoreStage(i) \in Stages /\ Parts(p) \subseteq PartNames
  BY PublishingAssumption, StageTyped, PartsTyped
<1>2. /\ Begin(kind, from, p, StoreStage(i))
      /\ left' = [left EXCEPT ![count + 1] = Parts(p)]
      /\ UNCHANGED <<reach, way, acked>>
  BY DEF BeginStored
<1>3. left' \in [Pubs -> SUBSET PartNames]
  BY <1>1, <1>2, TypesSplit DEF PubTyped
<1> HIDE DEF i
<1> QED  BY <1>1, <1>2, <1>3, BeginTyped, TypesSplit DEF PubTyped

LEMMA NonDisconnectCloseTyped ==
    ASSUME PublishingTypeOK, NEW c \in Conns, NonDisconnectClose(c)
    PROVE  ServersTyped' /\ PubTyped' /\ mode' = mode /\ UNCHANGED storeVars
<1>1. ServersTyped'
  BY CloseTyped, TypesSplit DEF NonDisconnectClose, ServersTyped
<1>2. PubTyped'
  <2>1. ASSUME NEW p \in Wills, BeginAsked("will", c, p) PROVE PubTyped'
    BY <2>1, BeginAskedTyped, PublishingAssumption DEF Kinds
  <2>2. CASE UNCHANGED pubVars
    BY <2>2, TypesSplit DEF pubVars, PubTyped
  <2> QED  BY <2>1, <2>2 DEF NonDisconnectClose
<1> QED  BY <1>1, <1>2 DEF NonDisconnectClose

\* What a client does, and what comes to it.
LEMMA ClientTyped ==
    ASSUME PublishingTypeOK, NEW c \in Conns, Client(c)
    PROVE  PublishingTypeOK'
<1>0. mode \in Modes /\ ServersTyped /\ SubTyped /\ PubTyped /\ StoreTyped
  BY TypesSplit
<1> DEFINE Typed == mode' \in Modes /\ ServersTyped' /\ SubTyped' /\ PubTyped' /\ StoreTyped'
<1> SUFFICES Typed
  BY TypesSplit
<1>1. CASE Disconnect(c)
  BY <1>0, <1>1, CloseTyped DEF Disconnect, subVars, pubVars, storeVars, ServersTyped, SubTyped, PubTyped, StoreTyped
<1>2. CASE Lose(c)
  BY <1>0, <1>2, NonDisconnectCloseTyped DEF Lose, subVars, storeVars, SubTyped, StoreTyped
<1>3. CASE Cleanup(c)
  BY <1>0, <1>3 DEF Cleanup, subVars, pubVars, storeVars, ServersTyped, SubTyped, PubTyped, StoreTyped, ConnStates
<1>4. CASE Subscribe(c) \/ SubscribeAnswer(c)
  BY <1>0, <1>4 DEF Subscribe, SubscribeAnswer, pubVars, storeVars, ServersTyped, SubTyped, PubTyped, StoreTyped
<1>5. CASE LookupRetained(c)
  <2>1. Len(puts) \in Nat
    BY <1>0 DEF StoreTyped
  <2>2. SubTyped'
    BY <1>0, <1>5, <2>1 DEF LookupRetained, SubTyped, StoreTyped
  <2> QED  BY <1>0, <1>5, <2>2 DEF LookupRetained, pubVars, storeVars, ServersTyped, PubTyped, StoreTyped
<1>6. CASE ForwardRetained(c)
  <2>1. saw[c] # 0 => saw[c] \in Pubs
    BY <1>0, PublishingAssumption DEF SubTyped, Pubs
  <2>2. got' \in [Conns -> SUBSET Pubs]
    BY <1>0, <1>6, <2>1 DEF ForwardRetained, SubTyped
  <2>3. SubTyped'
    BY <1>0, <1>6, <2>2, PublishingAssumption DEF ForwardRetained, SubTyped
  <2> QED  BY <1>0, <1>6, <2>3 DEF ForwardRetained, pubVars, storeVars, ServersTyped, PubTyped, StoreTyped
<1>7. CASE LookupFails(c)
  <2>1. SubTyped'
    BY <1>0, <1>7 DEF LookupFails, SubTyped
  <2>2. CASE Open(c)
    BY <1>0, <1>7, <2>1, <2>2, NonDisconnectCloseTyped DEF LookupFails, storeVars, StoreTyped
  <2>3. CASE ~Open(c)
    BY <1>0, <1>7, <2>1, <2>3 DEF LookupFails, pubVars, storeVars, ServersTyped, PubTyped, StoreTyped
  <2> QED  BY <2>2, <2>3
<1>8. CASE Publish(c)
  <2>1. PubTyped'
    BY <1>8, BeginAskedTyped DEF Publish, Kinds
  <2> QED  BY <1>0, <1>8, <2>1 DEF Publish, subVars, storeVars, ServersTyped, SubTyped, StoreTyped
<1> QED  BY <1>1, <1>2, <1>3, <1>4, <1>5, <1>6, <1>7, <1>8 DEF Client

\* A part of storePacket calls back.
LEMMA PartDoneTyped ==
    ASSUME PublishingTypeOK, NEW n \in Pubs, NEW part, PartDone(n, part)
    PROVE  ServersTyped' /\ SubTyped' /\ PubTyped' /\ mode' = mode
<1>0. mode \in Modes /\ ServersTyped /\ SubTyped /\ PubTyped
  BY TypesSplit
<1>1. stage' \in [Pubs -> Stages]
  BY <1>0, StageTyped DEF PartDone, PubTyped
<1>2. left' \in [Pubs -> SUBSET PartNames]
  BY <1>0 DEF PartDone, PubTyped
<1> QED  BY <1>0, <1>1, <1>2 DEF PartDone, subVars, ServersTyped, SubTyped, PubTyped

LEMMA RouteTyped ==
    ASSUME PublishingTypeOK, NEW n \in Pubs, Route(n)
    PROVE  PubTyped' /\ up' = up /\ conn' = conn /\ UNCHANGED <<mode, subVars, storeVars>>
<1>0. PubTyped
  BY TypesSplit
<1>1. stage' \in [Pubs -> Stages] /\ reach' \in [Pubs -> SUBSET Conns]
  BY <1>0 DEF Route, PubTyped, Stages
<1>2. way' \in [Brokers -> Seq(Pubs)]
  <2>1. \A b \in Brokers : way[b] \in Seq(Pubs) /\ Append(way[b], n) \in Seq(Pubs)
    BY <1>0 DEF PubTyped
  <2> QED  BY <2>1 DEF Route
<1> QED  BY <1>0, <1>1, <1>2 DEF Route, PubTyped

LEMMA AnswerTyped ==
    ASSUME PublishingTypeOK, NEW n \in Pubs, Answer(n)
    PROVE  PublishingTypeOK'
<1>0. mode \in Modes /\ ServersTyped /\ SubTyped /\ PubTyped /\ StoreTyped
  BY TypesSplit
<1> DEFINE Typed == mode' \in Modes /\ ServersTyped' /\ SubTyped' /\ PubTyped' /\ StoreTyped'
<1> SUFFICES Typed
  BY TypesSplit
<1>1. CASE Refuse(n)
  <2>1. ServersTyped'
    BY <1>0, <1>1, CloseTyped DEF Refuse, ServersTyped
  <2>2. stage' \in [Pubs -> Stages]
    BY <1>0, <1>1 DEF Refuse, PubTyped, Stages
  <2> QED  BY <1>0, <1>1, <2>1, <2>2 DEF Refuse, subVars, storeVars, SubTyped, PubTyped, StoreTyped
<1>2. CASE Ignore(n)
  <2>1. stage' \in [Pubs -> Stages] /\ acked' \in SUBSET Pubs
    BY <1>0, <1>2 DEF Ignore, Acknowledge, PubTyped, Stages
  <2> QED  BY <1>0, <1>2, <2>1 DEF Ignore, subVars, storeVars, ServersTyped, SubTyped, PubTyped, StoreTyped
<1>3. CASE Accept(n)
  <2> DEFINE i == [info[n] EXCEPT !.packet.qos = Lowered(@)]
  <2>1. i \in Info
    <3>1. info[n] \in Info
      BY <1>0 DEF PubTyped
    <3> QED  BY <3>1, AcceptedTyped
  <2>2. /\ info' = [info EXCEPT ![n] = i]
        /\ stage' = [stage EXCEPT ![n] = StoreStage(i)]
        /\ left' = [left EXCEPT ![n] = Parts(i.packet)]
        /\ UNCHANGED <<mode, up, conn, subVars, count, reach, way, acked, storeVars>>
    BY <1>3 DEF Accept
  <2> HIDE DEF i
  <2>3. info' \in [Pubs -> Info] /\ stage' \in [Pubs -> Stages]
    BY <1>0, <2>1, <2>2, StageTyped DEF PubTyped
  <2>4. left' \in [Pubs -> SUBSET PartNames]
    BY <1>0, <2>2, PartsTyped DEF PubTyped
  <2> QED  BY <1>0, <2>2, <2>3, <2>4 DEF subVars, storeVars, ServersTyped, SubTyped, PubTyped, StoreTyped
<1>4. CASE StoreRetained(n)
  <2>1. StoreTyped'
    BY <1>0, <1>4, PublishingAssumption DEF StoreRetained, StoreTyped, Pubs
  <2> QED  BY <1>0, <1>4, <2>1, PartDoneTyped DEF StoreRetained
<1>5. CASE StoreCallback(n)
  <2>1. PICK part : PartDone(n, part)
    BY <1>5 DEF StoreCallback
  <2>2. StoreTyped'
    BY <1>0, <1>5 DEF StoreCallback, storeVars, StoreTyped
  <2> QED  BY <1>0, <2>1, <2>2, PartDoneTyped
<1>6. CASE Route(n)
  BY <1>0, <1>6, RouteTyped DEF subVars, storeVars, ServersTyped, SubTyped, StoreTyped
<1>7. CASE Published(n)
  <2>1. stage' \in [Pubs -> Stages] /\ acked' \in SUBSET Pubs
    BY <1>0, <1>7 DEF Published, Acknowledge, PubTyped, Stages
  <2> QED  BY <1>0, <1>7, <2>1 DEF Published, subVars, storeVars, ServersTyped, SubTyped, PubTyped, StoreTyped
<1> QED  BY <1>1, <1>2, <1>3, <1>4, <1>5, <1>6, <1>7 DEF Answer

\* What a broker takes from the ascoltatore is a publication.
LEMMA HeadOfWay ==
    ASSUME PublishingTypeOK, NEW b \in Brokers, way[b] # <<>>
    PROVE  Head(way[b]) \in Pubs /\ Tail(way[b]) \in Seq(Pubs)
  BY TypesSplit DEF PubTyped

LEMMA BrokerTyped ==
    ASSUME PublishingTypeOK, NEW b \in Brokers, Broker(b)
    PROVE  PublishingTypeOK'
<1>0. mode \in Modes /\ ServersTyped /\ SubTyped /\ PubTyped /\ StoreTyped
  BY TypesSplit
<1> DEFINE Typed == mode' \in Modes /\ ServersTyped' /\ SubTyped' /\ PubTyped' /\ StoreTyped'
<1> SUFFICES Typed
  BY TypesSplit
<1>1. CASE ApplicationPublish(b)
  <2>1. PubTyped'
    BY <1>1, BeginStoredTyped DEF ApplicationPublish, Kinds
  <2> QED  BY <1>0, <1>1, <2>1 DEF ApplicationPublish, subVars, storeVars, ServersTyped, SubTyped, StoreTyped
<1>2. CASE Receive(b)
  <2> DEFINE n == Head(way[b])
  <2>1. n \in Pubs /\ Tail(way[b]) \in Seq(Pubs)
    BY <1>2, HeadOfWay DEF Receive
  <2>2. /\ way' = [way EXCEPT ![b] = Tail(@)]
        /\ got' = [c \in Conns |-> IF c \in reach[n] /\ Home[c] = b /\ Open(c)
                                   THEN got[c] \cup {n} ELSE got[c]]
        /\ UNCHANGED <<mode, up, conn, sub, saw, readAt, count, info, stage, left, reach, acked, storeVars>>
    BY <1>2 DEF Receive
  <2> HIDE DEF n
  <2>3. PubTyped'
    BY <1>0, <2>1, <2>2 DEF PubTyped
  <2>4. got' \in [Conns -> SUBSET Pubs]
    BY <1>0, <2>1, <2>2 DEF SubTyped
  <2> QED  BY <1>0, <2>2, <2>3, <2>4 DEF storeVars, ServersTyped, SubTyped, StoreTyped
<1>3. CASE ServerClose(b)
  <2>1. ServersTyped'
    BY <1>0, <1>3, ClosedTyped DEF ServerClose, ServersTyped, Ups
  <2> QED  BY <1>0, <1>3, <2>1 DEF ServerClose, subVars, pubVars, storeVars, SubTyped, PubTyped, StoreTyped
<1>4. CASE ServerClosed(b)
  <2>1. up' \in Ups /\ way' \in [Brokers -> Seq(Pubs)]
    BY <1>0, <1>4 DEF ServerClosed, ServersTyped, Ups, PubTyped
  <2> QED  BY <1>0, <1>4, <2>1 DEF ServerClosed, subVars, storeVars, ServersTyped, SubTyped, PubTyped, StoreTyped
<1> QED  BY <1>1, <1>2, <1>3, <1>4 DEF Broker

LEMMA TypesKept ==
    ASSUME PublishingTypeOK, [PublishingNext]_publishingState
    PROVE  PublishingTypeOK'
<1>1. CASE UNCHANGED publishingState
  BY <1>1, TypesSplit DEF publishingState, publishingVars, subVars, pubVars, storeVars,
     ServersTyped, SubTyped, PubTyped, StoreTyped
<1> QED  BY <1>1, ClientTyped, AnswerTyped, BrokerTyped DEF PublishingNext

LEMMA TypesStart == PublishingInit => PublishingTypeOK
<1> SUFFICES ASSUME PublishingInit PROVE PublishingTypeOK
  OBVIOUS
<1>1. ServersTyped
  BY DEF PublishingInit, ServersTyped, Ups, ConnStates
<1>2. SubTyped /\ StoreTyped
  BY PublishingAssumption DEF PublishingInit, NothingPublished, SubTyped, StoreTyped, Pubs
<1>3. [kind |-> "none", from |-> None, packet |-> [qos |-> 0, retain |-> FALSE, empty |-> FALSE]] \in Info
  <2>1. [qos |-> 0, retain |-> FALSE, empty |-> FALSE] \in Packet
    BY DEF Packet
  <2> QED  BY <2>1 DEF Info, Kinds
<1>4. PubTyped
  BY <1>3, PublishingAssumption DEF PublishingInit, NothingPublished, PubTyped, Stages
<1> QED  BY <1>1, <1>2, <1>4, TypesSplit DEF PublishingInit, NothingPublished

-----------------------------------------------------------------------------
(* What a PUBACK means *)

\* Only a publication that is being stored has something to wait for.
LeftInStore == \A n \in Pubs : stage[n] # "store" => left[n] = {}

\* Publications are numbered as they come.
Fresh == \A n \in Pubs : n > count => stage[n] = "none"

Progress == LeftInStore /\ Fresh /\ AckedIsOut

LEMMA BeginAskedKept ==
    ASSUME PublishingTypeOK, Progress, NEW kind \in Kinds, NEW from \in Conns \cup Brokers \cup {None},
           NEW p \in Packets, BeginAsked(kind, from, p)
    PROVE  Progress'
<1>1. p \in Packet /\ "auth" \in Stages
  BY PublishingAssumption DEF Stages
<1>2. Begin(kind, from, p, "auth") /\ UNCHANGED <<left, reach, way, acked>>
  BY DEF BeginAsked
<1>3. /\ count + 1 \in Pubs /\ count' = count + 1 /\ stage'[count + 1] = "auth"
      /\ \A n \in Pubs \ {count + 1} : info'[n] = info[n] /\ stage'[n] = stage[n]
  BY <1>1, <1>2, BeginTyped
<1>4. count \in Nat /\ acked \subseteq Pubs /\ Pubs \subseteq Nat
  BY TypesSplit, PublishingAssumption DEF PubTyped, Pubs
<1>5. stage[count + 1] = "none" /\ count + 1 \notin acked
  BY <1>3, <1>4 DEF Progress, Fresh, AckedIsOut
<1>6. left' = left /\ acked' = acked
  BY <1>2
<1>7. LeftInStore'
  BY <1>3, <1>5, <1>6 DEF Progress, LeftInStore
<1>8. Fresh'
  <2>1. ASSUME NEW n \in Pubs, n > count' PROVE n # count + 1 /\ n > count
    BY <1>3, <1>4, <2>1
  <2> QED  BY <1>3, <2>1 DEF Progress, Fresh
<1>9. AckedIsOut'
  BY <1>3, <1>4, <1>5, <1>6 DEF Progress, AckedIsOut
<1> QED  BY <1>7, <1>8, <1>9 DEF Progress

LEMMA StoreStageLeft ==
    \A i : /\ StoreStage(i) # "store" => Parts(i.packet) = {}
           /\ Stored(i) \in {"sent", "dropped"}
  BY DEF StoreStage, Stored

LEMMA BeginStoredKept ==
    ASSUME PublishingTypeOK, Progress, NEW kind \in Kinds, NEW from \in Conns \cup Brokers \cup {None},
           NEW p \in Packets, BeginStored(kind, from, p)
    PROVE  Progress'
<1> DEFINE i == [kind |-> kind, from |-> from, packet |-> p]
<1>1. p \in Packet /\ StoreStage(i) \in Stages /\ i.packet = p
  BY PublishingAssumption, StageTyped
<1>2. /\ Begin(kind, from, p, StoreStage(i))
      /\ left' = [left EXCEPT ![count + 1] = Parts(p)]
      /\ UNCHANGED <<reach, way, acked>>
  BY DEF BeginStored
<1> HIDE DEF i
<1>3. /\ count + 1 \in Pubs /\ count' = count + 1 /\ stage'[count + 1] = StoreStage(i)
      /\ \A n \in Pubs \ {count + 1} : info'[n] = info[n] /\ stage'[n] = stage[n]
  BY <1>1, <1>2, BeginTyped
<1>4. /\ count \in Nat /\ acked \subseteq Pubs /\ Pubs \subseteq Nat
      /\ left \in [Pubs -> SUBSET PartNames]
  BY TypesSplit, PublishingAssumption DEF PubTyped, Pubs
<1>5. stage[count + 1] = "none" /\ count + 1 \notin acked
  BY <1>3, <1>4 DEF Progress, Fresh, AckedIsOut
<1>6. left'[count + 1] = Parts(p) /\ \A n \in Pubs \ {count + 1} : left'[n] = left[n]
  BY <1>2, <1>3, <1>4
<1>7. LeftInStore'
  BY <1>1, <1>3, <1>6, StoreStageLeft DEF Progress, LeftInStore
<1>8. Fresh'
  <2>1. ASSUME NEW n \in Pubs, n > count' PROVE n # count + 1 /\ n > count
    BY <1>3, <1>4, <2>1
  <2> QED  BY <1>3, <2>1 DEF Progress, Fresh
<1>9. AckedIsOut'
  BY <1>2, <1>3, <1>4, <1>5, <1>6 DEF Progress, AckedIsOut
<1> QED  BY <1>7, <1>8, <1>9 DEF Progress

\* No step but these touches a publication.
LEMMA ProgressUnchanged ==
    ASSUME Progress, UNCHANGED <<count, info, stage, left, acked>>
    PROVE  Progress'
  BY DEF Progress, LeftInStore, Fresh, AckedIsOut

LEMMA NonDisconnectCloseKept ==
    ASSUME PublishingTypeOK, Progress, NEW c \in Conns, NonDisconnectClose(c)
    PROVE  Progress'
<1>1. ASSUME NEW p \in Wills, BeginAsked("will", c, p) PROVE Progress'
  BY <1>1, BeginAskedKept, PublishingAssumption DEF Kinds
<1>2. ASSUME UNCHANGED pubVars PROVE Progress'
  BY <1>2, ProgressUnchanged DEF pubVars
<1> QED  BY <1>1, <1>2 DEF NonDisconnectClose

LEMMA PartDoneKept ==
    ASSUME PublishingTypeOK, Progress, NEW n \in Pubs, NEW part, PartDone(n, part)
    PROVE  Progress'
<1>0. /\ stage \in [Pubs -> Stages] /\ left \in [Pubs -> SUBSET PartNames] /\ acked \subseteq Pubs
      /\ count \in Nat /\ Pubs \subseteq Nat
  BY TypesSplit, PublishingAssumption DEF PubTyped, Pubs
<1>1. /\ part \in left[n] /\ left' = [left EXCEPT ![n] = @ \ {part}]
      /\ stage' = [stage EXCEPT ![n] = IF @ = "store" /\ Ends(n, part) THEN Stored(info[n]) ELSE @]
      /\ UNCHANGED <<count, info, acked>>
  BY DEF PartDone
<1>2. stage[n] = "store" /\ n \notin acked
  BY <1>0, <1>1 DEF Progress, LeftInStore, AckedIsOut
<1>3. CASE Ends(n, part)
  <2>1. left'[n] = {} /\ stage'[n] = Stored(info[n])
    BY <1>0, <1>1, <1>2, <1>3 DEF Ends
  <2> QED  BY <1>0, <1>1, <1>2, <2>1 DEF Progress, LeftInStore, Fresh, AckedIsOut
<1>4. CASE ~Ends(n, part)
  <2>1. stage' = stage
    BY <1>0, <1>1, <1>4
  <2> QED  BY <1>0, <1>1, <1>2, <2>1 DEF Progress, LeftInStore, Fresh, AckedIsOut
<1> QED  BY <1>3, <1>4

LEMMA AnswerKept ==
    ASSUME PublishingTypeOK, Progress, NEW n \in Pubs, Answer(n)
    PROVE  Progress'
<1>0. /\ stage \in [Pubs -> Stages] /\ left \in [Pubs -> SUBSET PartNames] /\ acked \subseteq Pubs
      /\ count \in Nat /\ Pubs \subseteq Nat /\ info \in [Pubs -> Info]
  BY TypesSplit, PublishingAssumption DEF PubTyped, Pubs
<1>1. CASE Refuse(n)
  BY <1>0, <1>1 DEF Refuse, Progress, LeftInStore, Fresh, AckedIsOut
<1>2. CASE Ignore(n)
  BY <1>0, <1>2 DEF Ignore, Acknowledge, Progress, LeftInStore, Fresh, AckedIsOut
<1>3. CASE Accept(n)
  <2> DEFINE i == [info[n] EXCEPT !.packet.qos = Lowered(@)]
  <2>1. /\ info' = [info EXCEPT ![n] = i]
        /\ stage' = [stage EXCEPT ![n] = StoreStage(i)]
        /\ left' = [left EXCEPT ![n] = Parts(i.packet)]
        /\ stage[n] = "auth" /\ UNCHANGED <<count, acked>>
    BY <1>3 DEF Accept
  <2> HIDE DEF i
  <2>2. LeftInStore'
    BY <1>0, <2>1, StoreStageLeft DEF Progress, LeftInStore
  <2>3. Fresh'
    BY <1>0, <2>1 DEF Progress, Fresh
  <2>4. AckedIsOut'
    BY <1>0, <2>1 DEF Progress, AckedIsOut
  <2> QED  BY <2>2, <2>3, <2>4 DEF Progress
<1>4. CASE StoreRetained(n) \/ StoreCallback(n)
  BY <1>4, PartDoneKept DEF StoreRetained, StoreCallback
<1>5. CASE Route(n)
  BY <1>0, <1>5 DEF Route, Progress, LeftInStore, Fresh, AckedIsOut
<1>6. CASE Published(n)
  BY <1>0, <1>6 DEF Published, Acknowledge, Progress, LeftInStore, Fresh, AckedIsOut
<1> QED  BY <1>1, <1>2, <1>3, <1>4, <1>5, <1>6 DEF Answer

LEMMA ClientKept ==
    ASSUME PublishingTypeOK, Progress, NEW c \in Conns, Client(c)
    PROVE  Progress'
<1>1. CASE Lose(c)
  BY <1>1, NonDisconnectCloseKept DEF Lose
<1>2. CASE Publish(c)
  BY <1>2, BeginAskedKept DEF Publish, Kinds
<1>3. CASE LookupFails(c)
  BY <1>3, NonDisconnectCloseKept, ProgressUnchanged DEF LookupFails, pubVars
<1>4. CASE UNCHANGED pubVars
  BY <1>4, ProgressUnchanged DEF pubVars
<1> QED
  BY <1>1, <1>2, <1>3, <1>4 DEF Client, Disconnect, Cleanup, Subscribe, SubscribeAnswer, LookupRetained, ForwardRetained

LEMMA BrokerKept ==
    ASSUME PublishingTypeOK, Progress, NEW b \in Brokers, Broker(b)
    PROVE  Progress'
<1>1. CASE ApplicationPublish(b)
  BY <1>1, BeginStoredKept DEF ApplicationPublish, Kinds
<1>2. CASE UNCHANGED <<count, info, stage, left, acked>>
  BY <1>2, ProgressUnchanged
<1> QED  BY <1>1, <1>2 DEF Broker, Receive, ServerClose, ServerClosed, pubVars

LEMMA ProgressKept ==
    ASSUME PublishingTypeOK, Progress, [PublishingNext]_publishingState
    PROVE  Progress'
<1>1. CASE UNCHANGED publishingState
  BY <1>1, ProgressUnchanged DEF publishingState, publishingVars, pubVars
<1> QED  BY <1>1, ClientKept, AnswerKept, BrokerKept DEF PublishingNext

-----------------------------------------------------------------------------
(* What a step leaves alone *)

Out == {"routed", "done"}

Settled(n) == stage[n] \notin {"none", "auth"}

\* A publication that was accepted stays what it is, no connection opens, what
\* was forwarded stays forwarded, and only these actions store and route.
Frame ==
    /\ \A n \in Pubs : Settled(n) => info'[n] = info[n] /\ Settled(n)'
    /\ \A n \in Pubs : \/ Route(n)
                       \/ reach'[n] = reach[n] /\ (stage'[n] \in Out => stage[n] \in Out)
    /\ \A c \in Conns : Open(c)' => Open(c)
    /\ \A c \in Conns : got[c] \subseteq got'[c]
    /\ UNCHANGED storeVars \/ \E n \in Pubs : StoreRetained(n)

\* What a step does to the SUBSCRIBE of c.
SubFrame(c) ==
    \/ sub'[c] = sub[c] /\ saw'[c] = saw[c] /\ readAt'[c] = readAt[c]
    \/ sub'[c] \in {"asked", "held"} /\ UNCHANGED readAt
    \/ LookupRetained(c) \/ ForwardRetained(c) \/ LookupFails(c)

\* What a step does to what is on its way to b.
WayFrame(b) == way'[b] = way[b] \/ (\E n \in Pubs : Route(n)) \/ Receive(b) \/ ServerClosed(b)

\* A publication that begins was not settled.
LEMMA BeginFrame ==
    ASSUME PublishingTypeOK, Progress, NEW kind \in Kinds, NEW from \in Conns \cup Brokers \cup {None},
           NEW p \in Packet, NEW s \in Stages \ Out, Begin(kind, from, p, s), reach' = reach
    PROVE  /\ \A n \in Pubs : Settled(n) => info'[n] = info[n] /\ Settled(n)'
           /\ \A n \in Pubs : reach'[n] = reach[n] /\ (stage'[n] \in Out => stage[n] \in Out)
<1>1. /\ count + 1 \in Pubs /\ stage'[count + 1] = s
      /\ \A n \in Pubs \ {count + 1} : info'[n] = info[n] /\ stage'[n] = stage[n]
  BY BeginTyped
<1>2. stage[count + 1] = "none"
  BY <1>1, TypesSplit, PublishingAssumption DEF Progress, Fresh, PubTyped
<1> QED  BY <1>1, <1>2 DEF Settled

LEMMA BeginAskedFrame ==
    ASSUME PublishingTypeOK, Progress, NEW kind \in Kinds, NEW from \in Conns \cup Brokers \cup {None},
           NEW p \in Packets, BeginAsked(kind, from, p)
    PROVE  /\ \A n \in Pubs : Settled(n) => info'[n] = info[n] /\ Settled(n)'
           /\ \A n \in Pubs : reach'[n] = reach[n] /\ (stage'[n] \in Out => stage[n] \in Out)
           /\ way' = way
<1>1. p \in Packet /\ "auth" \in Stages \ Out
  BY PublishingAssumption DEF Stages, Out
<1>2. Begin(kind, from, p, "auth") /\ reach' = reach /\ way' = way
  BY DEF BeginAsked
<1> QED  BY <1>1, <1>2, BeginFrame

LEMMA BeginStoredFrame ==
    ASSUME PublishingTypeOK, Progress, NEW kind \in Kinds, NEW from \in Conns \cup Brokers \cup {None},
           NEW p \in Packets, BeginStored(kind, from, p)
    PROVE  /\ \A n \in Pubs : Settled(n) => info'[n] = info[n] /\ Settled(n)'
           /\ \A n \in Pubs : reach'[n] = reach[n] /\ (stage'[n] \in Out => stage[n] \in Out)
           /\ way' = way
<1> DEFINE i == [kind |-> kind, from |-> from, packet |-> p]
<1>1. p \in Packet /\ StoreStage(i) \in Stages \ Out
  BY PublishingAssumption DEF Stages, Out, StoreStage, Stored
<1>2. Begin(kind, from, p, StoreStage(i)) /\ reach' = reach /\ way' = way
  BY DEF BeginStored
<1> HIDE DEF i
<1> QED  BY <1>1, <1>2, BeginFrame

\* The publications in Frame, and where they go.
PubFrame ==
    /\ \A n \in Pubs : Settled(n) => info'[n] = info[n] /\ Settled(n)'
    /\ \A n \in Pubs : reach'[n] = reach[n] /\ (stage'[n] \in Out => stage[n] \in Out)
    /\ way' = way

LEMMA PubUnchanged == ASSUME UNCHANGED pubVars PROVE PubFrame
  BY DEF PubFrame, pubVars, Settled

LEMMA NonDisconnectCloseFrame ==
    ASSUME PublishingTypeOK, Progress, NEW c \in Conns, NonDisconnectClose(c)
    PROVE  PubFrame /\ ~Open(c)' /\ \A d \in Conns : Open(d)' => Open(d)
<1>1. PubFrame
  <2>1. ASSUME NEW p \in Wills, BeginAsked("will", c, p) PROVE PubFrame
    BY <2>1, BeginAskedFrame, PublishingAssumption DEF Kinds, PubFrame
  <2> QED  BY <2>1, PubUnchanged DEF NonDisconnectClose
<1>2. conn \in [Conns -> ConnStates] /\ Close({c})
  BY TypesSplit DEF NonDisconnectClose, ServersTyped
<1>3. \A d \in Conns : conn'[d] = "open" => conn[d] = "open" /\ d \notin {c}
  BY <1>2, CloseTyped
<1> QED  BY <1>1, <1>3 DEF Open

LEMMA ClientFrame ==
    ASSUME PublishingTypeOK, Progress, NEW c \in Conns, Client(c)
    PROVE  Frame /\ way' = way
<1>1. conn \in [Conns -> ConnStates] /\ got \in [Conns -> SUBSET Pubs]
  BY TypesSplit DEF ServersTyped, SubTyped
<1> DEFINE Rest == (\A d \in Conns : Open(d)' => Open(d)) /\ (\A d \in Conns : got[d] \subseteq got'[d])
<1>2. PubFrame /\ UNCHANGED storeVars
  <2>1. CASE Lose(c) \/ (LookupFails(c) /\ Open(c))
    BY <2>1, NonDisconnectCloseFrame DEF Lose, LookupFails, NonDisconnectClose
  <2>2. CASE Publish(c)
    BY <2>2, BeginAskedFrame DEF Publish, Kinds, PubFrame
  <2>3. CASE UNCHANGED <<pubVars, storeVars>>
    BY <2>3, PubUnchanged
  <2> QED
    BY <2>1, <2>2, <2>3
       DEF Client, Disconnect, Cleanup, Subscribe, SubscribeAnswer, LookupRetained, ForwardRetained, LookupFails
<1> SUFFICES Rest
  BY <1>2 DEF Frame, PubFrame
<1>3. CASE Disconnect(c)
  <2>1. \A d \in Conns : conn'[d] = "open" => conn[d] = "open"
    BY <1>1, <1>3, CloseTyped DEF Disconnect
  <2> QED  BY <1>3, <2>1 DEF Disconnect, subVars, Open
<1>4. CASE Lose(c)
  BY <1>4, NonDisconnectCloseFrame DEF Lose, subVars
<1>5. CASE Cleanup(c)
  BY <1>1, <1>5 DEF Cleanup, subVars, Open
<1>6. CASE Subscribe(c) \/ SubscribeAnswer(c) \/ LookupRetained(c)
  BY <1>6 DEF Subscribe, SubscribeAnswer, LookupRetained, Open
<1>7. CASE ForwardRetained(c)
  BY <1>1, <1>7 DEF ForwardRetained, Open
<1>8. CASE LookupFails(c)
  BY <1>8, NonDisconnectCloseFrame DEF LookupFails, Open
<1>9. CASE Publish(c)
  BY <1>9 DEF Publish, subVars, Open
<1> QED  BY <1>3, <1>4, <1>5, <1>6, <1>7, <1>8, <1>9 DEF Client

\* An answer to a publication leaves the subscribers alone.
LEMMA AnswerFrame ==
    ASSUME PublishingTypeOK, Progress, NEW n \in Pubs, Answer(n)
    PROVE  Frame /\ UNCHANGED subVars /\ (Route(n) \/ way' = way)
<1>0. /\ stage \in [Pubs -> Stages] /\ reach \in [Pubs -> SUBSET Conns] /\ info \in [Pubs -> Info]
      /\ conn \in [Conns -> ConnStates]
  BY TypesSplit DEF PubTyped, ServersTyped
<1>1. UNCHANGED subVars /\ (Route(n) \/ way' = way)
  BY DEF Answer, Refuse, Ignore, Accept, StoreRetained, StoreCallback, PartDone, Route, Published
<1>2. \A d \in Conns : Open(d)' => Open(d)
  <2>1. CASE Refuse(n)
    <3>1. \A d \in Conns : conn'[d] = "open" => conn[d] = "open"
      BY <1>0, <2>1, CloseTyped DEF Refuse
    <3> QED  BY <3>1 DEF Open
  <2> QED
    BY <2>1 DEF Answer, Ignore, Accept, StoreRetained, StoreCallback, PartDone, Route, Published, Open
<1>3. UNCHANGED storeVars \/ StoreRetained(n)
  BY DEF Answer, Refuse, Ignore, Accept, StoreCallback, Route, Published
<1>4. \A m \in Pubs : Settled(m) => info'[m] = info[m] /\ Settled(m)'
  <2>1. CASE Refuse(n) \/ Ignore(n) \/ Route(n) \/ Published(n)
    BY <1>0, <2>1 DEF Refuse, Ignore, Route, Published, Settled
  <2>2. CASE Accept(n)
    <3>1. stage[n] = "auth" /\ \A m \in Pubs : m # n => info'[m] = info[m] /\ stage'[m] = stage[m]
      BY <1>0, <2>2 DEF Accept
    <3> QED  BY <3>1 DEF Settled
  <2>3. ASSUME NEW part, PartDone(n, part) PROVE \A m \in Pubs : Settled(m) => info'[m] = info[m] /\ Settled(m)'
    BY <1>0, <2>3, StoreStageLeft DEF PartDone, Settled
  <2> QED  BY <2>1, <2>2, <2>3 DEF Answer, StoreRetained, StoreCallback
<1>5. \A m \in Pubs : Route(m) \/ (reach'[m] = reach[m] /\ (stage'[m] \in Out => stage[m] \in Out))
  <2>1. CASE Refuse(n) \/ Ignore(n) \/ Route(n) \/ Published(n)
    BY <1>0, <2>1 DEF Refuse, Ignore, Route, Published, Out
  <2>2. CASE Accept(n)
    <3>1. \A i : StoreStage(i) \notin Out
      BY DEF StoreStage, Stored, Out
    <3>2. \A m \in Pubs : stage'[m] = stage[m] \/ stage'[m] \notin Out
      BY <1>0, <2>2, <3>1 DEF Accept
    <3> QED  BY <2>2, <3>2 DEF Accept
  <2>3. ASSUME NEW part, PartDone(n, part)
        PROVE  \A m \in Pubs : reach'[m] = reach[m] /\ (stage'[m] \in Out => stage[m] \in Out)
    BY <1>0, <2>3, StoreStageLeft DEF PartDone, Out
  <2> QED  BY <2>1, <2>2, <2>3 DEF Answer, StoreRetained, StoreCallback
<1> QED  BY <1>1, <1>2, <1>3, <1>4, <1>5 DEF Frame, subVars

LEMMA BrokerFrame ==
    ASSUME PublishingTypeOK, Progress, NEW b \in Brokers, Broker(b)
    PROVE  Frame /\ UNCHANGED <<sub, saw, readAt>>
<1>0. conn \in [Conns -> ConnStates] /\ got \in [Conns -> SUBSET Pubs]
  BY TypesSplit DEF ServersTyped, SubTyped
<1>1. CASE ApplicationPublish(b)
  BY <1>1, BeginStoredFrame DEF ApplicationPublish, Kinds, Frame, subVars, Open
<1>2. CASE Receive(b)
  <2>1. \A c \in Conns : got[c] \subseteq got'[c]
    BY <1>0, <1>2 DEF Receive
  <2> QED  BY <1>2, <2>1 DEF Receive, Frame, Open, Settled, storeVars
<1>3. CASE ServerClose(b)
  <2>1. \A d \in Conns : conn'[d] = "open" => conn[d] = "open"
    BY <1>0, <1>3, ClosedTyped DEF ServerClose
  <2> QED  BY <1>3, <2>1 DEF ServerClose, Frame, Open, Settled, subVars, pubVars
<1>4. CASE ServerClosed(b)
  BY <1>4 DEF ServerClosed, Frame, Open, Settled, subVars
<1> QED  BY <1>1, <1>2, <1>3, <1>4 DEF Broker

LEMMA FrameHolds ==
    ASSUME PublishingTypeOK, Progress, [PublishingNext]_publishingState
    PROVE  Frame
<1>1. CASE UNCHANGED publishingState
  BY <1>1 DEF publishingState, publishingVars, subVars, pubVars, Frame, Open, Settled
<1> QED  BY <1>1, ClientFrame, AnswerFrame, BrokerFrame DEF PublishingNext

LEMMA SubFrameHolds ==
    ASSUME PublishingTypeOK, Progress, [PublishingNext]_publishingState, NEW c \in Conns
    PROVE  SubFrame(c)
<1>0. sub \in [Conns -> {"none", "asked", "held", "looked", "done"}] /\ saw \in [Conns -> 0 .. MaxPubs]
      /\ readAt \in [Conns -> Nat]
  BY TypesSplit DEF SubTyped
<1>1. CASE UNCHANGED <<sub, saw, readAt>>
  BY <1>1 DEF SubFrame
<1>2. ASSUME NEW d \in Conns, Client(d) PROVE SubFrame(c)
  <2>1. CASE Disconnect(d) \/ Lose(d) \/ Cleanup(d) \/ Publish(d)
    BY <1>1, <2>1 DEF Disconnect, Lose, Cleanup, Publish, subVars
  <2>2. CASE Subscribe(d) \/ SubscribeAnswer(d)
    BY <1>0, <2>2 DEF Subscribe, SubscribeAnswer, SubFrame
  <2>3. CASE LookupRetained(d)
    BY <1>0, <2>3 DEF LookupRetained, SubFrame
  <2>4. CASE ForwardRetained(d)
    BY <1>0, <2>4 DEF ForwardRetained, SubFrame
  <2>5. CASE LookupFails(d)
    BY <1>0, <2>5 DEF LookupFails, SubFrame
  <2> QED  BY <1>2, <2>1, <2>2, <2>3, <2>4, <2>5 DEF Client
<1>3. CASE UNCHANGED publishingState
  BY <1>1, <1>3 DEF publishingState, publishingVars, subVars
<1> QED  BY <1>1, <1>2, <1>3, AnswerFrame, BrokerFrame DEF PublishingNext, subVars

LEMMA WayFrameHolds ==
    ASSUME PublishingTypeOK, Progress, [PublishingNext]_publishingState, NEW b \in Brokers
    PROVE  WayFrame(b)
<1>0. way \in [Brokers -> Seq(Pubs)]
  BY TypesSplit DEF PubTyped
<1>1. ASSUME NEW a \in Brokers, Broker(a) PROVE WayFrame(b)
  <2>1. CASE ApplicationPublish(a)
    BY <2>1, BeginStoredFrame DEF ApplicationPublish, Kinds, WayFrame
  <2>2. CASE Receive(a)
    BY <1>0, <2>2 DEF Receive, WayFrame
  <2>3. CASE ServerClose(a)
    BY <2>3 DEF ServerClose, WayFrame, pubVars
  <2>4. CASE ServerClosed(a)
    BY <1>0, <2>4 DEF ServerClosed, WayFrame
  <2> QED  BY <1>1, <2>1, <2>2, <2>3, <2>4 DEF Broker
<1>2. CASE UNCHANGED publishingState
  BY <1>2 DEF publishingState, publishingVars, pubVars, WayFrame
<1> QED  BY <1>1, <1>2, ClientFrame, AnswerFrame DEF PublishingNext, WayFrame

-----------------------------------------------------------------------------
(* What a subscriber has of the retained publications *)

\* The retained packet after the first k writes.
After(k) == IF k = 0 THEN 0 ELSE IF info[puts[k]].packet.empty THEN 0 ELSE puts[k]

\* What was written was accepted, and the last of it is what is retained.
Writes ==
    /\ \A i \in DOMAIN puts : Settled(puts[i])
    /\ retained = After(Len(puts))

\* A lookup finds the packet of its time, and forwards it.
Lookups ==
    /\ \A c \in Conns : readAt[c] <= Len(puts)
    /\ \A c \in Conns : sub[c] = "looked" => saw[c] = After(readAt[c])
    /\ \A c \in Conns : (Open(c) /\ sub[c] = "done" /\ After(readAt[c]) # 0) => After(readAt[c]) \in got[c]

\* What is written after the lookup is routed to the subscriber.
Reached ==
    \A c \in Conns, n \in Pubs : \A i \in DOMAIN puts :
        (Open(c) /\ sub[c] \in {"looked", "done"} /\ stage[n] \in Out /\ puts[i] = n)
        => (i <= readAt[c] \/ c \in reach[n])

\* What is routed to an open connection is on its way or forwarded.
OnTheWay ==
    /\ \A c \in Conns : Open(c) => up[Home[c]] = "up"
    /\ \A c \in Conns, n \in Pubs :
          (c \in reach[n] /\ Open(c) /\ stage[n] \in Out)
          => (n \in got[c] \/ \E k \in DOMAIN way[Home[c]] : way[Home[c]][k] = n)

LEMMA AfterKept ==
    ASSUME PublishingTypeOK, Writes, Frame
    PROVE  /\ Len(puts') \in Nat /\ Len(puts) <= Len(puts')
           /\ \A i \in DOMAIN puts : i \in DOMAIN puts' /\ puts'[i] = puts[i]
           /\ \A k \in 0 .. Len(puts) : After(k)' = After(k)
<1>0. puts \in Seq(Pubs) /\ Len(puts) \in Nat
  BY TypesSplit DEF StoreTyped
<1>1. /\ Len(puts') \in Nat /\ Len(puts) <= Len(puts')
      /\ \A i \in DOMAIN puts : i \in DOMAIN puts' /\ puts'[i] = puts[i]
  <2>1. CASE UNCHANGED storeVars
    BY <1>0, <2>1 DEF storeVars
  <2>2. ASSUME NEW n \in Pubs, StoreRetained(n)
        PROVE  /\ Len(puts') \in Nat /\ Len(puts) <= Len(puts')
               /\ \A i \in DOMAIN puts : i \in DOMAIN puts' /\ puts'[i] = puts[i]
    BY <1>0, <2>2 DEF StoreRetained
  <2> QED  BY <2>1, <2>2 DEF Frame
<1>2. ASSUME NEW k \in 1 .. Len(puts) PROVE After(k)' = After(k)
  <2>1. k \in DOMAIN puts /\ puts[k] \in Pubs
    BY <1>0
  <2>2. puts'[k] = puts[k] /\ info'[puts[k]] = info[puts[k]]
    BY <1>1, <2>1 DEF Writes, Frame
  <2> QED  BY <2>2 DEF After
<1>3. After(0)' = After(0)
  BY DEF After
<1>4. \A k \in 0 .. Len(puts) : k = 0 \/ k \in 1 .. Len(puts)
  BY <1>0
<1> QED  BY <1>1, <1>2, <1>3, <1>4

LEMMA WritesKept ==
    ASSUME PublishingTypeOK, Progress, Writes, Frame
    PROVE  Writes'
<1>0. /\ puts \in Seq(Pubs) /\ Len(puts) \in Nat /\ info \in [Pubs -> Info]
      /\ stage \in [Pubs -> Stages] /\ left \in [Pubs -> SUBSET PartNames]
  BY TypesSplit DEF StoreTyped, PubTyped
<1>1. \A i \in DOMAIN puts : puts[i] \in Pubs /\ stage'[puts[i]] \notin {"none", "auth"}
  <2>1. \A n \in Pubs : Settled(n) => stage'[n] \notin {"none", "auth"}
    BY DEF Frame, Settled
  <2> QED  BY <1>0, <2>1 DEF Writes
<1>2. CASE UNCHANGED storeVars
  <2>1. After(Len(puts))' = After(Len(puts))
    BY <1>0, <1>2, AfterKept DEF storeVars
  <2> QED  BY <1>1, <1>2, <2>1 DEF Writes, storeVars, Settled
<1>3. ASSUME NEW n \in Pubs, StoreRetained(n) PROVE Writes'
  <2>1. /\ puts' = Append(puts, n) /\ retained' = IF info[n].packet.empty THEN 0 ELSE n
        /\ "retained" \in left[n] /\ info' = info
    BY <1>3 DEF StoreRetained, PartDone
  <2>2. Settled(n)
    BY <2>1 DEF Progress, LeftInStore, Settled
  <2>3. Settled(n)'
    BY <2>2 DEF Frame
  <2>4. /\ Len(puts') = Len(puts) + 1 /\ puts'[Len(puts) + 1] = n
        /\ \A i \in DOMAIN puts' : puts'[i] = n \/ (i \in DOMAIN puts /\ puts'[i] = puts[i])
    BY <1>0, <2>1
  <2>5. (\A i \in DOMAIN puts : Settled(puts[i]))'
    BY <2>3, <2>4, <1>1 DEF Settled
  <2>6. (retained = After(Len(puts)))'
    <3>1. Len(puts') # 0 /\ puts'[Len(puts')] = n
      BY <1>0, <2>4
    <3> QED  BY <2>1, <3>1 DEF After
  <2> QED  BY <2>5, <2>6 DEF Writes
<1> QED  BY <1>2, <1>3 DEF Frame

\* A lookup that fails closes its connection.
LEMMA FailedCloses ==
    ASSUME PublishingTypeOK, Progress, NEW c \in Conns, LookupFails(c)
    PROVE  ~Open(c)'
<1>1. CASE Open(c)
  BY <1>1, NonDisconnectCloseFrame DEF LookupFails
<1>2. CASE ~Open(c)
  BY <1>2 DEF LookupFails, Open
<1> QED  BY <1>1, <1>2

LEMMA LookupsKept ==
    ASSUME PublishingTypeOK, Progress, Writes, Lookups, Frame, NEW c \in Conns, SubFrame(c)
    PROVE  /\ readAt'[c] <= Len(puts')
           /\ sub'[c] = "looked" => saw'[c] = After(readAt[c])'
           /\ (Open(c)' /\ sub'[c] = "done" /\ After(readAt[c])' # 0) => After(readAt[c])' \in got'[c]
<1> DEFINE Goal == /\ readAt'[c] <= Len(puts')
                   /\ sub'[c] = "looked" => saw'[c] = After(readAt[c])'
                   /\ (Open(c)' /\ sub'[c] = "done" /\ After(readAt[c])' # 0) => After(readAt[c])' \in got'[c]
<1> SUFFICES Goal
  OBVIOUS
<1>0. /\ sub \in [Conns -> {"none", "asked", "held", "looked", "done"}]
      /\ readAt \in [Conns -> Nat] /\ saw \in [Conns -> 0 .. MaxPubs] /\ got \in [Conns -> SUBSET Pubs]
      /\ Len(puts) \in Nat
  BY TypesSplit DEF SubTyped, StoreTyped
<1>1. /\ Len(puts') \in Nat /\ Len(puts) <= Len(puts')
      /\ \A k \in 0 .. Len(puts) : After(k)' = After(k)
  BY AfterKept
<1>2. readAt[c] \in 0 .. Len(puts) /\ After(readAt[c]) \in {After(readAt[c])}
  BY <1>0 DEF Lookups
<1>3. readAt'[c] = readAt[c] => After(readAt[c])' = After(readAt[c]) /\ readAt'[c] <= Len(puts')
  <2>1. ASSUME readAt'[c] = readAt[c] PROVE After(readAt[c])' = After(readAt[c])
    <3> DEFINE k == readAt[c]
    <3>1. \A j \in 0 .. Len(puts) :
             (IF j = 0 THEN 0 ELSE IF info'[puts'[j]].packet.empty THEN 0 ELSE puts'[j]) = After(j)
      BY <1>1 DEF After
    <3> QED  BY <1>2, <2>1, <3>1 DEF After
  <2> QED  BY <1>0, <1>1, <1>2, <2>1
<1>4. CASE sub'[c] = sub[c] /\ saw'[c] = saw[c] /\ readAt'[c] = readAt[c]
  BY <1>3, <1>4 DEF Lookups, Frame
<1>5. CASE sub'[c] \in {"asked", "held"} /\ UNCHANGED readAt
  BY <1>3, <1>5
<1>6. CASE LookupRetained(c)
  <2>1. /\ sub'[c] = "looked" /\ saw'[c] = retained /\ readAt'[c] = Len(puts)
        /\ UNCHANGED <<info, puts>>
    BY <1>0, <1>6 DEF LookupRetained, pubVars, storeVars
  <2>2. After(readAt[c])' = After(Len(puts))
    BY <2>1 DEF After
  <2> QED  BY <1>0, <2>1, <2>2 DEF Writes
<1>7. CASE ForwardRetained(c)
  <2>1. /\ sub[c] = "looked" /\ sub'[c] = "done" /\ readAt' = readAt /\ conn' = conn
        /\ got'[c] = IF Open(c) /\ saw[c] # 0 THEN got[c] \cup {saw[c]} ELSE got[c]
    BY <1>0, <1>7 DEF ForwardRetained
  <2>2. saw[c] = After(readAt[c]) /\ (Open(c)' <=> Open(c))
    BY <2>1 DEF Lookups, Open
  <2> QED  BY <1>3, <2>1, <2>2
<1>8. CASE LookupFails(c)
  <2>1. sub'[c] = "done" /\ readAt' = readAt
    BY <1>0, <1>8 DEF LookupFails
  <2> QED  BY <1>3, <1>8, <2>1, FailedCloses
<1> QED  BY <1>4, <1>5, <1>6, <1>7, <1>8 DEF SubFrame

LEMMA ReachedKept ==
    ASSUME PublishingTypeOK, Progress, Writes, Lookups, Reached, Frame,
           NEW c \in Conns, SubFrame(c), NEW n \in Pubs, NEW i \in DOMAIN puts',
           Open(c)', sub'[c] \in {"looked", "done"}, stage'[n] \in Out, puts'[i] = n
    PROVE  i <= readAt'[c] \/ c \in reach'[n]
<1>0. /\ sub \in [Conns -> {"none", "asked", "held", "looked", "done"}]
      /\ readAt \in [Conns -> Nat] /\ puts \in Seq(Pubs)
      /\ stage \in [Pubs -> Stages] /\ reach \in [Pubs -> SUBSET Conns]
  BY TypesSplit DEF SubTyped, StoreTyped, PubTyped
<1>1. Open(c)
  BY DEF Frame
<1>2. CASE Route(n)
  <2>1. sub'[c] = sub[c] /\ reach'[n] = {d \in Conns : sub[d] \in HasHandler /\ conn[d] # "closed"}
    BY <1>0, <1>2 DEF Route, subVars
  <2> QED  BY <1>1, <2>1 DEF HasHandler, Open
<1>3. CASE reach'[n] = reach[n] /\ stage[n] \in Out
  <2>1. i \in DOMAIN puts /\ puts[i] = n
    <3>1. CASE UNCHANGED storeVars
      BY <3>1 DEF storeVars
    <3>2. ASSUME NEW m \in Pubs, StoreRetained(m) PROVE i \in DOMAIN puts /\ puts[i] = n
      <4>1. puts' = Append(puts, m) /\ stage[m] = "store"
        BY <3>2 DEF StoreRetained, PartDone, Progress, LeftInStore
      <4>2. m # n
        BY <1>3, <4>1 DEF Out
      <4> QED  BY <1>0, <4>1, <4>2
    <3> QED  BY <3>1, <3>2 DEF Frame
  <2>2. CASE sub'[c] = sub[c] /\ readAt'[c] = readAt[c]
    BY <1>1, <1>3, <2>1, <2>2 DEF Reached
  <2>3. CASE LookupRetained(c)
    <3>1. readAt'[c] = Len(puts)
      BY <1>0, <2>3 DEF LookupRetained
    <3> QED  BY <1>0, <2>1, <3>1
  <2>4. CASE ForwardRetained(c)
    <3>1. sub[c] = "looked" /\ readAt' = readAt
      BY <2>4 DEF ForwardRetained
    <3> QED  BY <1>1, <1>3, <2>1, <3>1 DEF Reached
  <2> QED  BY <2>2, <2>3, <2>4, FailedCloses DEF SubFrame
<1> QED  BY <1>2, <1>3 DEF Frame

LEMMA HomeUpKept ==
    ASSUME PublishingTypeOK, Progress, OnTheWay, [PublishingNext]_publishingState, Frame,
           NEW c \in Conns, Open(c)'
    PROVE  up'[Home[c]] = "up"
<1>0. up \in Ups /\ conn \in [Conns -> ConnStates] /\ Home[c] \in Brokers
  BY TypesSplit, ServersAssumption DEF ServersTyped
<1>1. up[Home[c]] = "up"
  BY DEF OnTheWay, Frame
<1>2. CASE up' = up
  BY <1>1, <1>2
<1>3. ASSUME NEW b \in Brokers, ServerClose(b) PROVE up'[Home[c]] = "up"
  <2>1. \A d \in Conns : conn'[d] = "open" => d \notin {e \in Conns : Home[e] = b}
    BY <1>0, <1>3, ClosedTyped DEF ServerClose
  <2>2. Home[c] # b
    BY <2>1 DEF Open
  <2> QED  BY <1>0, <1>1, <1>3, <2>2 DEF ServerClose, Ups
<1>4. ASSUME NEW b \in Brokers, ServerClosed(b) PROVE up'[Home[c]] = "up"
  BY <1>0, <1>1, <1>4 DEF ServerClosed, Stopped, Ups
<1>5. ASSUME NEW b \in Brokers, ApplicationPublish(b) \/ Receive(b) PROVE up' = up
  BY <1>5 DEF ApplicationPublish, Receive
<1>6. ASSUME NEW n \in Pubs, Answer(n) PROVE up' = up
  BY <1>6 DEF Answer, Refuse, Ignore, Accept, StoreRetained, StoreCallback, PartDone, Route, Published
<1>7. ASSUME NEW d \in Conns, Client(d) PROVE up' = up
  BY <1>7 DEF Client, Disconnect, Lose, Cleanup, Subscribe, SubscribeAnswer, LookupRetained, ForwardRetained,
     LookupFails, Publish, NonDisconnectClose
<1>8. CASE UNCHANGED publishingState
  BY <1>2, <1>8 DEF publishingState
<1> QED  BY <1>2, <1>3, <1>4, <1>5, <1>6, <1>7, <1>8 DEF PublishingNext, Broker

\* A publication on its way stays on it until it is received.
LEMMA WayKept ==
    ASSUME PublishingTypeOK, Progress, OnTheWay, Frame,
           NEW c \in Conns, WayFrame(Home[c]), NEW n \in Pubs, Open(c), Open(c)',
           NEW k \in DOMAIN way[Home[c]], way[Home[c]][k] = n, c \in reach[n]
    PROVE  n \in got'[c] \/ \E j \in DOMAIN way'[Home[c]] : way'[Home[c]][j] = n
<1> DEFINE b == Home[c]
<1>0. /\ way \in [Brokers -> Seq(Pubs)] /\ b \in Brokers /\ got \in [Conns -> SUBSET Pubs]
      /\ way[b] \in Seq(Pubs)
  BY TypesSplit, ServersAssumption DEF PubTyped, SubTyped
<1>1. CASE way'[b] = way[b]
  BY <1>1
<1>2. ASSUME NEW m \in Pubs, Route(m) PROVE \E j \in DOMAIN way'[b] : way'[b][j] = n
  <2>1. way'[b] = way[b] \/ way'[b] = Append(way[b], m)
    BY <1>0, <1>2 DEF Route
  <2>2. k \in DOMAIN way'[b] /\ way'[b][k] = n
    BY <1>0, <2>1
  <2> QED  BY <2>2
<1>3. CASE Receive(b)
  <2>1. /\ way[b] # <<>> /\ way'[b] = Tail(way[b])
        /\ got'[c] = IF c \in reach[Head(way[b])] /\ Home[c] = b /\ Open(c)
                     THEN got[c] \cup {Head(way[b])} ELSE got[c]
    BY <1>0, <1>3 DEF Receive
  <2>2. CASE k = 1
    BY <1>0, <2>1, <2>2
  <2>3. CASE k # 1
    <3>1. k - 1 \in DOMAIN way'[b] /\ way'[b][k - 1] = n
      BY <1>0, <2>1, <2>3
    <3> QED  BY <3>1
  <2> QED  BY <2>2, <2>3
<1>4. CASE ServerClosed(b)
  BY <1>4 DEF ServerClosed, Stopped, OnTheWay
<1> QED  BY <1>1, <1>2, <1>3, <1>4 DEF WayFrame

LEMMA OnTheWayKept ==
    ASSUME PublishingTypeOK, Progress, OnTheWay, [PublishingNext]_publishingState
    PROVE  OnTheWay'
<1>0. Frame /\ \A b \in Brokers : WayFrame(b)
  BY FrameHolds, WayFrameHolds
<1>1. \A c \in Conns : Home[c] \in Brokers
  BY ServersAssumption
<1>2. ASSUME NEW c \in Conns, NEW n \in Pubs, c \in reach'[n], Open(c)', stage'[n] \in Out
      PROVE  n \in got'[c] \/ \E k \in DOMAIN way'[Home[c]] : way'[Home[c]][k] = n
  <2>1. Open(c) /\ WayFrame(Home[c])
    BY <1>0, <1>1, <1>2 DEF Frame
  <2>2. CASE Route(n)
    <3>1. /\ way \in [Brokers -> Seq(Pubs)] /\ way[Home[c]] \in Seq(Pubs)
          /\ reach \in [Pubs -> SUBSET Conns]
      BY <1>1, TypesSplit DEF PubTyped
    <3>2. way'[Home[c]] = Append(way[Home[c]], n)
      BY <1>1, <1>2, <2>1, <2>2 DEF Route, OnTheWay
    <3>3. Len(way[Home[c]]) + 1 \in DOMAIN way'[Home[c]] /\ way'[Home[c]][Len(way[Home[c]]) + 1] = n
      BY <3>1, <3>2
    <3> QED  BY <3>3
  <2>3. CASE c \in reach[n] /\ stage[n] \in Out
    <3>1. CASE n \in got[c]
      BY <1>0, <3>1 DEF Frame
    <3>2. CASE \E k \in DOMAIN way[Home[c]] : way[Home[c]][k] = n
      BY <1>0, <1>2, <2>1, <2>3, <3>2, WayKept
    <3> QED  BY <2>1, <2>3, <3>1, <3>2 DEF OnTheWay
  <2> QED  BY <1>0, <1>2, <2>2, <2>3 DEF Frame
<1>3. ASSUME NEW c \in Conns, Open(c)' PROVE up'[Home[c]] = "up"
  BY <1>0, <1>3, HomeUpKept
<1> QED  BY <1>2, <1>3 DEF OnTheWay

-----------------------------------------------------------------------------
(* What has come to its end *)

Accepted == {"store", "sent", "dropped", "routed", "done"}

\* Publication n comes from somebody, waits for something while it is stored,
\* has the QoS that was left to it, and is EndedIsAcked.
Ending(n) ==
    /\ stage[n] # "none" => info[n].from \in Conns \cup Brokers
    /\ stage[n] # "none" /\ info[n].kind = "client" => info[n].from \in Conns
    /\ stage[n] \in Accepted /\ info[n].kind = "client" /\ mode = "dropToQoS1" => info[n].packet.qos # 2
    /\ stage[n] = "store" => left[n] # {}
    /\ stage[n] = "dropped" => up[BrokerOf(info[n])] # "up"
    /\ stage[n] \in {"done", "ignored"} /\ Owed(n) => n \in acked \/ ~Open(info[n].from)

Ended == \A n \in Pubs : Ending(n)

\* No broker comes up again, no connection opens, and no PUBACK is taken back.
Onward ==
    /\ mode' = mode
    /\ \A b \in Brokers : up[b] # "up" => up'[b] # "up"
    /\ \A c \in Conns : Open(c)' => Open(c)
    /\ acked \subseteq acked'

LEMMA OnwardHolds ==
    ASSUME PublishingTypeOK, Progress, [PublishingNext]_publishingState
    PROVE  Onward
<1>0. up \in Ups
  BY TypesSplit DEF ServersTyped
<1>1. \A c \in Conns : Open(c)' => Open(c)
  BY FrameHolds DEF Frame
<1> DEFINE Rest == /\ mode' = mode /\ acked \subseteq acked'
                   /\ \A b \in Brokers : up[b] # "up" => up'[b] # "up"
<1>2. ASSUME NEW n \in Pubs, Answer(n) PROVE Rest
  BY <1>2 DEF Answer, Refuse, Ignore, Accept, StoreRetained, StoreCallback, PartDone, Route, Published, Acknowledge
<1>3. ASSUME NEW c \in Conns, Client(c) PROVE Rest
  BY <1>3 DEF Client, Disconnect, Lose, Cleanup, Subscribe, SubscribeAnswer, LookupRetained, ForwardRetained,
     LookupFails, Publish, NonDisconnectClose, BeginAsked, pubVars
<1>4. ASSUME NEW b \in Brokers, Broker(b) PROVE Rest
  <2>1. CASE ApplicationPublish(b) \/ Receive(b)
    BY <2>1 DEF ApplicationPublish, Receive, BeginStored
  <2>2. CASE ServerClose(b) \/ ServerClosed(b)
    BY <1>0, <2>2 DEF ServerClose, ServerClosed, Ups, pubVars
  <2> QED  BY <1>4, <2>1, <2>2 DEF Broker
<1>5. ASSUME UNCHANGED publishingState PROVE Rest
  BY <1>5 DEF publishingState, publishingVars, pubVars
<1> HIDE DEF Rest
<1>6. Rest
  BY <1>2, <1>3, <1>4, <1>5 DEF PublishingNext
<1> QED  BY <1>1, <1>6 DEF Rest, Onward

\* The broker of a publication is a broker.
LEMMA BrokerOfTyped ==
    \A i : i.from \in Conns \cup Brokers => BrokerOf(i) \in Brokers
  BY ServersAssumption DEF BrokerOf

\* What is left alone stays as it is.
LEMMA EndingLeft ==
    ASSUME PublishingTypeOK, Onward, NEW n \in Pubs, Ending(n),
           info'[n] = info[n], stage'[n] = stage[n], left'[n] = left[n]
    PROVE  Ending(n)'
<1>1. BrokerOf(info[n])' = BrokerOf(info[n]) /\ (Owed(n)' <=> Owed(n))
  BY DEF BrokerOf, Owed, Onward
<1>2. stage[n] = "dropped" => up'[BrokerOf(info[n])] # "up"
  BY BrokerOfTyped DEF Ending, Onward
<1>3. stage[n] \in {"done", "ignored"} /\ Owed(n) => n \in acked' \/ ~Open(info[n].from)'
  BY DEF Ending, Onward, Owed
<1> DEFINE f == info[n].from
<1>4. Open(info[n].from)' <=> conn'[info[n].from] = "open"
  BY DEF Open
<1> QED  BY <1>1, <1>2, <1>3, <1>4 DEF Ending, Onward, Open

\* What begins has nothing to wait for, or is stored.
LEMMA BegunEnding ==
    ASSUME PublishingTypeOK, Progress, Onward, Ended,
           NEW kind \in Kinds, NEW from \in Conns \cup Brokers, kind = "client" => from \in Conns,
           NEW p \in Packets, BeginAsked(kind, from, p)
    PROVE  Ended'
<1>1. p \in Packet /\ "auth" \in Stages
  BY PublishingAssumption DEF Stages
<1>2. Begin(kind, from, p, "auth") /\ left' = left
  BY DEF BeginAsked
<1>3. PICK m \in Pubs :
         /\ m = count + 1 /\ stage'[m] = "auth"
         /\ \A n \in Pubs \ {m} : info'[n] = info[n] /\ stage'[n] = stage[n]
  BY <1>1, <1>2, BeginTyped
<1>4. info'[m] = [kind |-> kind, from |-> from, packet |-> p]
  BY <1>2, <1>3, TypesSplit DEF Begin, PubTyped
<1>5. Ending(m)'
  BY <1>3, <1>4 DEF Ending, Accepted
<1>6. ASSUME NEW n \in Pubs, n # m PROVE Ending(n)'
  BY <1>2, <1>3, <1>6, EndingLeft DEF Ended
<1> QED  BY <1>5, <1>6 DEF Ended

LEMMA BegunStoredEnding ==
    ASSUME PublishingTypeOK, Progress, Onward, Ended, UNCHANGED up,
           NEW b \in Brokers, NEW p \in Packets, BeginStored("application", b, p)
    PROVE  Ended'
<1> DEFINE i == [kind |-> "application", from |-> b, packet |-> p]
<1>1. p \in Packet /\ StoreStage(i) \in Stages /\ "application" \in Kinds
  BY PublishingAssumption, StageTyped DEF Kinds
<1>2. i.kind = "application" /\ i.from = b /\ i.packet = p
  OBVIOUS
<1>3. /\ Begin("application", b, p, StoreStage(i)) /\ left' = [left EXCEPT ![count + 1] = Parts(p)]
      /\ info' = [info EXCEPT ![count + 1] = i]
  BY DEF BeginStored, Begin
<1>4. StoreStage(i) = "dropped" => up[BrokerOf(i)] # "up"
  BY DEF StoreStage, Stored
<1>5. StoreStage(i) = "store" => Parts(p) # {}
  BY <1>2 DEF StoreStage, Stored
<1> HIDE DEF i
<1>6. PICK m \in Pubs :
         /\ m = count + 1 /\ stage'[m] = StoreStage(i)
         /\ \A n \in Pubs \ {m} : info'[n] = info[n] /\ stage'[n] = stage[n]
  BY <1>1, <1>3, BeginTyped
<1>7. info'[m] = i /\ left'[m] = Parts(p)
      /\ \A n \in Pubs \ {m} : left'[n] = left[n]
  BY <1>3, <1>6, TypesSplit DEF PubTyped
<1>8. BrokerOf(info[m])' = BrokerOf(i)
  BY <1>7 DEF BrokerOf
<1>9. ~Owed(m)'
  BY <1>2, <1>7 DEF Owed
<1>10. Ending(m)'
  BY <1>2, <1>4, <1>5, <1>6, <1>7, <1>8, <1>9 DEF Ending
<1>11. ASSUME NEW n \in Pubs, n # m PROVE Ending(n)'
  BY <1>6, <1>7, <1>11, EndingLeft DEF Ended
<1> QED  BY <1>10, <1>11 DEF Ended

LEMMA NonDisconnectCloseEnding ==
    ASSUME PublishingTypeOK, Progress, Onward, Ended, NEW c \in Conns, NonDisconnectClose(c)
    PROVE  Ended'
<1>1. ASSUME NEW p \in Wills, BeginAsked("will", c, p) PROVE Ended'
  BY <1>1, BegunEnding, PublishingAssumption DEF Kinds
<1>2. CASE UNCHANGED pubVars
  BY <1>2, EndingLeft DEF pubVars, Ended
<1> QED  BY <1>1, <1>2 DEF NonDisconnectClose

\* A part of storePacket calls back.
LEMMA PartDoneEnding ==
    ASSUME PublishingTypeOK, Progress, Onward, Ended, NEW n \in Pubs, NEW part, PartDone(n, part)
    PROVE  Ending(n)'
<1>0. stage \in [Pubs -> Stages] /\ left \in [Pubs -> SUBSET PartNames] /\ Ending(n)
  BY TypesSplit DEF PubTyped, Ended
<1>1. /\ part \in left[n] /\ left'[n] = left[n] \ {part} /\ UNCHANGED <<info, up, mode>>
      /\ stage'[n] = IF stage[n] = "store" /\ Ends(n, part) THEN Stored(info[n]) ELSE stage[n]
  BY <1>0 DEF PartDone
<1>2. stage[n] = "store"
  BY <1>1 DEF Progress, LeftInStore
<1>3. BrokerOf(info[n])' = BrokerOf(info[n])
  BY <1>1 DEF BrokerOf
<1>4. CASE Ends(n, part)
  <2>1. stage'[n] \in {"sent", "dropped"} /\ (stage'[n] = "dropped" => up[BrokerOf(info[n])] # "up")
    BY <1>1, <1>2, <1>4 DEF Stored
  <2> QED  BY <1>0, <1>1, <1>2, <1>3, <2>1 DEF Ending, Accepted
<1>5. CASE ~Ends(n, part)
  <2>1. left'[n] # {} /\ stage'[n] = "store"
    BY <1>1, <1>2, <1>5 DEF Ends
  <2> QED  BY <1>0, <1>1, <1>2, <2>1 DEF Ending, Accepted
<1> QED  BY <1>4, <1>5

\* It has the QoS 2 no more.
LEMMA AcceptEnding ==
    ASSUME PublishingTypeOK, Progress, Onward, Ended, NEW n \in Pubs, Accept(n)
    PROVE  Ending(n)'
<1> DEFINE i == [info[n] EXCEPT !.packet.qos = Lowered(@)]
<1>0. /\ info \in [Pubs -> Info] /\ stage \in [Pubs -> Stages] /\ left \in [Pubs -> SUBSET PartNames]
      /\ info[n] \in Info /\ Ending(n)
  BY TypesSplit DEF PubTyped, Ended
<1>1. i.kind = info[n].kind /\ i.from = info[n].from
  BY <1>0, AcceptedTyped
<1>2. mode = "dropToQoS1" => i.packet.qos # 2
  <2>1. info[n].packet \in Packet
    BY <1>0 DEF Info
  <2>2. i.packet.qos = Lowered(info[n].packet.qos)
    BY <1>0, <2>1 DEF Info, Packet
  <2> QED  BY <2>2 DEF Lowered
<1>3. /\ info' = [info EXCEPT ![n] = i] /\ stage' = [stage EXCEPT ![n] = StoreStage(i)]
      /\ left' = [left EXCEPT ![n] = Parts(i.packet)] /\ UNCHANGED <<mode, up>> /\ stage[n] = "auth"
  BY DEF Accept
<1> HIDE DEF i
<1>4. info'[n] = i /\ stage'[n] = StoreStage(i) /\ left'[n] = Parts(i.packet)
  BY <1>0, <1>3
<1>5. /\ StoreStage(i) \in {"store", "sent", "dropped"}
      /\ StoreStage(i) = "store" => Parts(i.packet) # {}
      /\ StoreStage(i) = "dropped" => up[BrokerOf(i)] # "up"
  BY DEF StoreStage, Stored
<1>6. BrokerOf(info[n])' = BrokerOf(i)
  BY <1>4 DEF BrokerOf
<1> QED  BY <1>0, <1>1, <1>2, <1>3, <1>4, <1>5, <1>6 DEF Ending

\* The PUBACK is sent to a client that is open.
LEMMA AcknowledgeEnds ==
    ASSUME PublishingTypeOK, NEW n \in Pubs, NEW q, Acknowledge(n, q), UNCHANGED <<info, conn>>
    PROVE  info[n].kind = "client" /\ q = 1 => n \in acked' \/ ~Open(info[n].from)'
  BY DEF Acknowledge, Open

LEMMA AnswerEnding ==
    ASSUME PublishingTypeOK, Progress, Onward, Ended, NEW n \in Pubs, Answer(n)
    PROVE  Ended'
<1>0. stage \in [Pubs -> Stages] /\ left \in [Pubs -> SUBSET PartNames] /\ info \in [Pubs -> Info] /\ Ending(n)
  BY TypesSplit DEF PubTyped, Ended
<1>1. ASSUME NEW m \in Pubs, m # n PROVE Ending(m)'
  <2>1. info'[m] = info[m] /\ stage'[m] = stage[m] /\ left'[m] = left[m]
    BY <1>0, <1>1 DEF Answer, Refuse, Ignore, Accept, StoreRetained, StoreCallback, PartDone, Route, Published
  <2> QED  BY <2>1, EndingLeft DEF Ended
<1>2. ASSUME Refuse(n) PROVE Ending(n)'
  BY <1>0, <1>2 DEF Refuse, Ending, Accepted
<1>3. ASSUME Ignore(n) PROVE Ending(n)'
  <2>1. stage[n] = "auth" /\ stage'[n] = "ignored" /\ UNCHANGED <<mode, info, conn>>
        /\ Acknowledge(n, Lowered(info[n].packet.qos))
    BY <1>0, <1>3 DEF Ignore
  <2>2. Owed(n)' => info[n].kind = "client" /\ Lowered(info[n].packet.qos) = 1
    BY <2>1 DEF Owed, Lowered
  <2> QED  BY <1>0, <2>1, <2>2, AcknowledgeEnds DEF Ending, Accepted
<1>4. ASSUME Accept(n) PROVE Ending(n)'
  BY <1>4, AcceptEnding
<1>5. ASSUME StoreRetained(n) \/ StoreCallback(n) PROVE Ending(n)'
  BY <1>5, PartDoneEnding DEF StoreRetained, StoreCallback
<1>6. ASSUME Route(n) PROVE Ending(n)'
  BY <1>0, <1>6 DEF Route, Ending, Accepted
<1>7. ASSUME Published(n) PROVE Ending(n)'
  <2>1. stage[n] = "routed" /\ stage'[n] = "done" /\ UNCHANGED <<mode, info, conn>>
        /\ Acknowledge(n, info[n].packet.qos)
    BY <1>0, <1>7 DEF Published
  <2>2. Owed(n)' => info[n].kind = "client" /\ info[n].packet.qos = 1
    BY <1>0, <2>1 DEF Owed, Ending, Accepted
  <2> QED  BY <1>0, <2>1, <2>2, AcknowledgeEnds DEF Ending, Accepted
<1>8. Ending(n)'
  BY <1>2, <1>3, <1>4, <1>5, <1>6, <1>7 DEF Answer
<1> QED  BY <1>1, <1>8 DEF Ended

LEMMA EndedKept ==
    ASSUME PublishingTypeOK, Progress, Ended, [PublishingNext]_publishingState
    PROVE  Ended'
<1>0. Onward
  BY OnwardHolds
<1>1. ASSUME UNCHANGED <<info, stage, left>> PROVE Ended'
  BY <1>0, <1>1, EndingLeft DEF Ended
<1>2. ASSUME NEW c \in Conns, Client(c) PROVE Ended'
  <2>1. CASE Lose(c) \/ (LookupFails(c) /\ Open(c))
    BY <1>0, <2>1, NonDisconnectCloseEnding DEF Lose, LookupFails
  <2>2. CASE Publish(c)
    BY <1>0, <2>2, BegunEnding DEF Publish, Kinds
  <2>3. CASE UNCHANGED pubVars
    BY <1>1, <2>3 DEF pubVars
  <2> QED
    BY <1>2, <2>1, <2>2, <2>3
       DEF Client, Disconnect, Cleanup, Subscribe, SubscribeAnswer, LookupRetained, ForwardRetained, LookupFails
<1>3. ASSUME NEW b \in Brokers, Broker(b) PROVE Ended'
  <2>1. CASE ApplicationPublish(b)
    BY <1>0, <2>1, BegunStoredEnding DEF ApplicationPublish
  <2> QED  BY <1>1, <1>3, <2>1 DEF Broker, Receive, ServerClose, ServerClosed, pubVars
<1>4. CASE UNCHANGED publishingState
  BY <1>1, <1>4 DEF publishingState, publishingVars, pubVars
<1> QED  BY <1>0, <1>2, <1>3, <1>4, AnswerEnding DEF PublishingNext

-----------------------------------------------------------------------------
(* Theorems *)

IInv == PublishingTypeOK /\ Progress /\ Writes /\ Lookups /\ Reached /\ OnTheWay

LEMMA Starts == PublishingInit => IInv
<1> SUFFICES ASSUME PublishingInit PROVE IInv
  OBVIOUS
<1>1. Progress
  BY DEF PublishingInit, NothingPublished, Progress, LeftInStore, Fresh, AckedIsOut
<1>2. Writes /\ Lookups
  BY DEF PublishingInit, NothingPublished, Writes, Lookups, After
<1>3. Reached /\ OnTheWay
  BY ServersAssumption, PublishingAssumption DEF PublishingInit, NothingPublished, Reached, OnTheWay, Open, Out
<1> QED  BY <1>1, <1>2, <1>3, TypesStart DEF IInv

LEMMA Steps == IInv /\ [PublishingNext]_publishingState => IInv'
<1> SUFFICES ASSUME IInv, [PublishingNext]_publishingState PROVE IInv'
  OBVIOUS
<1>0. PublishingTypeOK /\ Progress /\ Writes /\ Lookups /\ Reached /\ OnTheWay
  BY DEF IInv
<1>1. Frame /\ \A c \in Conns : SubFrame(c)
  BY <1>0, FrameHolds, SubFrameHolds
<1>2. Lookups'
  BY <1>0, <1>1, LookupsKept DEF Lookups
<1>3. Reached'
  BY <1>0, <1>1, ReachedKept DEF Reached
<1> QED  BY <1>0, <1>1, <1>2, <1>3, TypesKept, ProgressKept, WritesKept, OnTheWayKept DEF IInv

THEOREM Invariant == PublishingSpec => []IInv
<1>1. PublishingSpec => PublishingInit /\ [][PublishingNext]_publishingState
  BY DEF PublishingSpec, publishingState
<1> QED  BY <1>1, Starts, Steps, PTL

\* Publications, subscribers and the store keep their types.
THEOREM TypesCorrect == PublishingSpec => []PublishingTypeOK
<1>1. IInv => PublishingTypeOK
  BY DEF IInv
<1> QED  BY <1>1, Invariant, PTL

\* A PUBACK is sent only when storePacket and the ascoltatore are done with
\* the publication, or authorizePublish said to ignore it.
THEOREM AckMeansOut == PublishingSpec => []AckedIsOut
<1>1. IInv => AckedIsOut
  BY DEF IInv, Progress
<1> QED  BY <1>1, Invariant, PTL

LEMMA NoGap == IInv => RetainedNoGap
<1> SUFFICES ASSUME IInv, NEW c \in Conns, NEW n \in Pubs,
                    Open(c), sub[c] = "done", Arrived(Home[c], n), ~info[n].packet.empty,
                    NEW i \in DOMAIN puts, puts[i] = n
             PROVE  n \in got[c] \/ i < readAt[c]
  BY DEF RetainedNoGap
<1>1. stage[n] \in Out
  BY DEF Arrived, Out
<1>2. CASE c \in reach[n]
  BY <1>1, <1>2 DEF IInv, OnTheWay, Arrived
<1>3. CASE i = readAt[c]
  <2>1. i # 0 /\ n # 0
    BY TypesSplit, PublishingAssumption DEF IInv, StoreTyped, Pubs
  <2>2. After(readAt[c]) = n
    BY <1>3, <2>1 DEF After
  <2> QED  BY <2>1, <2>2 DEF IInv, Lookups
<1>4. i <= readAt[c] \/ c \in reach[n]
  BY <1>1 DEF IInv, Reached
<1>5. i \in Nat /\ readAt[c] \in Nat
  BY TypesSplit DEF IInv, StoreTyped, SubTyped
<1> QED  BY <1>2, <1>3, <1>4, <1>5

\* A subscriber misses no retained publication, in whatever order it is
\* stored and routed and the SUBSCRIBE is answered and looks it up.
THEOREM SubscriberMissesNone == PublishingSpec => []RetainedNoGap
  BY Invariant, NoGap, PTL

\* A publication waits only for what calls back, only a broker that closes
\* drops one, and one that has come to its end was acknowledged to its client,
\* if the client is still there and the publication called for it.
THEOREM EndMeansAcked == PublishingSpec => []EndedIsAcked
<1>1. PublishingInit => Ended
  BY DEF PublishingInit, NothingPublished, Ended, Ending, Accepted
<1>2. IInv /\ Ended /\ [PublishingNext]_publishingState => Ended'
  BY EndedKept DEF IInv
<1>3. Ended => EndedIsAcked
  BY DEF Ended, Ending, EndedIsAcked
<1>4. PublishingSpec => PublishingInit /\ [][PublishingNext]_publishingState
  BY DEF PublishingSpec, publishingState
<1> QED  BY <1>1, <1>2, <1>3, <1>4, Invariant, PTL
=============================================================================
