------------------------------ MODULE Delivery ------------------------------
(***************************************************************************)
(* How a publication reaches the subscribed clients: Client.forward with   *)
(* its de-duplication, message ids and in-flight window, the answers of    *)
(* updateOfflinePacket and authorizeForward, and handlePuback              *)
(* (lib/client.js).                                                        *)
(*                                                                         *)
(* The ascoltatore calls the handlers of a publication one after another   *)
(* in one turn of the event loop, all with the same options object: the    *)
(* variable cur is that loop, and nothing else happens while it has calls  *)
(* to make.  What forward hands to updateOfflinePacket and authorizeForward*)
(* waits in pend; when they answer within the turn the effect is the same. *)
(* Subscriptions do not change here (they do in ClientLifecycle).          *)
(***************************************************************************)
EXTENDS Integers, FiniteSets

CONSTANTS
    Clients,
    Topics,
    SysTopics,      \* the topics that contain $SYS
    Filters,
    WildFilters,    \* filters with # or + among their first two characters
    Matches,        \* which filter matches which topic
    Subscribed,     \* which client subscribed to which filter
    Qos,            \* the QoS that the handler of a subscription remembers
    IdRange,        \* 65536: message ids wrap there
    MaxInflight,    \* opts.maxInflightMessages
    MaxPubs         \* bound of the model: publications and stored packets

ASSUME DeliveryAssumption ==
    /\ IsFiniteSet(Clients) /\ IsFiniteSet(Filters)
    /\ SysTopics \subseteq Topics /\ WildFilters \subseteq Filters
    /\ Matches \subseteq Topics \X Filters
    /\ Subscribed \subseteq Clients \X Filters
    /\ Qos \in [Subscribed -> {0, 1}]
    /\ IdRange \in Nat \ {0} /\ MaxInflight \in Nat \ {0} /\ MaxPubs \in Nat

Ids == 0 .. IdRange - 1
Packets == [to: Clients, sub: Filters, pub: 1 .. MaxPubs, id: Ids, qos: 0 .. 2]

VARIABLES
    cur,        \* the publication whose handlers are being called
    pubs,       \* publications and stored packets so far
    dedupId,    \* Server._dedupId
    lastDedup,  \* Client._lastDedupId
    nextId,     \* Client.nextId
    counter,    \* Client.inflightCounter
    inflight,   \* the keys of Client.inflight
    pend,       \* packets that updateOfflinePacket or authorizeForward hold
    state,      \* "open", or _closing or _closed
    cause       \* why the client was closed

vars == <<cur, pubs, dedupId, lastDedup, nextId, counter, inflight, pend, state, cause>>

\* options._dedupId === undefined
NoStamp == -1

\* No handler is left to call.
Idle == cur.todo = {}

\* $SYS topics do not reach the subscriptions to a leading wildcard.
SkipsSys(t, f) == t \in SysTopics /\ f \in WildFilters

\* QoS 1 packets on their way to c: sent and unacknowledged, or still held.
Held(c) == {x \in pend : x.to = c /\ x.qos = 1}
Outstanding(c) == Cardinality(inflight[c]) + Cardinality(Held(c))

-----------------------------------------------------------------------------
\* inflightCounter, raised before any check of forward, for a QoS 2 as for a
\* QoS 1, which alone is answered.
Counted(c, q) == IF q = 0 THEN counter[c] ELSE counter[c] + 1

\* counted, the counter with this packet in it, reaches the limit.
\* Mutant: one more than the limit is let through.
OverflowsLate(c, counted) == state[c] = "open" /\ counted > MaxInflight
Overflows(c, counted) == state[c] = "open" /\ counted >= MaxInflight

\* The options are stamped once, by the first client that takes the packet,
\* and only that client remembers the stamp.
\* Mutant: nobody remembers it.
StampForgets(c, goes, stamp) ==
    /\ dedupId' = IF goes /\ stamp = NoStamp THEN dedupId + 1 ELSE dedupId
    /\ UNCHANGED lastDedup
Stamp(c, goes, stamp) ==
    IF goes /\ stamp = NoStamp
    THEN dedupId' = dedupId + 1 /\ lastDedup' = [lastDedup EXCEPT ![c] = dedupId]
    ELSE UNCHANGED <<dedupId, lastDedup>>

\* Whether forward hands the packet on.
Goes(c, t, f, q) ==
    /\ state[c] = "open"
    /\ ~Overflows(c, Counted(c, q))
    /\ ~SkipsSys(t, f)

\* Client.forward after its de-duplication: packet p on topic t for the
\* subscription f of c with QoS q; stamp is that of its options.
Forward(c, t, f, q, p, stamp) ==
    /\ nextId' = [nextId EXCEPT ![c] = (@ + 1) % IdRange]
    /\ counter' = [counter EXCEPT ![c] = Counted(c, q)]
    /\ IF Overflows(c, Counted(c, q))
       THEN /\ state' = [state EXCEPT ![c] = "closed"]
            /\ cause' = [cause EXCEPT ![c] = "too many inflight packets"]
       ELSE UNCHANGED <<state, cause>>
    /\ pend' = IF Goes(c, t, f, q)
               THEN pend \cup {[to |-> c, sub |-> f, pub |-> p, id |-> nextId[c], qos |-> q]}
               ELSE pend
    /\ Stamp(c, Goes(c, t, f, q), stamp)
    /\ UNCHANGED inflight

-----------------------------------------------------------------------------
\* The ascoltatore begins to deliver a publication (Server.publish).
Publish(t) ==
    /\ Idle /\ pubs < MaxPubs
    /\ pubs' = pubs + 1
    /\ cur' = [pub |-> pubs + 1, topic |-> t, stamp |-> NoStamp, handed |-> {},
               todo |-> {s \in Subscribed : <<t, s[2]>> \in Matches}]
    /\ UNCHANGED <<dedupId, lastDedup, nextId, counter, inflight, pend, state, cause>>

\* c has been handed the publication, as far as its stamps tell.
\* Mutant: off by one, as if _lastDedupId began at 0.
SeenOffByOne(c) == cur.stamp # NoStamp /\ cur.stamp <= lastDedup[c] + 1
Seen(c) == cur.stamp # NoStamp /\ cur.stamp <= lastDedup[c]

\* The handler of subscription f of c is called.
Deliver(c, f) ==
    LET q == Qos[<<c, f>>]
        goes == Goes(c, cur.topic, f, q)
    IN
    /\ <<c, f>> \in cur.todo
    /\ IF Seen(c)
       THEN /\ cur' = [cur EXCEPT !.todo = @ \ {<<c, f>>}]
            /\ UNCHANGED <<dedupId, lastDedup, nextId, counter, inflight, pend, state, cause>>
       ELSE /\ Forward(c, cur.topic, f, q, cur.pub, cur.stamp)
            /\ cur' = [cur EXCEPT
                  !.todo = @ \ {<<c, f>>},
                  !.stamp = IF goes /\ @ = NoStamp THEN dedupId ELSE @,
                  !.handed = IF goes THEN @ \cup {<<c, f>>} ELSE @]
    /\ UNCHANGED pubs

\* forwardRetained or forwardOfflinePackets forwards a stored packet, with
\* options of its own and the QoS it was stored with, 2 if it was not lowered.
ForwardStored(c, t, f, q) ==
    /\ Idle /\ pubs < MaxPubs /\ <<t, f>> \in Matches
    /\ pubs' = pubs + 1
    /\ Forward(c, t, f, q, pubs + 1, NoStamp)
    /\ UNCHANGED cur

\* authorizeForward agrees: the packet is written to the connection.
DoForward(x) ==
    /\ Idle /\ x \in pend
    /\ pend' = pend \ {x}
    /\ inflight' = IF x.qos = 1 THEN [inflight EXCEPT ![x.to] = @ \cup {x.id}] ELSE inflight
    /\ UNCHANGED <<cur, pubs, dedupId, lastDedup, nextId, counter, state, cause>>

\* updateOfflinePacket or authorizeForward fails, or it is not authorized:
\* the packet is gone, the counter keeps counting it.
DoForwardFail(x) ==
    /\ Idle /\ x \in pend
    /\ pend' = pend \ {x}
    /\ UNCHANGED <<cur, pubs, dedupId, lastDedup, nextId, counter, inflight, state, cause>>

\* A PUBACK; one that matches no packet changes nothing.
\* Mutant: it frees a place in the window all the same.
PubackUnmatched(c, i) ==
    /\ Idle
    /\ counter' = [counter EXCEPT ![c] = @ - 1]
    /\ inflight' = [inflight EXCEPT ![c] = @ \ {i}]
    /\ UNCHANGED <<cur, pubs, dedupId, lastDedup, nextId, pend, state, cause>>
Puback(c, i) ==
    /\ Idle /\ i \in inflight[c]
    /\ counter' = [counter EXCEPT ![c] = @ - 1]
    /\ inflight' = [inflight EXCEPT ![c] = @ \ {i}]
    /\ UNCHANGED <<cur, pubs, dedupId, lastDedup, nextId, pend, state, cause>>

\* The client is closed for a reason of its own (ClientLifecycle).
CloseClient(c) ==
    /\ Idle /\ state[c] = "open"
    /\ state' = [state EXCEPT ![c] = "closed"]
    /\ cause' = [cause EXCEPT ![c] = "other"]
    /\ UNCHANGED <<cur, pubs, dedupId, lastDedup, nextId, counter, inflight, pend>>

-----------------------------------------------------------------------------
Init ==
    /\ \E t \in Topics :
          cur = [pub |-> 0, topic |-> t, stamp |-> NoStamp, handed |-> {}, todo |-> {}]
    /\ pubs = 0
    /\ dedupId = 0
    /\ lastDedup = [c \in Clients |-> -1]
    /\ nextId = [c \in Clients |-> 1 % IdRange]
    /\ counter = [c \in Clients |-> 0]
    /\ inflight = [c \in Clients |-> {}]
    /\ pend = {}
    /\ state = [c \in Clients |-> "open"]
    /\ cause = [c \in Clients |-> "none"]

Next ==
    \/ \E t \in Topics : Publish(t)
    \/ \E c \in Clients, f \in Filters : Deliver(c, f)
    \/ \E c \in Clients, t \in Topics, f \in Filters, q \in 0 .. 2 : ForwardStored(c, t, f, q)
    \/ \E x \in pend : DoForward(x) \/ DoForwardFail(x)
    \/ \E c \in Clients, i \in Ids : Puback(c, i)
    \/ \E c \in Clients : CloseClient(c)

Spec == Init /\ [][Next]_vars

-----------------------------------------------------------------------------
(* Properties *)

\* The type invariant; ids stay in the range of a uint16, and the in-flight
\* counter never goes below zero whatever PUBACKs arrive.
TypeOK ==
    /\ cur \in [pub: 0 .. MaxPubs, topic: Topics, stamp: Nat \cup {NoStamp},
                handed: SUBSET Subscribed, todo: SUBSET Subscribed]
    /\ pubs \in 0 .. MaxPubs
    /\ dedupId \in Nat
    /\ lastDedup \in [Clients -> Nat \cup {-1}]
    /\ nextId \in [Clients -> Ids]
    /\ counter \in [Clients -> Nat]
    /\ inflight \in [Clients -> SUBSET Ids]
    /\ pend \in SUBSET Packets
    /\ state \in [Clients -> {"open", "closed"}]
    /\ cause \in [Clients -> {"none", "other", "too many inflight packets"}]

\* The in-flight counter never undercounts: it covers the packets sent and
\* not acknowledged and those still held by updateOfflinePacket, even when
\* ids wrap, PUBACKs are repeated and forwards fail (inflightCounter).
CounterCoversOutstanding == \A c \in Clients : counter[c] >= Outstanding(c)

\* "maxInflightMessages, the maximum number of inflight messages per client":
\* no interleaving of forwards, answers and PUBACKs gets past the window, and
\* an open client always has room for one more.
WindowRespected ==
    \A c \in Clients :
        /\ Outstanding(c) < MaxInflight
        /\ state[c] = "open" => counter[c] < MaxInflight

\* De-duplication never drops the only copy: a client that is open when its
\* handlers have been called was handed the publication, unless every filter
\* that matches skips $SYS (Client.forward).
EveryMatchServed ==
    \A c \in Clients, f \in Filters :
        /\ <<c, f>> \in Subscribed /\ <<cur.topic, f>> \in Matches
        /\ <<c, f>> \notin cur.todo /\ cur.pub > 0
        /\ state[c] = "open" /\ ~SkipsSys(cur.topic, f)
        => \E g \in Filters : <<c, g>> \in cur.handed

\* A publication that reaches any client reaches some client exactly once,
\* however many of its subscriptions match: the one that stamped it.
FirstReceiverOnce ==
    cur.handed # {} =>
        \E s \in cur.handed : \A g \in Filters : <<s[1], g>> \in cur.handed => g = s[2]

\* "should support subscribing with overlapping topics and receiving message
\* only once": no client is handed two copies of one publication.
AtMostOncePerPublication ==
    \A c \in Clients, f, g \in Filters :
        <<c, f>> \in cur.handed /\ <<c, g>> \in cur.handed => f = g

\* "should disconnect a client if it has more thant 1024 inflight messages":
\* a client closed for its window has filled it, this packet included.
InflightCloseJustified ==
    [][\A c \in Clients :
          cause[c] # cause'[c] /\ cause'[c] = "too many inflight packets"
              => Outstanding(c) + 1 >= MaxInflight]_vars
=============================================================================
