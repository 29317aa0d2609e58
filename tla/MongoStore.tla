----------------------------- MODULE MongoStore -----------------------------
(***************************************************************************)
(* The MongoDB persistence (lib/persistence/mongo.js): one document per    *)
(* subscription and one per packet and matching subscription, written one  *)
(* by one.  There is no matcher: topicPatterns lists the filters that a    *)
(* query looks for.                                                        *)
(***************************************************************************)
EXTENDS StoreCalls

VARIABLES
    mgSubs,     \* the collection subscriptions
    mgWrites,   \* upserts of subscriptions under way
    mgPackets,  \* the collection packets
    mgParts,    \* insertions of packets under way
    mgWipes     \* removals under way: <<client, collection>>

mgVars == <<mgSubs, mgWrites, mgPackets, mgParts, mgWipes>>

MongoSettled(c) ==
    /\ c \notin torn
    /\ \A k \in mgWrites : k[2] # c
    /\ \A w \in mgWipes : w[1] # c

-----------------------------------------------------------------------------
(* Subscriptions *)

\* storeSubscriptions of a client that is not clean: an upsert per topic.
\* What the client does not subscribe to any more stays until it expires.
MongoStoreSubscriptions(c, F) ==
    /\ mgWrites' = mgWrites \cup Indexed(c, F)
    /\ Saves(c, F, \E w \in mgWipes : w[1] = c)
    /\ UNCHANGED <<mgSubs, mgPackets, mgParts, mgWipes>>

MongoWrite(k) ==
    /\ k \in mgWrites
    /\ mgWrites' = mgWrites \ {k}
    /\ mgSubs' = mgSubs \cup {k}
    /\ UNCHANGED <<mgPackets, mgParts, mgWipes, calls>>

\* The index over added removes a subscription.
MongoLapse(k) ==
    /\ k \in mgSubs
    /\ mgSubs' = mgSubs \ {k}
    /\ Drops(k[2], {k[1]})
    /\ UNCHANGED <<mgWrites, mgPackets, mgParts, mgWipes, due, owed>>

\* lookupSubscriptions of a clean client removes from both collections.
MongoClean(c) ==
    /\ mgWipes' = mgWipes \cup {<<c, "subscriptions">>, <<c, "packets">>}
    /\ Drops(c, Filters)
    /\ UNCHANGED <<mgSubs, mgWrites, mgPackets, mgParts, due, owed>>

MongoRemoveSubscriptions(c) ==
    /\ <<c, "subscriptions">> \in mgWipes
    /\ mgWipes' = mgWipes \ {<<c, "subscriptions">>}
    /\ mgSubs' = {k \in mgSubs : k[2] # c}
    /\ UNCHANGED <<mgWrites, mgPackets, mgParts, calls>>

MongoRemovePackets(c) ==
    /\ <<c, "packets">> \in mgWipes
    /\ mgWipes' = mgWipes \ {<<c, "packets">>}
    /\ mgPackets' = mgPackets \ Of(c, mgPackets)
    /\ due' = due \cup Named(Of(c, mgPackets))
    /\ UNCHANGED <<mgSubs, mgWrites, mgParts, pubs, turns, owed, sessions>>

\* The broker stops, and with it what it had not sent yet.
MongoRestart ==
    /\ mgWrites' = {} /\ mgParts' = {} /\ mgWipes' = {}
    /\ Stops({k[2] : k \in mgWrites})
    /\ UNCHANGED <<mgSubs, mgPackets>>

-----------------------------------------------------------------------------
(* Packets *)

\* storeOfflinePacket: the subscriptions to one of the patterns.
MongoPublish(t) ==
    /\ Owes(t, {c \in Clients : MongoSettled(c)})
    /\ mgParts' = mgParts \cup {[client |-> k[2], pub |-> pubs + 1, sub |-> k[1]] :
                                   k \in {j \in mgSubs : <<t, j[1]>> \in Patterns}}
    /\ UNCHANGED <<mgSubs, mgWrites, mgPackets, mgWipes>>

\* _storePacket.
MongoStorePacket(x) ==
    /\ x \in mgParts
    /\ mgParts' = mgParts \ {x}
    /\ mgPackets' = mgPackets \cup
          {[client |-> x.client, pub |-> x.pub, sub |-> x.sub, id |-> Uid(x.pub)]}
    /\ Gives(x.client, x.pub)
    /\ UNCHANGED <<mgSubs, mgWrites, mgWipes>>

\* updateOfflinePacket: one of the documents with the id.
MongoUpdate(c, i, new) ==
    /\ \E x \in Under(c, i, mgPackets) :
          mgPackets' = (mgPackets \ {x}) \cup {[x EXCEPT !.id = new]}
    /\ Releases({})
    /\ UNCHANGED <<mgSubs, mgWrites, mgParts, mgWipes>>

\* deleteOfflinePacket: all of them.
MongoDelete(c, i) ==
    /\ Under(c, i, mgPackets) # {}
    /\ mgPackets' = mgPackets \ Under(c, i, mgPackets)
    /\ Releases(Under(c, i, mgPackets))
    /\ UNCHANGED <<mgSubs, mgWrites, mgParts, mgWipes>>

\* The index over added removes a packet.
MongoExpire(x) ==
    /\ x \in mgPackets
    /\ mgPackets' = mgPackets \ {x}
    /\ Releases({x})
    /\ UNCHANGED <<mgSubs, mgWrites, mgParts, mgWipes>>

-----------------------------------------------------------------------------
MongoInit ==
    /\ mgSubs = {} /\ mgWrites = {}
    /\ mgPackets = {} /\ mgParts = {} /\ mgWipes = {}

MongoNext ==
    \/ MongoRestart
    \/ \E c \in Clients :
          \/ MongoClean(c) \/ MongoRemoveSubscriptions(c) \/ MongoRemovePackets(c)
          \/ \E F \in SUBSET Filters : MongoStoreSubscriptions(c, F)
          \/ \E i \in StoredIds(pubs), new \in MessageIds : MongoUpdate(c, i, new)
          \/ \E i \in MessageIds : MongoDelete(c, i)
    \/ \E k \in mgWrites : MongoWrite(k)
    \/ \E k \in mgSubs : MongoLapse(k)
    \/ \E t \in Topics : MongoPublish(t)
    \/ \E x \in mgParts : MongoStorePacket(x)
    \/ \E x \in mgPackets : MongoExpire(x)
=============================================================================
