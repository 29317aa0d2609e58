----------------------------- MODULE LevelStore -----------------------------
(***************************************************************************)
(* The LevelUp persistence (lib/persistence/levelup.js), and with it the   *)
(* one in memory, which is the same over another database.                 *)
(*                                                                         *)
(* The database applies a put or a del at once and answers later; a read   *)
(* stream sees the database as it was when the stream began.  The puts of  *)
(* storeSubscriptions, of storeOfflinePacket, and those that a stream      *)
(* makes for what it has read are steps of their own.                      *)
(***************************************************************************)
EXTENDS StoreCalls

CONSTANT MaxStreams \* bound of the model: streams under way

ASSUME LevelAssumption == MaxStreams \in Nat

VARIABLES
    lvSubs,     \* _clientSubscriptions: the topics of each client
    lvLapsed,   \* the clients whose subscriptions are older than their ttl
    lvKeys,     \* _subscriptions
    lvMatcher,  \* _subMatcher
    lvWrites,   \* puts to _subscriptions under way
    lvPackets,  \* _offlinePackets
    lvParts,    \* storeOfflinePacket: lookups in _subscriptions under way
    lvStreams   \* streams of _offlinePackets under way

lvSession == <<lvSubs, lvLapsed, lvKeys, lvMatcher, lvWrites>>
lvVars == <<lvSession, lvPackets, lvParts, lvStreams>>

Streams == [op: {"update", "delete"}, id: MessageIds \cup {0}, read: SUBSET Copies, keys: SUBSET Index]

\* No wipe, and no put to _subscriptions, is under way for c.
LevelWiping(c) == \E s \in lvStreams : \E k \in s.keys : k[2] = c
LevelSettled(c) ==
    /\ c \notin torn /\ c \notin lvLapsed
    /\ ~LevelWiping(c) /\ \A k \in lvWrites : k[2] # c

\* A stream begins; one that has nothing to do ends at once.
StartStream(op, i, R, K) ==
    /\ Cardinality(lvStreams) < MaxStreams
    /\ lvStreams' = IF R = {} /\ K = {} THEN lvStreams
                    ELSE lvStreams \cup {[op |-> op, id |-> i, read |-> R, keys |-> K]}

-----------------------------------------------------------------------------
(* Subscriptions *)

\* The constructor, after a crash or a close: the matcher is what the
\* database holds in _subscriptions.
\* Mutant: it starts empty.
ForgottenMatcher == {}
RestoredMatcher == lvKeys

LevelRestart ==
    /\ lvMatcher' = RestoredMatcher
    /\ lvWrites' = {} /\ lvParts' = {} /\ lvStreams' = {}
    /\ Stops({k[2] : k \in lvWrites})
    /\ UNCHANGED <<lvSubs, lvLapsed, lvKeys, lvPackets>>

\* storeSubscriptions of a client that is not clean: the matcher only grows.
LevelStoreSubscriptions(c, F) ==
    /\ lvSubs' = [lvSubs EXCEPT ![c] = F]
    /\ lvLapsed' = lvLapsed \ {c}
    /\ lvMatcher' = lvMatcher \cup Indexed(c, F)
    /\ lvWrites' = lvWrites \cup Indexed(c, F)
    /\ Saves(c, F, LevelWiping(c))
    /\ UNCHANGED <<lvKeys, lvPackets, lvParts, lvStreams>>

LevelWrite(k) ==
    /\ k \in lvWrites
    /\ lvWrites' = lvWrites \ {k}
    /\ lvKeys' = lvKeys \cup {k}
    /\ UNCHANGED <<lvSubs, lvLapsed, lvMatcher, lvPackets, lvParts, lvStreams, calls>>

\* The ttl of the subscriptions of c passes.
LevelLapse(c) ==
    /\ lvSubs[c] # {} /\ Turn
    /\ lvLapsed' = lvLapsed \cup {c}
    /\ UNCHANGED <<lvSubs, lvKeys, lvMatcher, lvWrites, lvPackets, lvParts, lvStreams,
                   pubs, due, owed, asked, torn>>

\* lookupSubscriptions of a client that is not clean.
LevelLookup(c) ==
    /\ c \in lvLapsed
    /\ lvMatcher' = lvMatcher \ Indexed(c, lvSubs[c])
    /\ UNCHANGED <<lvSubs, lvLapsed, lvKeys, lvWrites, lvPackets, lvParts, lvStreams, calls>>

\* lookupSubscriptions of a clean client, and the streamOfflinePackets that
\* deletes what the stream reads; what it leaves to the end is keys.
LevelClean(c) ==
    LET K == Indexed(c, lvSubs[c]) IN
    /\ lvSubs' = [lvSubs EXCEPT ![c] = {}]
    /\ lvLapsed' = lvLapsed \ {c}
    /\ lvMatcher' = lvMatcher \ K
    /\ StartStream("delete", 0, Of(c, lvPackets), K)
    /\ due' = due \cup Named(Of(c, lvPackets))
    /\ Drops(c, Filters)
    /\ owed' = owed \ Of(c, owed)
    /\ UNCHANGED <<lvKeys, lvWrites, lvPackets, lvParts>>

\* The batch at the end of lookupSubscriptions.
LevelCleaned(s) ==
    /\ s \in lvStreams /\ s.read = {}
    /\ lvStreams' = lvStreams \ {s}
    /\ lvKeys' = lvKeys \ s.keys
    /\ UNCHANGED <<lvSubs, lvLapsed, lvMatcher, lvWrites, lvPackets, lvParts, calls>>

-----------------------------------------------------------------------------
(* Packets *)

\* storeOfflinePacket: the matches of the topic.
LevelPublish(t) ==
    /\ Owes(t, {c \in Clients : LevelSettled(c)})
    /\ lvParts' = lvParts \cup {[client |-> k[2], pub |-> pubs + 1, sub |-> k[1]] :
                                   k \in Match(t, lvMatcher)}
    /\ UNCHANGED <<lvSession, lvPackets, lvStreams>>

\* _storePacket, if the key of the match is in _subscriptions.
LevelStorePacket(x) ==
    /\ x \in lvParts
    /\ lvParts' = lvParts \ {x}
    /\ <<x.sub, x.client>> \in lvKeys
    /\ lvPackets' = lvPackets \cup
          {[client |-> x.client, pub |-> x.pub, sub |-> x.sub, id |-> Uid(x.pub)]}
    /\ Gives(x.client, x.pub)
    /\ UNCHANGED <<lvSession, lvStreams>>

\* Otherwise the get fails, and with it the call.
LevelStoreFails(x) ==
    /\ x \in lvParts /\ <<x.sub, x.client>> \notin lvKeys
    /\ lvParts' = lvParts \ {x}
    /\ UNCHANGED <<lvSession, lvPackets, lvStreams, calls>>

\* updateOfflinePacket reads what is stored under id i.
LevelUpdate(c, i, new) ==
    /\ StartStream("update", new, Under(c, i, lvPackets), {})
    /\ Under(c, i, lvPackets) # {}
    /\ Releases({})
    /\ UNCHANGED <<lvSession, lvPackets, lvParts>>

\* deleteOfflinePacket.
LevelDelete(c, i) ==
    /\ Under(c, i, lvPackets) # {}
    /\ StartStream("delete", 0, Under(c, i, lvPackets), {})
    /\ Releases(Under(c, i, lvPackets))
    /\ UNCHANGED <<lvSession, lvPackets, lvParts>>

\* streamOfflinePackets of a client that is not clean finds that R expired.
LevelStream(c, R) ==
    /\ R # {}
    /\ StartStream("delete", 0, R, {})
    /\ Releases(R)
    /\ UNCHANGED <<lvSession, lvPackets, lvParts>>

\* The put that an update makes for x, which may be deleted by now.
\* Mutant: the key is that of the client.
PutPerClient(x, i) == {y \in lvPackets : y.client # x.client} \cup {[x EXCEPT !.id = i]}
Put(x, i) == {y \in lvPackets : Key(y) # Key(x)} \cup {[x EXCEPT !.id = i]}
Del(x) == {y \in lvPackets : Key(y) # Key(x)}

LevelApply(s, x) ==
    /\ s \in lvStreams /\ x \in s.read
    /\ lvStreams' = (lvStreams \ {s}) \cup
          (IF s.read = {x} /\ s.keys = {} THEN {} ELSE {[s EXCEPT !.read = @ \ {x}]})
    /\ lvPackets' = IF s.op = "update" THEN Put(x, s.id) ELSE Del(x)
    /\ UNCHANGED <<lvSession, lvParts, calls>>

-----------------------------------------------------------------------------
LevelInit ==
    /\ lvSubs = [c \in Clients |-> {}]
    /\ lvLapsed = {} /\ lvKeys = {} /\ lvMatcher = {} /\ lvWrites = {}
    /\ lvPackets = {} /\ lvParts = {} /\ lvStreams = {}

LevelNext ==
    \/ LevelRestart
    \/ \E c \in Clients :
          \/ LevelLapse(c) \/ LevelLookup(c) \/ LevelClean(c)
          \/ \E F \in SUBSET Filters : LevelStoreSubscriptions(c, F)
          \/ \E i \in StoredIds(pubs), new \in MessageIds : LevelUpdate(c, i, new)
          \/ \E i \in MessageIds : LevelDelete(c, i)
          \/ \E R \in SUBSET Of(c, lvPackets) : LevelStream(c, R)
    \/ \E k \in lvWrites : LevelWrite(k)
    \/ \E t \in Topics : LevelPublish(t)
    \/ \E x \in lvParts : LevelStorePacket(x) \/ LevelStoreFails(x)
    \/ \E s \in lvStreams : LevelCleaned(s) \/ \E x \in s.read : LevelApply(s, x)
=============================================================================
