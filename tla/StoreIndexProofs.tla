--------------------------- MODULE StoreIndexProofs ---------------------------
(***************************************************************************)
(* More proofs about Stores: that a client whose subscriptions have been   *)
(* stored is found by every publication, and that Redis lists what it      *)
(* holds.                                                                  *)
(***************************************************************************)
EXTENDS StoresProofs

LEMMA IndexedFacts ==
    /\ \A c, F, k : k \in Indexed(c, F) <=> \E f \in F : k = <<f, c>>
    /\ \A c : Indexed(c, {}) = {}
    /\ \A c, F, G : F \subseteq G => Indexed(c, F) \subseteq Indexed(c, G)
    /\ \A c, F, k : k \in Indexed(c, F) => k[2] = c /\ k[1] \in F
  BY DEF Indexed

-----------------------------------------------------------------------------
(* The LevelUp persistence *)

\* Subscriptions that were stored, and not wiped or expired since, are in the
\* matcher, and in the database or on the way to it; a wipe is of a session that
\* is empty or was stored meanwhile.
LevelCovers ==
    \A c \in Clients :
        /\ (c \notin torn /\ c \notin lvLapsed /\ ~LevelWiping(c)) =>
              Indexed(c, asked[c]) \subseteq lvMatcher \cap (lvKeys \cup lvWrites)
        /\ LevelWiping(c) => asked[c] = {} \/ c \in torn

\* A session that is owed a packet has it among those to be stored, and will
\* be found in the database.
LevelServes ==
    \A x \in owed : /\ ~LevelWiping(x.client)
                    /\ <<x.sub, x.client>> \in lvKeys
                    /\ \E y \in lvParts : y.client = x.client /\ y.pub = x.pub /\ y.sub = x.sub

\* Streams without keys wipe nothing.
LEMMA StartWipes ==
    ASSUME NEW op, NEW i, NEW R, NEW K, StartStream(op, i, R, K), NEW c
    PROVE  /\ LevelWiping(c) => LevelWiping(c)'
           /\ LevelWiping(c)' => LevelWiping(c) \/ \E k \in K : k[2] = c
<1>1. lvStreams' = lvStreams \/ lvStreams' = lvStreams \cup {[op |-> op, id |-> i, read |-> R, keys |-> K]}
  BY DEF StartStream
<1> QED  BY <1>1 DEF LevelWiping

LEMMA LevelCleanCovers ==
    ASSUME CallsTyped, LevelTyped, LevelCovers, LevelServes, NEW c \in Clients, LevelClean(c)
    PROVE  LevelCovers' /\ LevelServes'
<1> DEFINE K == Indexed(c, lvSubs[c])
<1>1. /\ lvMatcher' = lvMatcher \ K /\ lvLapsed' = lvLapsed \ {c}
      /\ StartStream("delete", 0, Of(c, lvPackets), K)
      /\ asked' = [asked EXCEPT ![c] = @ \ Filters] /\ owed' = owed \ Of(c, owed)
      /\ UNCHANGED <<torn, lvKeys, lvWrites, lvParts>>
  BY DEF LevelClean, Drops
<1>2. \A k \in K : k[2] = c
  BY IndexedFacts
<1> HIDE DEF K
<1>3. asked'[c] = {} /\ \A d \in Clients : d # c => asked'[d] = asked[d]
  BY <1>1 DEF CallsTyped
<1>4. \A d : d # c => (LevelWiping(d)' <=> LevelWiping(d))
  BY <1>1, <1>2, StartWipes
<1>5. LevelCovers'
  <2>1. ASSUME NEW d \in Clients, d # c
        PROVE  /\ (d \notin torn' /\ d \notin lvLapsed' /\ ~LevelWiping(d)') =>
                     Indexed(d, asked'[d]) \subseteq lvMatcher' \cap (lvKeys' \cup lvWrites')
               /\ LevelWiping(d)' => asked'[d] = {} \/ d \in torn'
    BY <1>1, <1>2, <1>3, <1>4, <2>1, IndexedFacts DEF LevelCovers
  <2>2. Indexed(c, asked'[c]) = {}
    BY <1>3, IndexedFacts
  <2> QED  BY <1>3, <2>1, <2>2 DEF LevelCovers
<1>6. LevelServes'
  BY <1>1, <1>4 DEF LevelServes, Of
<1> QED  BY <1>5, <1>6

\* Steps that leave the index alone.
LevelStill ==
    /\ UNCHANGED <<torn, asked, lvLapsed, lvMatcher, lvKeys, lvWrites>>
    /\ \A c : LevelWiping(c)' <=> LevelWiping(c)

LEMMA StillCovers == ASSUME LevelCovers, LevelStill PROVE LevelCovers'
  BY DEF LevelCovers, LevelStill

LEMMA StillServes ==
    ASSUME LevelServes, LevelStill, owed' \subseteq owed, lvParts \subseteq lvParts'
    PROVE  LevelServes'
  BY DEF LevelServes, LevelStill

LEMMA LevelPublishServes ==
    ASSUME CallsTyped, LevelTyped, LevelCovers, LevelServes, NEW t \in Topics, LevelPublish(t)
    PROVE  LevelServes'
<1>1. /\ lvParts' = lvParts \cup {[client |-> k[2], pub |-> pubs + 1, sub |-> k[1]] : k \in Match(t, lvMatcher)}
      /\ UNCHANGED <<lvKeys, lvStreams>>
      /\ owed' = owed \cup {x \in [client: {c \in Clients : LevelSettled(c)}, pub: {pubs + 1}, sub: Filters, topic: {t}] :
                             x.sub \in asked[x.client] /\ <<t, x.sub>> \in Matches}
  BY DEF LevelPublish, Owes, lvSession
<1>2. \A c : LevelWiping(c)' <=> LevelWiping(c)
  BY <1>1 DEF LevelWiping
<1>3. ASSUME NEW x \in owed'
      PROVE  /\ ~LevelWiping(x.client)
             /\ <<x.sub, x.client>> \in lvKeys
             /\ \E y \in lvParts' : y.client = x.client /\ y.pub = x.pub /\ y.sub = x.sub
  <2>1. CASE x \in owed
    BY <1>1, <2>1 DEF LevelServes
  <2>2. CASE x \notin owed
    <3>1. /\ x.client \in Clients /\ LevelSettled(x.client) /\ x.pub = pubs + 1
          /\ x.sub \in asked[x.client] /\ <<t, x.sub>> \in Matches
      BY <1>1, <2>2
    <3>2. Indexed(x.client, asked[x.client]) \subseteq lvMatcher \cap (lvKeys \cup lvWrites)
      BY <3>1 DEF LevelCovers, LevelSettled
    <3> DEFINE k == <<x.sub, x.client>>
    <3>3. k \in lvMatcher /\ k \in lvKeys /\ ~LevelWiping(x.client)
      BY <3>1, <3>2, IndexedFacts DEF LevelSettled
    <3>4. k \in Match(t, lvMatcher)
      BY <3>1, <3>3 DEF Match
    <3>5. [client |-> k[2], pub |-> pubs + 1, sub |-> k[1]] \in lvParts'
      BY <1>1, <3>4
    <3> QED  BY <3>1, <3>3, <3>5
  <2> QED  BY <2>1, <2>2
<1> QED  BY <1>1, <1>2, <1>3 DEF LevelServes

LEMMA LevelIndexKept ==
    ASSUME CallsTyped, LevelTyped, LevelCovers, LevelServes, LevelNext
    PROVE  LevelCovers' /\ LevelServes'
<1> DEFINE Goal == LevelCovers' /\ LevelServes'
<1> SUFFICES Goal
  OBVIOUS
<1>1. CASE LevelRestart
  <2>1. /\ lvMatcher' = lvKeys /\ lvWrites' = {} /\ lvStreams' = {} /\ owed' = {}
        /\ torn' = torn \cup {k[2] : k \in lvWrites} /\ UNCHANGED <<lvLapsed, lvKeys, asked>>
    BY <1>1 DEF LevelRestart, RestoredMatcher, Stops
  <2>2. \A c : ~LevelWiping(c)'
    BY <2>1 DEF LevelWiping
  <2>3. ASSUME NEW c \in Clients, c \notin torn', c \notin lvLapsed' PROVE Indexed(c, asked'[c]) \subseteq lvKeys
    <3>1. \A k \in lvWrites : k[2] # c
      BY <2>1, <2>3
    <3>2. CASE LevelWiping(c)
      BY <2>1, <2>3, <3>2, IndexedFacts DEF LevelCovers
    <3>3. CASE ~LevelWiping(c)
      <4>1. Indexed(c, asked[c]) \subseteq lvKeys \cup lvWrites
        BY <2>1, <2>3, <3>3 DEF LevelCovers
      <4> QED  BY <2>1, <3>1, <4>1, IndexedFacts
    <3> QED  BY <3>2, <3>3
  <2> QED  BY <2>1, <2>2, <2>3 DEF LevelCovers, LevelServes
<1>2. ASSUME NEW c \in Clients, LevelLapse(c) \/ LevelLookup(c) PROVE Goal
  <2>1. /\ UNCHANGED <<asked, torn, owed, lvKeys, lvWrites, lvParts, lvStreams>>
        /\ lvLapsed \subseteq lvLapsed' /\ lvMatcher' \subseteq lvMatcher
        /\ lvMatcher' = lvMatcher \/ (c \in lvLapsed' /\ lvMatcher' = lvMatcher \ Indexed(c, lvSubs[c]))
    BY <1>2 DEF LevelLapse, LevelLookup, calls, sessions
  <2>2. \A d : LevelWiping(d)' <=> LevelWiping(d)
    BY <2>1 DEF LevelWiping
  <2>3. \A d : d \notin lvLapsed' => (Indexed(d, asked[d]) \subseteq lvMatcher => Indexed(d, asked[d]) \subseteq lvMatcher')
    BY <2>1, IndexedFacts
  <2> QED  BY <2>1, <2>2, <2>3 DEF LevelCovers, LevelServes
<1>3. ASSUME NEW c \in Clients, NEW F \in SUBSET Filters, LevelStoreSubscriptions(c, F) PROVE Goal
  <2>1. /\ lvLapsed' = lvLapsed \ {c} /\ lvMatcher' = lvMatcher \cup Indexed(c, F)
        /\ lvWrites' = lvWrites \cup Indexed(c, F) /\ asked' = [asked EXCEPT ![c] = F]
        /\ torn' = IF LevelWiping(c) THEN torn \cup {c} ELSE torn \ {c}
        /\ UNCHANGED <<owed, lvKeys, lvParts, lvStreams>>
    BY <1>3 DEF LevelStoreSubscriptions, Saves
  <2>2. \A d : LevelWiping(d)' <=> LevelWiping(d)
    BY <2>1 DEF LevelWiping
  <2>3. asked'[c] = F /\ \A d \in Clients : d # c => asked'[d] = asked[d]
    BY <2>1 DEF CallsTyped
  <2>4. LevelServes'
    BY <2>1, <2>2 DEF LevelServes
  <2>5. LevelCovers'
    BY <2>1, <2>2, <2>3 DEF LevelCovers
  <2> QED  BY <2>4, <2>5
<1>4. ASSUME NEW k \in lvWrites, LevelWrite(k) PROVE Goal
  <2>1. /\ lvKeys' = lvKeys \cup {k} /\ lvWrites' = lvWrites \ {k}
        /\ UNCHANGED <<asked, torn, owed, lvLapsed, lvMatcher, lvParts, lvStreams>>
    BY <1>4 DEF LevelWrite, calls, sessions
  <2>2. \A d : LevelWiping(d)' <=> LevelWiping(d)
    BY <2>1 DEF LevelWiping
  <2>3. lvKeys' \cup lvWrites' = lvKeys \cup lvWrites
    BY <2>1
  <2> QED  BY <2>1, <2>2, <2>3 DEF LevelCovers, LevelServes
<1>5. ASSUME NEW c \in Clients, LevelClean(c) PROVE Goal
  BY <1>5, LevelCleanCovers
<1>6. ASSUME NEW c, NEW i, NEW new, LevelUpdate(c, i, new) \/ LevelDelete(c, i) PROVE Goal
  <2>1. /\ UNCHANGED <<asked, torn, owed, lvLapsed, lvMatcher, lvKeys, lvWrites, lvParts>>
        /\ \E op, j, R : StartStream(op, j, R, {})
    BY <1>6 DEF LevelUpdate, LevelDelete, Releases, sessions, lvSession
  <2>2. \A d : LevelWiping(d)' <=> LevelWiping(d)
    BY <2>1, StartWipes
  <2> QED  BY <2>1, <2>2, StillCovers, StillServes DEF LevelStill
<1>7. ASSUME NEW c, NEW R, LevelStream(c, R) PROVE Goal
  <2>1. /\ UNCHANGED <<asked, torn, owed, lvLapsed, lvMatcher, lvKeys, lvWrites, lvParts>>
        /\ StartStream("delete", 0, R, {})
    BY <1>7 DEF LevelStream, Releases, sessions, lvSession
  <2>2. \A d : LevelWiping(d)' <=> LevelWiping(d)
    BY <2>1, StartWipes
  <2> QED  BY <2>1, <2>2, StillCovers, StillServes DEF LevelStill
<1>8. ASSUME NEW t \in Topics, LevelPublish(t) PROVE Goal
  <2>1. UNCHANGED <<torn, asked, lvLapsed, lvMatcher, lvKeys, lvWrites, lvStreams>>
    BY <1>8 DEF LevelPublish, Owes, sessions, lvSession
  <2>2. LevelStill
    BY <2>1 DEF LevelStill, LevelWiping
  <2> QED  BY <1>8, <2>2, StillCovers, LevelPublishServes
<1>9. ASSUME NEW x \in lvParts, LevelStorePacket(x) PROVE Goal
  <2>1. /\ UNCHANGED <<torn, asked, lvLapsed, lvMatcher, lvKeys, lvWrites, lvStreams>>
        /\ lvParts' = lvParts \ {x} /\ owed' = {y \in owed : y.client # x.client \/ y.pub # x.pub}
    BY <1>9 DEF LevelStorePacket, Gives, sessions, lvSession
  <2>2. LevelStill
    BY <2>1 DEF LevelStill, LevelWiping
  <2>3. LevelServes'
    BY <2>1, <2>2 DEF LevelServes, LevelStill
  <2> QED  BY <2>2, <2>3, StillCovers
<1>10. ASSUME NEW x \in lvParts, LevelStoreFails(x) PROVE Goal
  <2>1. /\ UNCHANGED <<torn, asked, owed, lvLapsed, lvMatcher, lvKeys, lvWrites, lvStreams>>
        /\ lvParts' = lvParts \ {x} /\ <<x.sub, x.client>> \notin lvKeys
    BY <1>10 DEF LevelStoreFails, calls, sessions, lvSession
  <2>2. LevelStill
    BY <2>1 DEF LevelStill, LevelWiping
  <2>3. LevelServes'
    BY <2>1, <2>2 DEF LevelServes, LevelStill
  <2> QED  BY <2>2, <2>3, StillCovers
<1>11. ASSUME NEW s \in lvStreams, LevelCleaned(s) PROVE Goal
  <2>1. /\ UNCHANGED <<torn, asked, owed, lvLapsed, lvMatcher, lvWrites, lvParts>>
        /\ lvStreams' = lvStreams \ {s} /\ lvKeys' = lvKeys \ s.keys
    BY <1>11 DEF LevelCleaned, calls, sessions
  <2>2. \A d : LevelWiping(d)' => LevelWiping(d)
    BY <2>1 DEF LevelWiping
  <2>3. \A d : (\A k \in s.keys : k[2] # d) => (LevelWiping(d)' <=> LevelWiping(d))
    BY <2>1 DEF LevelWiping
  <2>4. \A k \in s.keys : LevelWiping(k[2])
    BY DEF LevelWiping
  <2>5. ASSUME NEW d \in Clients, d \notin torn', d \notin lvLapsed', ~LevelWiping(d)'
        PROVE  Indexed(d, asked'[d]) \subseteq lvMatcher' \cap (lvKeys' \cup lvWrites')
    <3>1. CASE LevelWiping(d)
      BY <2>1, <2>5, <3>1, IndexedFacts DEF LevelCovers
    <3>2. CASE ~LevelWiping(d)
      <4>1. \A k \in s.keys : k[2] # d
        BY <2>4, <3>2
      <4>2. Indexed(d, asked[d]) \subseteq lvMatcher \cap (lvKeys \cup lvWrites)
        BY <2>1, <2>5, <3>2 DEF LevelCovers
      <4> QED  BY <2>1, <4>1, <4>2, IndexedFacts
    <3> QED  BY <3>1, <3>2
  <2>6. LevelCovers'
    BY <2>1, <2>2, <2>5 DEF LevelCovers
  <2>7. LevelServes'
    <3>1. ASSUME NEW x \in owed PROVE <<x.sub, x.client>> \notin s.keys
      <4>1. ~LevelWiping(x.client)
        BY DEF LevelServes
      <4> QED  BY <2>4, <4>1
    <3> QED  BY <2>1, <2>2, <3>1 DEF LevelServes
  <2> QED  BY <2>6, <2>7
<1>12. ASSUME NEW s \in lvStreams, NEW x \in s.read, LevelApply(s, x) PROVE Goal
  <2> DEFINE u == [s EXCEPT !.read = @ \ {x}]
  <2>1. /\ UNCHANGED <<torn, asked, owed, lvLapsed, lvMatcher, lvKeys, lvWrites, lvParts>>
        /\ lvStreams' = (lvStreams \ {s}) \cup (IF s.read = {x} /\ s.keys = {} THEN {} ELSE {u})
    BY <1>12 DEF LevelApply, calls, sessions, lvSession
  <2>2. u.keys = s.keys
    BY DEF LevelTyped, Streams
  <2> HIDE DEF u
  <2>3. \A d : LevelWiping(d)' <=> LevelWiping(d)
    BY <2>1, <2>2 DEF LevelWiping
  <2> QED  BY <2>1, <2>3, StillCovers, StillServes DEF LevelStill
<1> HIDE DEF Goal
<1> QED
  BY <1>1, <1>2, <1>3, <1>4, <1>5, <1>6, <1>7, <1>8, <1>9, <1>10, <1>11, <1>12 DEF LevelNext
-----------------------------------------------------------------------------
(* The MongoDB persistence *)

MongoWiping(c) == \E w \in mgWipes : w[1] = c

\* Subscriptions that were stored, and not removed or expired since, are in
\* the collection or on the way to it; a removal is of a session that is
\* empty, or overlapped with a storing.
MongoCovers ==
    \A c \in Clients \ torn :
        /\ Indexed(c, asked[c]) \subseteq mgSubs \cup mgWrites
        /\ MongoWiping(c) => asked[c] = {}

\* A session that is owed a packet, and that the query finds, has it among
\* those to be stored.
MongoServes ==
    \A x \in owed : <<x.topic, x.sub>> \in Patterns =>
                       \E y \in mgParts : y.client = x.client /\ y.pub = x.pub

LEMMA MongoSessionCovers ==
    ASSUME CallsTyped, MongoTyped, MongoCovers, NEW c \in Clients,
           MongoClean(c) \/ MongoRemoveSubscriptions(c) \/ \E F \in SUBSET Filters : MongoStoreSubscriptions(c, F)
    PROVE  MongoCovers'
<1>1. CASE MongoClean(c)
  <2>1. /\ asked' = [asked EXCEPT ![c] = @ \ Filters] /\ UNCHANGED <<torn, mgSubs, mgWrites>>
        /\ mgWipes' = mgWipes \cup {<<c, "subscriptions">>, <<c, "packets">>}
    BY <1>1 DEF MongoClean, Drops
  <2>2. asked'[c] = {} /\ \A d \in Clients : d # c => asked'[d] = asked[d]
    BY <2>1 DEF CallsTyped
  <2>3. \A d : d # c => (MongoWiping(d)' <=> MongoWiping(d))
    BY <2>1 DEF MongoWiping
  <2> QED  BY <2>1, <2>2, <2>3, IndexedFacts DEF MongoCovers
<1>2. CASE MongoRemoveSubscriptions(c)
  <2>1. /\ mgWipes' \subseteq mgWipes /\ <<c, "subscriptions">> \in mgWipes
        /\ mgSubs' = {k \in mgSubs : k[2] # c}
        /\ UNCHANGED <<torn, asked, mgWrites>>
    BY <1>2 DEF MongoRemoveSubscriptions, calls, sessions
  <2>2. MongoWiping(c) /\ \A d : MongoWiping(d)' => MongoWiping(d)
    BY <2>1 DEF MongoWiping
  <2> QED  BY <2>1, <2>2, IndexedFacts DEF MongoCovers
<1>3. ASSUME NEW F \in SUBSET Filters, MongoStoreSubscriptions(c, F) PROVE MongoCovers'
  <2>1. /\ mgWrites' = mgWrites \cup Indexed(c, F) /\ asked' = [asked EXCEPT ![c] = F]
        /\ torn' = IF MongoWiping(c) THEN torn \cup {c} ELSE torn \ {c}
        /\ UNCHANGED <<mgSubs, mgWipes>>
    BY <1>3 DEF MongoStoreSubscriptions, Saves, MongoWiping
  <2>2. asked'[c] = F /\ \A d \in Clients : d # c => asked'[d] = asked[d]
    BY <2>1 DEF CallsTyped
  <2>3. \A d : MongoWiping(d)' <=> MongoWiping(d)
    BY <2>1 DEF MongoWiping
  <2> QED  BY <2>1, <2>2, <2>3 DEF MongoCovers
<1> QED  BY <1>1, <1>2, <1>3

LEMMA MongoPublishServes ==
    ASSUME CallsTyped, MongoTyped, MongoCovers, MongoServes, NEW t \in Topics, MongoPublish(t)
    PROVE  MongoServes'
<1> DEFINE K == {j \in mgSubs : <<t, j[1]>> \in Patterns}
<1>1. /\ mgParts' = mgParts \cup {[client |-> k[2], pub |-> pubs + 1, sub |-> k[1]] : k \in K}
      /\ owed' = owed \cup {x \in [client: {c \in Clients : MongoSettled(c)}, pub: {pubs + 1}, sub: Filters, topic: {t}] :
                             x.sub \in asked[x.client] /\ <<t, x.sub>> \in Matches}
  BY DEF MongoPublish, Owes
<1>2. ASSUME NEW x \in owed', <<x.topic, x.sub>> \in Patterns
      PROVE  \E y \in mgParts' : y.client = x.client /\ y.pub = x.pub
  <2>1. CASE x \in owed
    BY <1>1, <1>2, <2>1 DEF MongoServes
  <2>2. CASE x \notin owed
    <3>1. x.client \in Clients /\ MongoSettled(x.client) /\ x.pub = pubs + 1 /\ x.sub \in asked[x.client] /\ x.topic = t
      BY <1>1, <2>2
    <3> DEFINE k == <<x.sub, x.client>>
    <3>2. k \in mgSubs \cup mgWrites /\ k \notin mgWrites
      BY <3>1, IndexedFacts DEF MongoCovers, MongoSettled
    <3>3. k \in K
      BY <1>2, <3>1, <3>2
    <3>4. k[2] = x.client
      OBVIOUS
    <3> HIDE DEF K, k
    <3>5. [client |-> k[2], pub |-> pubs + 1, sub |-> k[1]] \in mgParts'
      BY <1>1, <3>3
    <3> QED  BY <3>1, <3>4, <3>5
  <2> QED  BY <2>1, <2>2
<1> QED  BY <1>2 DEF MongoServes

LEMMA MongoIndexKept ==
    ASSUME CallsTyped, MongoTyped, MongoCovers, MongoServes, MongoNext
    PROVE  MongoCovers' /\ MongoServes'
<1> DEFINE Goal == MongoCovers' /\ MongoServes'
<1> SUFFICES Goal
  OBVIOUS
<1>0. ASSUME UNCHANGED <<torn, asked, mgSubs, mgWrites>>, mgWipes' \subseteq mgWipes PROVE MongoCovers'
  <2>1. \A d : MongoWiping(d)' => MongoWiping(d)
    BY <1>0 DEF MongoWiping
  <2> QED  BY <1>0, <2>1 DEF MongoCovers
<1>1. ASSUME owed' \subseteq owed, mgParts \subseteq mgParts' PROVE MongoServes'
  BY <1>1 DEF MongoServes
<1>2. CASE MongoRestart
  <2>1. /\ mgWrites' = {} /\ mgWipes' = {} /\ owed' = {} /\ torn' = torn \cup {k[2] : k \in mgWrites}
        /\ UNCHANGED <<mgSubs, asked>>
    BY <1>2 DEF MongoRestart, Stops
  <2>2. \A c : ~MongoWiping(c)'
    BY <2>1 DEF MongoWiping
  <2>3. ASSUME NEW c \in Clients \ torn' PROVE Indexed(c, asked[c]) \subseteq mgSubs
    <3>1. c \notin torn /\ \A k \in mgWrites : k[2] # c
      BY <2>1
    <3> QED  BY <3>1, IndexedFacts DEF MongoCovers
  <2> QED  BY <2>1, <2>2, <2>3 DEF MongoCovers, MongoServes
<1>3. ASSUME NEW c \in Clients,
             MongoClean(c) \/ MongoRemoveSubscriptions(c) \/ \E F \in SUBSET Filters : MongoStoreSubscriptions(c, F)
      PROVE  Goal
  <2>1. UNCHANGED <<owed, mgParts>>
    BY <1>3 DEF MongoClean, MongoRemoveSubscriptions, MongoStoreSubscriptions, Saves, calls
  <2> QED  BY <1>1, <1>3, <2>1, MongoSessionCovers
<1>4. ASSUME NEW c \in Clients, MongoRemovePackets(c) PROVE Goal
  BY <1>0, <1>1, <1>4 DEF MongoRemovePackets, sessions
<1>5. ASSUME NEW c, NEW i, NEW new, MongoUpdate(c, i, new) \/ MongoDelete(c, i) PROVE Goal
  BY <1>0, <1>1, <1>5 DEF MongoUpdate, MongoDelete, Releases, sessions
<1>6. ASSUME NEW x, MongoExpire(x) PROVE Goal
  BY <1>0, <1>1, <1>6 DEF MongoExpire, Releases, sessions
<1>7. ASSUME NEW k \in mgWrites, MongoWrite(k) PROVE Goal
  <2>1. /\ mgWrites' = mgWrites \ {k} /\ mgSubs' = mgSubs \cup {k}
        /\ UNCHANGED <<torn, asked, owed, mgParts, mgWipes>>
    BY <1>7 DEF MongoWrite, calls, sessions
  <2>2. \A d : MongoWiping(d)' <=> MongoWiping(d)
    BY <2>1 DEF MongoWiping
  <2> QED  BY <1>1, <2>1, <2>2 DEF MongoCovers
<1>8. ASSUME NEW k \in mgSubs, MongoLapse(k) PROVE Goal
  <2>1. /\ mgSubs' = mgSubs \ {k} /\ asked' = [asked EXCEPT ![k[2]] = @ \ {k[1]}]
        /\ UNCHANGED <<torn, owed, mgWrites, mgParts, mgWipes>>
    BY <1>8 DEF MongoLapse, Drops
  <2>2. k = <<k[1], k[2]>> /\ k[2] \in Clients
    BY DEF MongoTyped, Index
  <2>3. asked'[k[2]] = asked[k[2]] \ {k[1]} /\ \A d \in Clients : d # k[2] => asked'[d] = asked[d]
    BY <2>1, <2>2 DEF CallsTyped
  <2>4. \A d : MongoWiping(d)' <=> MongoWiping(d)
    BY <2>1 DEF MongoWiping
  <2>5. ASSUME NEW c \in Clients, c \notin torn
        PROVE  Indexed(c, asked'[c]) \subseteq mgSubs' \cup mgWrites' /\ (MongoWiping(c)' => asked'[c] = {})
    <3>1. Indexed(c, asked[c]) \subseteq mgSubs \cup mgWrites /\ (MongoWiping(c) => asked[c] = {})
      BY <2>5 DEF MongoCovers
    <3>2. CASE c = k[2]
      BY <2>1, <2>2, <2>3, <2>4, <3>1, <3>2, IndexedFacts
    <3>3. CASE c # k[2]
      BY <2>1, <2>2, <2>3, <2>4, <3>1, <3>3, IndexedFacts
    <3> QED  BY <3>2, <3>3
  <2> QED  BY <1>1, <2>1, <2>5 DEF MongoCovers
<1>9. ASSUME NEW t \in Topics, MongoPublish(t) PROVE Goal
  <2>1. MongoCovers'
    BY <1>0, <1>9 DEF MongoPublish, Owes, sessions
  <2> QED  BY <1>9, <2>1, MongoPublishServes
<1>10. ASSUME NEW x \in mgParts, MongoStorePacket(x) PROVE Goal
  <2>1. MongoCovers'
    BY <1>0, <1>10 DEF MongoStorePacket, Gives, sessions
  <2>2. /\ mgParts' = mgParts \ {x} /\ owed' = {y \in owed : y.client # x.client \/ y.pub # x.pub}
    BY <1>10 DEF MongoStorePacket, Gives
  <2>3. MongoServes'
    BY <2>2 DEF MongoServes
  <2> QED  BY <2>1, <2>3
<1> HIDE DEF Goal
<1> QED
  BY <1>2, <1>3, <1>4, <1>5, <1>6, <1>7, <1>8, <1>9, <1>10 DEF MongoNext
-----------------------------------------------------------------------------
(* The lists of Redis *)

\* What is held and not loose is listed and not about to be swept; a packet
\* that is still to be stored is neither listed nor swept.
ListSound ==
    \A c \in Clients :
        /\ \A i \in Ids : <<c, i>> \notin rdLoose /\ Holds(c, i) => Listed(c, i) /\ <<c, i>> \notin rdSweeps
        /\ \A x \in rdParts : x.client = c => ~Listed(c, Uid(x.pub)) /\ <<c, Uid(x.pub)>> \notin rdSweeps
        /\ \A q \in Pubs : Listed(c, Uid(q)) \/ <<c, Uid(q)>> \in rdSweeps => q <= pubs

\* A publication is stored once for a client, by the broker that it was
\* published at.
PartsSound ==
    /\ \A x \in rdParts : x.pub <= pubs
    /\ \A x, y \in rdParts : x.client = y.client /\ x.pub = y.pub => x = y

LEMMA ListStill ==
    ASSUME ListSound, PartsSound, UNCHANGED <<pubs, rdPackets>>, rdParts' \subseteq rdParts
    PROVE  ListSound' /\ PartsSound'
  BY DEF ListSound, PartsSound, rdPackets, Holds, Listed

LEMMA StorePacketLists ==
    ASSUME CallsTyped, RedisPacketsTyped, ListSound, PartsSound, NEW x \in rdParts, RedisStorePacket(x)
    PROVE  ListSound' /\ PartsSound'
<1>1. x.client \in Clients /\ x.pub \in Pubs /\ x.pub <= pubs /\ Uid(x.pub) \in Ids
  BY NumbersTyped DEF RedisPacketsTyped, Pipelines, PartsSound
<1>2. /\ rdParts' = rdParts \ {x} /\ UNCHANGED <<pubs, rdSweeps, rdLoose>>
      /\ rdKeys' = [rdKeys EXCEPT ![x.client][Uid(x.pub)] = x.pub]
      /\ rdList' = [rdList EXCEPT ![x.client][Uid(x.pub)] = @ + 1]
  BY DEF RedisStorePacket, Gives
<1>3. \A c \in Clients, i \in Ids : (c # x.client \/ i # Uid(x.pub)) =>
         rdKeys'[c][i] = rdKeys[c][i] /\ rdList'[c][i] = rdList[c][i]
  BY <1>1, <1>2 DEF RedisPacketsTyped
<1>4. rdList'[x.client][Uid(x.pub)] > 0
  BY <1>1, <1>2 DEF RedisPacketsTyped
<1>5. \A q \in Pubs : Uid(q) = Uid(x.pub) => q = x.pub
  BY <1>1, NumbersTyped
<1>6. PartsSound'
  BY <1>2 DEF PartsSound
<1>7. ASSUME NEW c \in Clients
      PROVE  /\ \A i \in Ids : <<c, i>> \notin rdLoose /\ Holds(c, i)' => Listed(c, i)' /\ <<c, i>> \notin rdSweeps
             /\ \A y \in rdParts' : y.client = c => ~Listed(c, Uid(y.pub))' /\ <<c, Uid(y.pub)>> \notin rdSweeps
             /\ \A q \in Pubs : Listed(c, Uid(q))' \/ <<c, Uid(q)>> \in rdSweeps => q <= pubs
  <2>1. \A i \in Ids : <<c, i>> \notin rdLoose /\ Holds(c, i)' => Listed(c, i)' /\ <<c, i>> \notin rdSweeps
    BY <1>1, <1>3, <1>4 DEF ListSound, Holds, Listed
  <2>2. ASSUME NEW y \in rdParts', y.client = c PROVE ~Listed(c, Uid(y.pub))' /\ <<c, Uid(y.pub)>> \notin rdSweeps
    <3>1. y \in rdParts /\ y # x /\ y.pub \in Pubs /\ Uid(y.pub) \in Ids
      BY <1>2, NumbersTyped DEF RedisPacketsTyped, Pipelines
    <3>2. c # x.client \/ y.pub # x.pub
      BY <2>2, <3>1 DEF PartsSound
    <3>3. c # x.client \/ Uid(y.pub) # Uid(x.pub)
      BY <1>5, <3>1, <3>2
    <3> QED  BY <1>3, <2>2, <3>1, <3>3 DEF ListSound, Listed
  <2>3. ASSUME NEW q \in Pubs, Listed(c, Uid(q))' \/ <<c, Uid(q)>> \in rdSweeps PROVE q <= pubs
    <3>1. Uid(q) \in Ids
      BY NumbersTyped
    <3> QED  BY <1>1, <1>3, <1>5, <2>3, <3>1 DEF ListSound, Listed
  <2> QED  BY <2>1, <2>2, <2>3
<1>8. ListSound'
  BY <1>2, <1>7 DEF ListSound
<1> QED  BY <1>6, <1>8

LEMMA PublishLists ==
    ASSUME CallsTyped, RedisPacketsTyped, ListSound, PartsSound, NEW p \in Procs, NEW t \in Topics, RedisPublish(p, t)
    PROVE  ListSound' /\ PartsSound'
<1> DEFINE N == {[proc |-> p, client |-> k[2], pub |-> pubs + 1] : k \in Match(t, rdMatcher[p])}
<1>1. rdParts' = rdParts \cup N /\ pubs' = pubs + 1 /\ UNCHANGED <<rdKeys, rdList, rdSweeps, rdLoose>>
  BY DEF RedisPublish, Owes, rdPackets
<1>2. pubs \in Nat /\ pubs + 1 \in Pubs
  BY NumbersTyped DEF RedisPublish, Owes, CallsTyped, Pubs
<1>3. \A x \in N : x.pub = pubs + 1 /\ x.proc = p
  OBVIOUS
<1>4. \A x, y \in N : x.client = y.client => x = y
  OBVIOUS
<1> HIDE DEF N
<1>5. \A x \in rdParts : x.pub \in Nat /\ x.pub <= pubs
  BY NumbersTyped DEF PartsSound, RedisPacketsTyped, Pipelines, Pubs
<1>6. PartsSound'
  BY <1>1, <1>2, <1>3, <1>4, <1>5 DEF PartsSound
<1>7. ASSUME NEW c \in Clients
      PROVE  /\ \A i \in Ids : <<c, i>> \notin rdLoose /\ Holds(c, i) => Listed(c, i) /\ <<c, i>> \notin rdSweeps
             /\ \A x \in rdParts' : x.client = c => ~Listed(c, Uid(x.pub)) /\ <<c, Uid(x.pub)>> \notin rdSweeps
             /\ \A q \in Pubs : Listed(c, Uid(q)) \/ <<c, Uid(q)>> \in rdSweeps => q <= pubs + 1
  <2>1. \A i \in Ids : <<c, i>> \notin rdLoose /\ Holds(c, i) => Listed(c, i) /\ <<c, i>> \notin rdSweeps
    BY DEF ListSound
  <2>2. \A q \in Pubs : Listed(c, Uid(q)) \/ <<c, Uid(q)>> \in rdSweeps => q <= pubs
    BY DEF ListSound
  <2>3. ~Listed(c, Uid(pubs + 1)) /\ <<c, Uid(pubs + 1)>> \notin rdSweeps
    BY <1>2, <2>2
  <2>4. \A x \in rdParts' : x.client = c => ~Listed(c, Uid(x.pub)) /\ <<c, Uid(x.pub)>> \notin rdSweeps
    BY <1>1, <1>3, <2>3 DEF ListSound
  <2>5. \A q \in Pubs : q <= pubs => q <= pubs + 1
    BY <1>2, NumbersTyped DEF Pubs
  <2> QED  BY <2>1, <2>2, <2>4, <2>5
<1>8. ListSound'
  BY <1>1, <1>7 DEF ListSound, Holds, Listed
<1> QED  BY <1>6, <1>8

LEMMA UpdateLists ==
    ASSUME CallsTyped, RedisPacketsTyped, ListSound, PartsSound, NEW c \in Clients,
           NEW old \in Ids, NEW new \in MessageIds, RedisUpdate(c, old, new)
    PROVE  ListSound' /\ PartsSound'
<1>1. /\ rdKeys' = [rdKeys EXCEPT ![c] = Rename(@, old, new)]
      /\ rdList' = [rdList EXCEPT ![c] = Relisted(@, old, new)]
      /\ rdLoose' = IF <<c, new>> \in rdSweeps THEN rdLoose \cup {<<c, new>>} ELSE rdLoose \ {<<c, new>>}
      /\ UNCHANGED <<pubs, rdSweeps, rdParts>>
  BY DEF RedisUpdate, Releases
<1>2. new \in Ids /\ \A q \in Pubs : Uid(q) \in Ids /\ Uid(q) # new
  BY NumbersTyped
<1>3. /\ rdKeys[c] \in [Ids -> 0 .. MaxPubs] /\ rdList[c] \in [Ids -> Nat]
      /\ rdKeys'[c] = Rename(rdKeys[c], old, new) /\ rdList'[c] = Relisted(rdList[c], old, new)
      /\ \A d \in Clients : d # c => rdKeys'[d] = rdKeys[d] /\ rdList'[d] = rdList[d]
  BY <1>1 DEF RedisPacketsTyped
<1>4. /\ \A i \in Ids : rdList'[c][i] = IF i = new THEN Unlisted(rdList[c], old)[new] + 1 ELSE Unlisted(rdList[c], old)[i]
      /\ \A i \in Ids : Unlisted(rdList[c], old)[i] \in Nat
      /\ \A i \in Ids : i # old => Unlisted(rdList[c], old)[i] = rdList[c][i]
      /\ \A i \in Ids : Unlisted(rdList[c], old)[i] <= rdList[c][i]
  BY <1>2, <1>3 DEF Relisted, Unlisted
<1>5. \A i \in Ids : rdKeys'[c][i] # 0 =>
         \/ i = new /\ rdKeys[c][old] # 0
         \/ rdKeys[c][i] # 0 /\ (rdKeys[c][old] = 0 \/ i # old)
  BY <1>2, <1>3 DEF Rename
<1>6. rdList'[c][new] > 0
  BY <1>2, <1>4
<1>7. ASSUME NEW d \in Clients
      PROVE  /\ \A i \in Ids : <<d, i>> \notin rdLoose' /\ Holds(d, i)' => Listed(d, i)' /\ <<d, i>> \notin rdSweeps
             /\ \A x \in rdParts : x.client = d => ~Listed(d, Uid(x.pub))' /\ <<d, Uid(x.pub)>> \notin rdSweeps
             /\ \A q \in Pubs : Listed(d, Uid(q))' \/ <<d, Uid(q)>> \in rdSweeps => q <= pubs
  <2>1. \A i \in Ids : <<d, i>> \notin rdLoose' /\ (d # c \/ i # new) => <<d, i>> \notin rdLoose
    BY <1>1
  <2>2. CASE d # c
    BY <1>1, <1>3, <2>1, <2>2 DEF ListSound, Holds, Listed
  <2>3. CASE d = c
    <3>1. \A q \in Pubs : Listed(c, Uid(q))' => Listed(c, Uid(q))
      BY <1>2, <1>3, <1>4 DEF Listed
    <3>2. \A x \in rdParts : x.pub \in Pubs
      BY DEF RedisPacketsTyped, Pipelines
    <3>3. ASSUME NEW i \in Ids, <<c, i>> \notin rdLoose', Holds(c, i)' PROVE Listed(c, i)' /\ <<c, i>> \notin rdSweeps
      <4>1. CASE i = new
        BY <1>1, <1>6, <3>3, <4>1 DEF Listed
      <4>3. CASE i # new
        <5>1. Holds(c, i) /\ (i # old \/ rdKeys[c][old] = 0)
          BY <1>5, <3>3, <4>3 DEF Holds
        <5>2. i # old
          BY <5>1 DEF Holds
        <5>3. Listed(c, i) /\ <<c, i>> \notin rdSweeps
          BY <2>1, <2>3, <3>3, <4>3, <5>1 DEF ListSound
        <5> QED  BY <1>4, <4>3, <5>2, <5>3 DEF Listed
      <4> QED  BY <4>1, <4>3
    <3>4. \A x \in rdParts : x.client = c => ~Listed(c, Uid(x.pub)) /\ <<c, Uid(x.pub)>> \notin rdSweeps
      BY <2>1, <2>3 DEF ListSound
    <3>5. \A q \in Pubs : Listed(c, Uid(q)) \/ <<c, Uid(q)>> \in rdSweeps => q <= pubs
      BY <2>1, <2>3 DEF ListSound
    <3> QED  BY <2>3, <3>1, <3>2, <3>3, <3>4, <3>5
  <2> QED  BY <2>2, <2>3
<1>8. ListSound'
  BY <1>1, <1>7 DEF ListSound
<1>9. PartsSound'
  BY <1>1 DEF PartsSound
<1> QED  BY <1>8, <1>9

LEMMA ListKept ==
    ASSUME CallsTyped, RedisSessionTyped, RedisPacketsTyped, ListSound, PartsSound, RedisNext
    PROVE  ListSound' /\ PartsSound'
<1> DEFINE Goal == ListSound' /\ PartsSound'
<1> SUFFICES Goal
  OBVIOUS
<1>1. ASSUME NEW p \in Procs, RedisSessionStep(p) PROVE Goal
  <2>1. UNCHANGED <<pubs, rdPackets, rdParts>>
    BY <1>1 DEF RedisSessionStep, RedisStored, RedisMessage, RedisLoaded, RedisClean, RedisStoreSubscriptions,
       Drops, Saves, calls
  <2> QED  BY <2>1, ListStill
<1>2. ASSUME NEW p \in Procs, RedisRestart(p) PROVE Goal
  <2>1. UNCHANGED <<pubs, rdPackets>> /\ rdParts' \subseteq rdParts
    BY <1>2 DEF RedisRestart, Stops
  <2> QED  BY <2>1, ListStill
<1>3. ASSUME NEW c \in Clients, RedisLapse(c) PROVE Goal
  <2>1. UNCHANGED <<pubs, rdPackets, rdParts>>
    BY <1>3 DEF RedisLapse, Drops
  <2> QED  BY <2>1, ListStill
<1>4. ASSUME NEW p \in Procs, RedisCleaned(p) PROVE Goal
  <2>1. PICK c \in Clients :
          /\ rdList' = [rdList EXCEPT ![c] = [i \in Ids |-> 0]]
          /\ rdLoose' = rdLoose \cup {<<c, i>> : i \in {j \in Ids : Holds(c, j)}}
          /\ UNCHANGED <<rdKeys, rdSweeps, rdParts, pubs>>
    <3>1. Head(rdAnswers[p]).client \in Clients
      BY <1>4, ReadTyped DEF RedisCleaned, Answers
    <3> QED  BY <1>4, <3>1 DEF RedisCleaned
  <2>2. /\ \A i \in Ids : rdList'[c][i] = 0
        /\ \A d \in Clients : d # c => rdList'[d] = rdList[d]
    BY <2>1 DEF RedisPacketsTyped
  <2>3. rdLoose \subseteq rdLoose' /\ \A i \in Ids : <<c, i>> \notin rdLoose' => ~Holds(c, i)
    BY <2>1
  <2>4. \A q \in Pubs : Uid(q) \in Ids
    BY NumbersTyped
  <2>5. \A x \in rdParts : x.pub \in Pubs
    BY DEF RedisPacketsTyped, Pipelines
  <2>6. ASSUME NEW d \in Clients
        PROVE  /\ \A i \in Ids : <<d, i>> \notin rdLoose' /\ Holds(d, i) => Listed(d, i)' /\ <<d, i>> \notin rdSweeps
               /\ \A x \in rdParts : x.client = d => ~Listed(d, Uid(x.pub))' /\ <<d, Uid(x.pub)>> \notin rdSweeps
               /\ \A q \in Pubs : Listed(d, Uid(q))' \/ <<d, Uid(q)>> \in rdSweeps => q <= pubs
    BY <2>2, <2>3, <2>4, <2>5 DEF ListSound, Listed
  <2>7. ListSound'
    BY <2>1, <2>6 DEF ListSound, Holds
  <2> QED  BY <2>1, <2>7 DEF PartsSound
<1>5. ASSUME NEW c \in Clients, NEW i \in Ids, RedisStream(c, i) PROVE Goal
  <2>1. /\ Listed(c, i) /\ ~Holds(c, i) /\ rdSweeps' = rdSweeps \cup {<<c, i>>}
        /\ UNCHANGED <<pubs, rdKeys, rdList, rdLoose, rdParts>>
    BY <1>5 DEF RedisStream, calls
  <2>2. ListSound'
    BY <2>1 DEF ListSound, Holds, Listed
  <2> QED  BY <2>1, <2>2 DEF PartsSound
<1>6. ASSUME NEW c \in Clients, NEW i \in Ids, RedisExpire(c, i) \/ RedisDelete(c, i) PROVE Goal
  <2>1. /\ rdKeys' = [rdKeys EXCEPT ![c][i] = 0]
        /\ rdList' = rdList \/ rdList' = [rdList EXCEPT ![c] = Unlisted(@, i)]
        /\ UNCHANGED <<pubs, rdSweeps, rdLoose, rdParts>>
    BY <1>6 DEF RedisExpire, RedisDelete, Releases
  <2>2. \A d \in Clients, j \in Ids : rdKeys'[d][j] = IF d = c /\ j = i THEN 0 ELSE rdKeys[d][j]
    BY <2>1 DEF RedisPacketsTyped
  <2>3. \A d \in Clients, j \in Ids : /\ d # c \/ j # i => rdList'[d][j] = rdList[d][j]
                                      /\ rdList'[d][j] > 0 => rdList[d][j] > 0
    BY <2>1 DEF RedisPacketsTyped, Unlisted
  <2>4. \A q \in Pubs : Uid(q) \in Ids
    BY NumbersTyped
  <2>5. \A x \in rdParts : x.pub \in Pubs
    BY DEF RedisPacketsTyped, Pipelines
  <2>6. ASSUME NEW d \in Clients
        PROVE  /\ \A j \in Ids : <<d, j>> \notin rdLoose /\ Holds(d, j)' => Listed(d, j)' /\ <<d, j>> \notin rdSweeps
               /\ \A x \in rdParts : x.client = d => ~Listed(d, Uid(x.pub))' /\ <<d, Uid(x.pub)>> \notin rdSweeps
               /\ \A q \in Pubs : Listed(d, Uid(q))' \/ <<d, Uid(q)>> \in rdSweeps => q <= pubs
    BY <2>2, <2>3, <2>4, <2>5 DEF ListSound, Listed, Holds
  <2>7. ListSound'
    BY <2>1, <2>6 DEF ListSound
  <2> QED  BY <2>1, <2>7 DEF PartsSound
<1>7. ASSUME NEW x \in rdSweeps, RedisSweep(x) PROVE Goal
  <2>1. /\ rdSweeps' = rdSweeps \ {x} /\ rdList' = [rdList EXCEPT ![x[1]][x[2]] = 0]
        /\ UNCHANGED <<pubs, rdKeys, rdLoose, rdParts>>
    BY <1>7 DEF RedisSweep, calls
  <2>2. x[1] \in Clients /\ x[2] \in Ids /\ x = <<x[1], x[2]>>
    BY DEF RedisPacketsTyped
  <2>3. \A d \in Clients, j \in Ids : rdList'[d][j] = IF d = x[1] /\ j = x[2] THEN 0 ELSE rdList[d][j]
    BY <2>1, <2>2 DEF RedisPacketsTyped
  <2>4. \A q \in Pubs : Uid(q) \in Ids
    BY NumbersTyped
  <2>5. \A y \in rdParts : y.pub \in Pubs
    BY DEF RedisPacketsTyped, Pipelines
  <2>6. ASSUME NEW d \in Clients
        PROVE  /\ \A j \in Ids : <<d, j>> \notin rdLoose /\ Holds(d, j) => Listed(d, j)' /\ <<d, j>> \notin rdSweeps'
               /\ \A y \in rdParts : y.client = d => ~Listed(d, Uid(y.pub))' /\ <<d, Uid(y.pub)>> \notin rdSweeps'
               /\ \A q \in Pubs : Listed(d, Uid(q))' \/ <<d, Uid(q)>> \in rdSweeps' => q <= pubs
    BY <2>1, <2>2, <2>3, <2>4, <2>5 DEF ListSound, Listed
  <2>7. ListSound'
    BY <2>1, <2>6 DEF ListSound, Holds
  <2> QED  BY <2>1, <2>7 DEF PartsSound
<1>8. ASSUME NEW p \in Procs, NEW t \in Topics, RedisPublish(p, t) PROVE Goal
  BY <1>8, PublishLists
<1>9. ASSUME NEW x \in rdParts, RedisStorePacket(x) PROVE Goal
  BY <1>9, StorePacketLists
<1>10. ASSUME NEW c \in Clients, NEW i \in StoredIds(pubs), NEW new \in MessageIds, RedisUpdate(c, i, new) PROVE Goal
  BY <1>10, StoredIdsTyped, UpdateLists
<1>11. MessageIds \subseteq Ids
  BY NumbersTyped
<1> HIDE DEF Goal
<1> QED
  BY <1>1, <1>2, <1>3, <1>4, <1>5, <1>6, <1>7, <1>8, <1>9, <1>10, <1>11 DEF RedisNext, RedisSessionStep

-----------------------------------------------------------------------------
(* The indexes of Redis *)

Items(q) == {q[i] : i \in 1 .. Len(q)}
AnswersAbout(c, p) == {a \in Items(rdAnswers[p]) : a.client = c}
MessagesAbout(c, p) == {m \in Items(rdChannel[p]) : m.client = c}

LEMMA ItemsOf ==
    ASSUME NEW S, NEW q \in Seq(S)
    PROVE  /\ \A e \in S : Items(Append(q, e)) = Items(q) \cup {e}
           /\ q # <<>> => Head(q) \in Items(q) /\ Items(q) = Items(Tail(q)) \cup {Head(q)}
<1>1. ASSUME NEW e \in S PROVE Items(Append(q, e)) = Items(q) \cup {e}
  <2>1. /\ Len(Append(q, e)) = Len(q) + 1 /\ Append(q, e)[Len(q) + 1] = e /\ Len(q) \in Nat
        /\ \A i \in 1 .. Len(q) : Append(q, e)[i] = q[i]
    OBVIOUS
  <2> HIDE DEF Items
  <2>2. \A x : x \in Items(Append(q, e)) <=> \E i \in 1 .. Len(q) + 1 : x = Append(q, e)[i]
    BY <2>1 DEF Items
  <2>3. \A x : x \in Items(q) <=> \E i \in 1 .. Len(q) : x = q[i]
    BY DEF Items
  <2>4. \A i \in 1 .. Len(q) + 1 : i = Len(q) + 1 \/ i \in 1 .. Len(q)
    BY <2>1
  <2>5. 1 .. Len(q) \subseteq 1 .. Len(q) + 1 /\ Len(q) + 1 \in 1 .. Len(q) + 1
    BY <2>1
  <2> QED  BY <2>1, <2>2, <2>3, <2>4, <2>5
<1>2. ASSUME q # <<>> PROVE Head(q) \in Items(q) /\ Items(q) = Items(Tail(q)) \cup {Head(q)}
  <2>1. /\ Len(q) \in Nat /\ Len(q) >= 1 /\ Len(Tail(q)) = Len(q) - 1 /\ Head(q) = q[1]
        /\ \A i \in 1 .. Len(q) - 1 : Tail(q)[i] = q[i + 1]
    BY <1>2
  <2>2. \A x : x \in Items(Tail(q)) <=> \E i \in 1 .. Len(q) - 1 : x = q[i + 1]
    BY <2>1 DEF Items
  <2>3. \A x : x \in Items(q) <=> \E i \in 1 .. Len(q) : x = q[i]
    BY DEF Items
  <2>4. \A i \in 1 .. Len(q) : i = 1 \/ (i - 1 \in 1 .. Len(q) - 1 /\ i = (i - 1) + 1)
    BY <2>1
  <2>5. \A i \in 1 .. Len(q) - 1 : i + 1 \in 1 .. Len(q)
    BY <2>1
  <2>6. 1 \in 1 .. Len(q)
    BY <2>1
  <2>7. \A x : x \in Items(q) => x = Head(q) \/ x \in Items(Tail(q))
    BY <2>1, <2>2, <2>3, <2>4
  <2>8. \A x : x \in Items(Tail(q)) => x \in Items(q)
    BY <2>2, <2>3, <2>5
  <2>9. Head(q) \in Items(q)
    BY <2>1, <2>3, <2>6
  <2> QED  BY <2>7, <2>8, <2>9
<1> QED  BY <1>1, <1>2

LEMMA AboutItems ==
    /\ \A c, p : About(c, rdAnswers[p]) <=> AnswersAbout(c, p) # {}
    /\ \A c, p : About(c, rdChannel[p]) <=> MessagesAbout(c, p) # {}
  BY DEF About, AnswersAbout, MessagesAbout, Items

\* A GET is sent.
LEMMA AskedItems ==
    ASSUME RedisSessionTyped, NEW p \in Procs, NEW op \in {"save", "clean"}, NEW c \in Clients,
           NEW F \in SUBSET Filters, Asks(p, op, c, F)
    PROVE  /\ AnswersAbout(c, p)' = AnswersAbout(c, p) \cup {[op |-> op, client |-> c, subs |-> F, current |-> rdSubs[c]]}
           /\ \A d \in Clients, q \in Procs : d # c \/ q # p => AnswersAbout(d, q)' = AnswersAbout(d, q)
<1> DEFINE a == [op |-> op, client |-> c, subs |-> F, current |-> rdSubs[c]]
<1>1. a \in Answers /\ a.client = c
  BY DEF RedisSessionTyped, Answers
<1>2. rdAnswers' = [rdAnswers EXCEPT ![p] = Append(@, a)]
  BY DEF Asks
<1> HIDE DEF a
<1>3. Items(Append(rdAnswers[p], a)) = Items(rdAnswers[p]) \cup {a}
  BY <1>1, ItemsOf, ReadTyped
<1>4. rdAnswers'[p] = Append(rdAnswers[p], a) /\ \A q \in Procs : q # p => rdAnswers'[q] = rdAnswers[q]
  BY <1>2 DEF RedisSessionTyped
<1>5. AnswersAbout(c, p)' = AnswersAbout(c, p) \cup {a}
  BY <1>1, <1>3, <1>4 DEF AnswersAbout
<1>6. \A d \in Clients, q \in Procs : d # c \/ q # p => AnswersAbout(d, q)' = AnswersAbout(d, q)
  BY <1>1, <1>3, <1>4 DEF AnswersAbout
<1> QED  BY <1>5, <1>6 DEF a

\* An answer a about c, or a message m, is read.
Reads(p, a, c) ==
    /\ rdAnswers[p] # <<>> /\ a = Head(rdAnswers[p]) /\ c = a.client
    /\ rdAnswers' = [rdAnswers EXCEPT ![p] = Tail(@)]
Hears(p, m, c) ==
    /\ rdChannel[p] # <<>> /\ m = Head(rdChannel[p]) /\ c = m.client
    /\ rdChannel' = [rdChannel EXCEPT ![p] = Tail(@)]

LEMMA ReadItems ==
    ASSUME RedisSessionTyped, NEW p \in Procs, NEW a, NEW c, Reads(p, a, c)
    PROVE  /\ a \in AnswersAbout(c, p)
           /\ AnswersAbout(c, p) = AnswersAbout(c, p)' \cup {a}
           /\ \A d \in Clients, q \in Procs : d # c \/ q # p => AnswersAbout(d, q)' = AnswersAbout(d, q)
<1>1. Items(rdAnswers[p]) = Items(Tail(rdAnswers[p])) \cup {a} /\ a \in Items(rdAnswers[p])
  BY ItemsOf, ReadTyped DEF Reads
<1>2. rdAnswers'[p] = Tail(rdAnswers[p]) /\ \A q \in Procs : q # p => rdAnswers'[q] = rdAnswers[q]
  BY DEF RedisSessionTyped, Reads
<1> QED  BY <1>1, <1>2 DEF AnswersAbout, Reads

LEMMA HeardItems ==
    ASSUME RedisSessionTyped, NEW p \in Procs, NEW m, NEW c, Hears(p, m, c)
    PROVE  /\ m \in MessagesAbout(c, p)
           /\ MessagesAbout(c, p) = MessagesAbout(c, p)' \cup {m}
           /\ \A d \in Clients, q \in Procs : d # c \/ q # p => MessagesAbout(d, q)' = MessagesAbout(d, q)
<1>1. Items(rdChannel[p]) = Items(Tail(rdChannel[p])) \cup {m} /\ m \in Items(rdChannel[p])
  BY ItemsOf, ReadTyped DEF Hears
<1>2. rdChannel'[p] = Tail(rdChannel[p]) /\ \A q \in Procs : q # p => rdChannel'[q] = rdChannel[q]
  BY DEF RedisSessionTyped, Hears
<1> QED  BY <1>1, <1>2 DEF MessagesAbout, Hears

\* A message is sent to all brokers but p.
LEMMA ToldItems ==
    ASSUME RedisSessionTyped, NEW p \in Procs, NEW m \in Messages,
           rdChannel' = [q \in Procs |-> IF q = p THEN rdChannel[q] ELSE Append(rdChannel[q], m)]
    PROVE  \A d \in Clients, q \in Procs :
              MessagesAbout(d, q)' = MessagesAbout(d, q) \cup IF d = m.client /\ q # p THEN {m} ELSE {}
<1>1. \A q \in Procs : Items(Append(rdChannel[q], m)) = Items(rdChannel[q]) \cup {m}
  BY ItemsOf, ReadTyped
<1> QED  BY <1>1 DEF MessagesAbout

\* A session is being stored.
Saving(c) == \E p \in Procs : \E a \in AnswersAbout(c, p) : a.op = "save"

\* Broker p has the subscriptions of c, or will when it reads an answer or a
\* message that is on its way.
Reaches(c, p) ==
    \/ Indexed(c, asked[c]) \subseteq rdMatcher[p]
    \/ \E a \in AnswersAbout(c, p) : a.op = "load" /\ asked[c] \subseteq a.subs
    \/ \E m \in MessagesAbout(c, p) : asked[c] \subseteq m.subs

\* What is on its way takes nothing from the session of c.
Harmless(c, p) ==
    /\ \A a \in AnswersAbout(c, p) : a.op # "clean" /\ (a.op = "save" => a.subs = asked[c])
    /\ \A m \in MessagesAbout(c, p) : m.unsubs \cap asked[c] = {}

\* A session that is not empty, and was stored with nothing else about it on
\* its way, is still being stored or is stored and known everywhere.
Kept(c) ==
    c \notin torn /\ asked[c] # {} =>
        /\ \A p \in Procs : Harmless(c, p)
        /\ ~Saving(c) => asked[c] \subseteq rdSubs[c] /\ \A p \in Procs : Reaches(c, p)

RedisCovers == \A c \in Clients : Kept(c)

\* What a step about other clients does to c.
Unmoved(c) ==
    /\ asked'[c] = asked[c] /\ (c \in torn => c \in torn') /\ rdSubs'[c] = rdSubs[c]
    /\ \A p \in Procs : /\ AnswersAbout(c, p)' = AnswersAbout(c, p)
                        /\ MessagesAbout(c, p)' = MessagesAbout(c, p)
                        /\ \A F : Indexed(c, F) \subseteq rdMatcher[p] => Indexed(c, F) \subseteq rdMatcher'[p]

LEMMA UnmovedKept == ASSUME NEW c \in Clients, Kept(c), Unmoved(c) PROVE Kept(c)'
<1>1. Saving(c)' <=> Saving(c)
  BY DEF Saving, Unmoved
<1>2. \A p \in Procs : (Harmless(c, p) => Harmless(c, p)') /\ (Reaches(c, p) => Reaches(c, p)')
  BY DEF Harmless, Reaches, Unmoved
<1> QED  BY <1>1, <1>2 DEF Kept, Unmoved

\* Updates of a matcher for one client do not touch the others.
LEMMA UpdateLocal ==
    /\ \A M, c, d, F, G, H : c # d /\ Indexed(d, H) \subseteq M => Indexed(d, H) \subseteq UpdateLocalSub(M, c, F, G)
    /\ \A M, c, F, G, H : H \subseteq F /\ G \cap H = {} => Indexed(c, H) \subseteq UpdateLocalSub(M, c, F, G)
    /\ \A M, c, F, G, H : Indexed(c, H) \subseteq M /\ G \cap H = {} => Indexed(c, H) \subseteq UpdateLocalSub(M, c, F, G)
  BY DEF UpdateLocalSub, Indexed

LEMMA StoreKeeps ==
    ASSUME CallsTyped, RedisSessionTyped, RedisCovers, NEW p \in Procs, NEW c \in Clients, NEW F \in SUBSET Filters,
           RedisStoreSubscriptions(p, c, F)
    PROVE  RedisCovers'
<1> DEFINE a == [op |-> "save", client |-> c, subs |-> F, current |-> rdSubs[c]]
<1>1. /\ asked' = [asked EXCEPT ![c] = F] /\ UNCHANGED <<rdSubs, rdMatcher, rdChannel>>
      /\ torn' = IF ~NothingFor(c, Procs) THEN torn \cup {c} ELSE torn \ {c}
  BY DEF RedisStoreSubscriptions, Saves
<1>2. /\ AnswersAbout(c, p)' = AnswersAbout(c, p) \cup {a}
      /\ \A d \in Clients, q \in Procs : d # c \/ q # p => AnswersAbout(d, q)' = AnswersAbout(d, q)
  BY AskedItems DEF RedisStoreSubscriptions
<1>3. \A d, q : MessagesAbout(d, q)' = MessagesAbout(d, q)
  BY <1>1 DEF MessagesAbout
<1>4. asked'[c] = F /\ \A d \in Clients : d # c => asked'[d] = asked[d]
  BY <1>1 DEF CallsTyped
<1>5. \A d \in Clients : d # c => Unmoved(d)
  BY <1>1, <1>2, <1>3, <1>4 DEF Unmoved
<1>6. ASSUME c \notin torn' PROVE (\A q \in Procs : Harmless(c, q)') /\ Saving(c)'
  <2>1. \A q \in Procs : AnswersAbout(c, q) = {} /\ MessagesAbout(c, q) = {}
    BY <1>1, <1>6, AboutItems DEF NothingFor
  <2>2. /\ AnswersAbout(c, p)' = {a} /\ \A q \in Procs : q # p => AnswersAbout(c, q)' = {}
        /\ \A q \in Procs : MessagesAbout(c, q)' = {}
    BY <1>2, <1>3, <2>1
  <2>3. a.op = "save" /\ a.subs = F
    OBVIOUS
  <2> HIDE DEF a
  <2>4. Saving(c)'
    BY <2>2, <2>3 DEF Saving
  <2>5. \A q \in Procs : Harmless(c, q)'
    BY <1>4, <2>2, <2>3 DEF Harmless
  <2> QED  BY <2>4, <2>5
<1>7. Kept(c)'
  BY <1>6 DEF Kept
<1> QED  BY <1>5, <1>7, UnmovedKept DEF RedisCovers

LEMMA DropKeeps ==
    ASSUME CallsTyped, RedisSessionTyped, RedisCovers, NEW c \in Clients,
           RedisLapse(c) \/ \E p \in Procs : RedisClean(p, c)
    PROVE  RedisCovers'
<1>1. /\ asked' = [asked EXCEPT ![c] = @ \ Filters] /\ UNCHANGED <<torn, rdMatcher, rdChannel>>
      /\ rdSubs' = rdSubs \/ rdSubs' = [rdSubs EXCEPT ![c] = {}]
  BY DEF RedisLapse, RedisClean, Drops
<1>2. asked'[c] = {} /\ \A d \in Clients : d # c => asked'[d] = asked[d]
  BY <1>1 DEF CallsTyped
<1>3. \A d \in Clients : d # c => rdSubs'[d] = rdSubs[d]
  BY <1>1 DEF RedisSessionTyped
<1>4. \A d, q : MessagesAbout(d, q)' = MessagesAbout(d, q)
  BY <1>1 DEF MessagesAbout
<1>5. \A d \in Clients, q \in Procs : d # c => AnswersAbout(d, q)' = AnswersAbout(d, q)
  <2>1. CASE RedisLapse(c)
    BY <2>1 DEF RedisLapse, AnswersAbout
  <2>2. ASSUME NEW p \in Procs, RedisClean(p, c)
        PROVE  \A d \in Clients, q \in Procs : d # c => AnswersAbout(d, q)' = AnswersAbout(d, q)
    BY <2>2, AskedItems DEF RedisClean
  <2> QED  BY <2>1, <2>2
<1>6. \A d \in Clients : d # c => Unmoved(d)
  BY <1>1, <1>2, <1>3, <1>4, <1>5 DEF Unmoved
<1>7. Kept(c)'
  BY <1>2 DEF Kept
<1> QED  BY <1>6, <1>7, UnmovedKept DEF RedisCovers

LEMMA StoredKeeps ==
    ASSUME CallsTyped, RedisSessionTyped, RedisCovers, NEW p \in Procs, RedisStored(p)
    PROVE  RedisCovers'
<1>1. PICK a : a = Head(rdAnswers[p])
  OBVIOUS
<1> DEFINE unsubs == a.current \ a.subs
           m == [client |-> a.client, subs |-> a.subs, unsubs |-> unsubs]
<1>2. /\ rdAnswers[p] # <<>> /\ a.op = "save"
      /\ rdAnswers' = [rdAnswers EXCEPT ![p] = Tail(@)]
      /\ rdMatcher' = [rdMatcher EXCEPT ![p] = UpdateLocalSub(@, a.client, a.subs, unsubs)]
      /\ rdSubs' = [rdSubs EXCEPT ![a.client] = a.subs]
      /\ rdChannel' = [q \in Procs |-> IF q = p THEN rdChannel[q] ELSE Append(rdChannel[q], m)]
      /\ UNCHANGED <<asked, torn>>
  BY <1>1 DEF RedisStored, calls, sessions
<1>3. a \in Answers
  BY <1>1, <1>2, ReadTyped
<1>4. /\ a.client \in Clients /\ a.subs \in SUBSET Filters
      /\ m \in Messages /\ m.client = a.client /\ m.subs = a.subs /\ m.unsubs = unsubs
  BY <1>3 DEF Answers, Messages
<1>5. unsubs \cap a.subs = {}
  OBVIOUS
<1>6. PICK c \in Clients : c = a.client
  BY <1>4
<1> HIDE DEF unsubs, m
<1>0. Reads(p, a, c)
  BY <1>1, <1>2, <1>6 DEF Reads
<1>7. /\ a \in AnswersAbout(c, p) /\ AnswersAbout(c, p) = AnswersAbout(c, p)' \cup {a}
      /\ \A d \in Clients, q \in Procs : d # c \/ q # p => AnswersAbout(d, q)' = AnswersAbout(d, q)
  BY <1>0, ReadItems
<1>8. \A d \in Clients, q \in Procs :
         MessagesAbout(d, q)' = MessagesAbout(d, q) \cup IF d = c /\ q # p THEN {m} ELSE {}
  BY <1>2, <1>4, <1>6, ToldItems
<1>9. /\ rdSubs'[c] = a.subs /\ \A d \in Clients : d # c => rdSubs'[d] = rdSubs[d]
      /\ rdMatcher'[p] = UpdateLocalSub(rdMatcher[p], c, a.subs, unsubs)
      /\ \A q \in Procs : q # p => rdMatcher'[q] = rdMatcher[q]
  BY <1>2, <1>6 DEF RedisSessionTyped
<1>10. \A d \in Clients : d # c => Unmoved(d)
  <2>1. \A d \in Clients : \A F : d # c /\ Indexed(d, F) \subseteq rdMatcher[p] => Indexed(d, F) \subseteq rdMatcher'[p]
    BY <1>9, UpdateLocal
  <2>2. \A d \in Clients, q \in Procs : d # c => MessagesAbout(d, q)' = MessagesAbout(d, q)
    BY <1>8
  <2> QED  BY <1>2, <1>7, <1>9, <2>1, <2>2 DEF Unmoved
<1>11. ASSUME c \notin torn', asked'[c] # {}
       PROVE  (\A q \in Procs : Harmless(c, q)') /\ asked'[c] \subseteq rdSubs'[c] /\ \A q \in Procs : Reaches(c, q)'
  <2>1. \A q \in Procs : Harmless(c, q)
    BY <1>2, <1>11 DEF RedisCovers, Kept
  <2>2. a.subs = asked[c] /\ asked' = asked
    BY <1>2, <1>7, <2>1 DEF Harmless
  <2>3. \A q \in Procs : /\ AnswersAbout(c, q)' \subseteq AnswersAbout(c, q)
                         /\ MessagesAbout(c, q)' \subseteq MessagesAbout(c, q) \cup {m}
                         /\ q # p => m \in MessagesAbout(c, q)'
    BY <1>7, <1>8
  <2>4. m.unsubs \cap asked[c] = {}
    BY <1>4, <1>5, <2>2
  <2>5. \A q \in Procs : Harmless(c, q)'
    BY <2>1, <2>2, <2>3, <2>4 DEF Harmless
  <2>6. Indexed(c, asked[c]) \subseteq rdMatcher'[p]
    BY <1>5, <1>9, <2>2, UpdateLocal
  <2>7. Reaches(c, p)'
    BY <2>2, <2>6 DEF Reaches
  <2>8. \A q \in Procs : q # p => Reaches(c, q)'
    BY <1>4, <2>2, <2>3 DEF Reaches
  <2> QED  BY <1>9, <2>2, <2>5, <2>7, <2>8
<1>12. Kept(c)'
  BY <1>11 DEF Kept
<1> QED  BY <1>10, <1>12, UnmovedKept DEF RedisCovers

LEMMA HeardKeeps ==
    ASSUME CallsTyped, RedisSessionTyped, RedisCovers, NEW p \in Procs, RedisMessage(p)
    PROVE  RedisCovers'
<1>1. PICK m : m = Head(rdChannel[p])
  OBVIOUS
<1>2. /\ rdChannel[p] # <<>> /\ rdChannel' = [rdChannel EXCEPT ![p] = Tail(@)]
      /\ rdMatcher' = [rdMatcher EXCEPT ![p] = UpdateLocalSub(@, m.client, m.subs, m.unsubs)]
      /\ UNCHANGED <<rdSubs, rdAnswers, asked, torn>>
  BY <1>1 DEF RedisMessage, calls, sessions
<1>3. PICK c \in Clients : c = m.client
  BY <1>1, <1>2, ReadTyped DEF Messages
<1>0. Hears(p, m, c)
  BY <1>1, <1>2, <1>3 DEF Hears
<1>4. /\ m \in MessagesAbout(c, p) /\ MessagesAbout(c, p) = MessagesAbout(c, p)' \cup {m}
      /\ \A d \in Clients, q \in Procs : d # c \/ q # p => MessagesAbout(d, q)' = MessagesAbout(d, q)
  BY <1>0, HeardItems
<1>5. \A d, q : AnswersAbout(d, q)' = AnswersAbout(d, q)
  BY <1>2 DEF AnswersAbout
<1>6. /\ rdMatcher'[p] = UpdateLocalSub(rdMatcher[p], c, m.subs, m.unsubs)
      /\ \A q \in Procs : q # p => rdMatcher'[q] = rdMatcher[q]
  BY <1>2, <1>3 DEF RedisSessionTyped
<1>7. \A d \in Clients : d # c => Unmoved(d)
  <2>1. \A d \in Clients : \A F : d # c /\ Indexed(d, F) \subseteq rdMatcher[p] => Indexed(d, F) \subseteq rdMatcher'[p]
    BY <1>6, UpdateLocal
  <2> QED  BY <1>2, <1>4, <1>5, <1>6, <2>1 DEF Unmoved
<1>8. ASSUME c \notin torn, asked[c] # {}
      PROVE  (\A q \in Procs : Harmless(c, q)') /\ (~Saving(c) => \A q \in Procs : Reaches(c, q)')
  <2>1. \A q \in Procs : Harmless(c, q)
    BY <1>8 DEF RedisCovers, Kept
  <2>2. m.unsubs \cap asked[c] = {}
    BY <1>4, <2>1 DEF Harmless
  <2>3. \A q \in Procs : MessagesAbout(c, q)' \subseteq MessagesAbout(c, q)
    BY <1>4
  <2>4. \A q \in Procs : Harmless(c, q)'
    BY <1>2, <1>5, <2>1, <2>3 DEF Harmless
  <2>5. Reaches(c, p) => Reaches(c, p)'
    <3>1. CASE Indexed(c, asked[c]) \subseteq rdMatcher[p] \/ asked[c] \subseteq m.subs
      <4>1. Indexed(c, asked[c]) \subseteq rdMatcher'[p]
        BY <1>6, <2>2, <3>1, UpdateLocal
      <4> QED  BY <1>2, <4>1 DEF Reaches
    <3>2. CASE \E a \in AnswersAbout(c, p) : a.op = "load" /\ asked[c] \subseteq a.subs
      BY <1>2, <1>5, <3>2 DEF Reaches
    <3>3. CASE \E n \in MessagesAbout(c, p)' : asked[c] \subseteq n.subs
      BY <1>2, <3>3 DEF Reaches
    <3> QED  BY <1>4, <3>1, <3>2, <3>3 DEF Reaches
  <2>6. \A q \in Procs : q # p => (Reaches(c, q) => Reaches(c, q)')
    BY <1>2, <1>4, <1>5, <1>6 DEF Reaches
  <2> QED  BY <1>8, <2>4, <2>5, <2>6 DEF RedisCovers, Kept
<1>9. Saving(c)' <=> Saving(c)
  BY <1>5 DEF Saving
<1>10. Kept(c)'
  BY <1>2, <1>8, <1>9 DEF RedisCovers, Kept
<1> QED  BY <1>7, <1>10, UnmovedKept DEF RedisCovers

LEMMA LoadedKeeps ==
    ASSUME CallsTyped, RedisSessionTyped, RedisCovers, NEW p \in Procs, RedisLoaded(p)
    PROVE  RedisCovers'
<1>1. PICK a : a = Head(rdAnswers[p])
  OBVIOUS
<1>2. /\ rdAnswers[p] # <<>> /\ a.op = "load" /\ rdAnswers' = [rdAnswers EXCEPT ![p] = Tail(@)]
      /\ rdMatcher' = [rdMatcher EXCEPT ![p] = UpdateLocalSub(@, a.client, a.subs, {})]
      /\ UNCHANGED <<rdSubs, rdChannel, asked, torn>>
  BY <1>1 DEF RedisLoaded, calls, sessions
<1>3. PICK c \in Clients : c = a.client
  BY <1>1, <1>2, ReadTyped DEF Answers
<1>0. Reads(p, a, c)
  BY <1>1, <1>2, <1>3 DEF Reads
<1>4. /\ a \in AnswersAbout(c, p) /\ AnswersAbout(c, p) = AnswersAbout(c, p)' \cup {a}
      /\ \A d \in Clients, q \in Procs : d # c \/ q # p => AnswersAbout(d, q)' = AnswersAbout(d, q)
  BY <1>0, ReadItems
<1>5. \A d, q : MessagesAbout(d, q)' = MessagesAbout(d, q)
  BY <1>2 DEF MessagesAbout
<1>6. /\ rdMatcher'[p] = UpdateLocalSub(rdMatcher[p], c, a.subs, {})
      /\ \A q \in Procs : q # p => rdMatcher'[q] = rdMatcher[q]
  BY <1>2, <1>3 DEF RedisSessionTyped
<1>7. \A d \in Clients : d # c => Unmoved(d)
  <2>1. \A d \in Clients : \A F : d # c /\ Indexed(d, F) \subseteq rdMatcher[p] => Indexed(d, F) \subseteq rdMatcher'[p]
    BY <1>6, UpdateLocal
  <2> QED  BY <1>2, <1>4, <1>5, <1>6, <2>1 DEF Unmoved
<1>8. \A q \in Procs : Harmless(c, q) => Harmless(c, q)'
  BY <1>2, <1>4, <1>5 DEF Harmless
<1>9. Saving(c)' <=> Saving(c)
  BY <1>2, <1>4 DEF Saving
<1>10. Reaches(c, p) => Reaches(c, p)'
  <2>1. CASE Indexed(c, asked[c]) \subseteq rdMatcher[p] \/ asked[c] \subseteq a.subs
    <3>1. Indexed(c, asked[c]) \subseteq rdMatcher'[p]
      BY <1>6, <2>1, UpdateLocal
    <3> QED  BY <1>2, <3>1 DEF Reaches
  <2>2. CASE \E b \in AnswersAbout(c, p)' : b.op = "load" /\ asked[c] \subseteq b.subs
    BY <1>2, <2>2 DEF Reaches
  <2>3. CASE \E m \in MessagesAbout(c, p) : asked[c] \subseteq m.subs
    BY <1>2, <1>5, <2>3 DEF Reaches
  <2> QED  BY <1>4, <2>1, <2>2, <2>3 DEF Reaches
<1>11. \A q \in Procs : q # p => (Reaches(c, q) => Reaches(c, q)')
  BY <1>2, <1>4, <1>5, <1>6 DEF Reaches
<1>12. Kept(c)'
  BY <1>2, <1>8, <1>9, <1>10, <1>11 DEF RedisCovers, Kept
<1> QED  BY <1>7, <1>12, UnmovedKept DEF RedisCovers

LEMMA CleanedKeeps ==
    ASSUME CallsTyped, RedisSessionTyped, RedisCovers, NEW p \in Procs, RedisCleaned(p)
    PROVE  RedisCovers'
<1>1. PICK a : a = Head(rdAnswers[p])
  OBVIOUS
<1>2. /\ rdAnswers[p] # <<>> /\ a.op = "clean" /\ rdAnswers' = [rdAnswers EXCEPT ![p] = Tail(@)]
      /\ rdMatcher' = [rdMatcher EXCEPT ![p] = @ \ Indexed(a.client, a.current)]
      /\ rdSubs' = [rdSubs EXCEPT ![a.client] = {}]
      /\ UNCHANGED <<rdChannel, asked, torn>>
  BY <1>1 DEF RedisCleaned, sessions
<1>3. PICK c \in Clients : c = a.client
  BY <1>1, <1>2, ReadTyped DEF Answers
<1>0. Reads(p, a, c)
  BY <1>1, <1>2, <1>3 DEF Reads
<1>4. /\ a \in AnswersAbout(c, p)
      /\ \A d \in Clients, q \in Procs : d # c \/ q # p => AnswersAbout(d, q)' = AnswersAbout(d, q)
  BY <1>0, ReadItems
<1>5. \A d, q : MessagesAbout(d, q)' = MessagesAbout(d, q)
  BY <1>2 DEF MessagesAbout
<1>6. /\ rdMatcher'[p] = rdMatcher[p] \ Indexed(c, a.current)
      /\ \A q \in Procs : q # p => rdMatcher'[q] = rdMatcher[q]
      /\ \A d \in Clients : d # c => rdSubs'[d] = rdSubs[d]
  BY <1>2, <1>3 DEF RedisSessionTyped
<1>7. \A d \in Clients : d # c => Unmoved(d)
  <2>1. \A d \in Clients : \A F : d # c /\ Indexed(d, F) \subseteq rdMatcher[p] => Indexed(d, F) \subseteq rdMatcher'[p]
    BY <1>6 DEF Indexed
  <2> QED  BY <1>2, <1>4, <1>5, <1>6, <2>1 DEF Unmoved
<1>8. c \in torn \/ asked[c] = {}
  BY <1>2, <1>4 DEF RedisCovers, Kept, Harmless
<1>9. Kept(c)'
  BY <1>2, <1>8 DEF Kept
<1> QED  BY <1>7, <1>9, UnmovedKept DEF RedisCovers

LEMMA RestartKeeps ==
    ASSUME CallsTyped, RedisSessionTyped, RedisCovers, NEW p \in Procs, RedisRestart(p)
    PROVE  RedisCovers'
<1> DEFINE N == Cardinality(Clients)
           L(s) == [i \in 1 .. N |-> [op |-> "load", client |-> s[i], subs |-> rdSubs[s[i]], current |-> {}]]
<1>0. N \in Nat
  BY StoreAssumption, FS_CardinalityType
<1> HIDE DEF N
<1>1. PICK order \in [1 .. N -> Clients] :
        /\ \A c \in Clients : \E i \in 1 .. N : order[i] = c
        /\ rdMatcher' = [rdMatcher EXCEPT ![p] = {}]
        /\ rdAnswers' = [rdAnswers EXCEPT ![p] = L(order)]
        /\ rdChannel' = [rdChannel EXCEPT ![p] = <<>>]
        /\ torn' = torn \cup {c \in Clients : About(c, rdAnswers[p])}
        /\ UNCHANGED <<rdSubs, asked>>
  BY DEF RedisRestart, Stops, N
<1>2. /\ rdMatcher'[p] = {} /\ rdAnswers'[p] = L(order) /\ rdChannel'[p] = <<>>
      /\ \A q \in Procs : q # p => /\ rdMatcher'[q] = rdMatcher[q] /\ rdAnswers'[q] = rdAnswers[q]
                                   /\ rdChannel'[q] = rdChannel[q]
  BY <1>1 DEF RedisSessionTyped
<1>3. Len(L(order)) = N /\ \A i \in 1 .. N : L(order)[i] = [op |-> "load", client |-> order[i], subs |-> rdSubs[order[i]], current |-> {}]
  BY <1>0
<1> HIDE DEF L
<1>4. /\ \A a \in Items(rdAnswers'[p]) : a.op = "load"
      /\ \A c \in Clients : \E a \in Items(rdAnswers'[p]) : a.op = "load" /\ a.client = c /\ a.subs = rdSubs[c]
  <2>1. \A x : x \in Items(L(order)) <=> \E i \in 1 .. N : x = L(order)[i]
    BY <1>3 DEF Items
  <2>2. \A a \in Items(L(order)) : a.op = "load"
    BY <1>3, <2>1
  <2>3. ASSUME NEW c \in Clients PROVE \E a \in Items(L(order)) : a.op = "load" /\ a.client = c /\ a.subs = rdSubs[c]
    <3>1. PICK i \in 1 .. N : order[i] = c
      BY <1>1
    <3>2. L(order)[i] \in Items(L(order))
      BY <2>1
    <3>3. L(order)[i].op = "load" /\ L(order)[i].client = c /\ L(order)[i].subs = rdSubs[c]
      BY <1>3, <3>1
    <3> QED  BY <3>2, <3>3
  <2> QED  BY <1>2, <2>2, <2>3
<1>5. Items(rdChannel'[p]) = {}
  BY <1>2 DEF Items
<1>6. ASSUME NEW c \in Clients, c \notin torn', asked[c] # {}
      PROVE  /\ \A q \in Procs : Harmless(c, q)'
             /\ ~Saving(c)' => asked[c] \subseteq rdSubs[c] /\ \A q \in Procs : Reaches(c, q)'
  <2>1. c \notin torn /\ AnswersAbout(c, p) = {}
    BY <1>1, <1>6, AboutItems
  <2>2. \A q \in Procs : q # p => AnswersAbout(c, q)' = AnswersAbout(c, q) /\ MessagesAbout(c, q)' = MessagesAbout(c, q)
    BY <1>2 DEF AnswersAbout, MessagesAbout
  <2>3. /\ \A a \in AnswersAbout(c, p)' : a.op = "load"
        /\ \E a \in AnswersAbout(c, p)' : a.op = "load" /\ a.subs = rdSubs[c]
        /\ MessagesAbout(c, p)' = {}
    BY <1>4, <1>5 DEF AnswersAbout, MessagesAbout
  <2>4. Saving(c) => Saving(c)'
    BY <2>1, <2>2 DEF Saving
  <2>5. \A q \in Procs : Harmless(c, q)'
    <3>1. \A q \in Procs : Harmless(c, q)
      BY <1>6, <2>1 DEF RedisCovers, Kept
    <3>2. Harmless(c, p)'
      BY <2>3 DEF Harmless
    <3>3. \A q \in Procs : q # p => Harmless(c, q)'
      BY <1>1, <2>2, <3>1 DEF Harmless
    <3> QED  BY <3>2, <3>3
  <2>6. ASSUME ~Saving(c)' PROVE asked[c] \subseteq rdSubs[c] /\ \A q \in Procs : Reaches(c, q)'
    <3>1. asked[c] \subseteq rdSubs[c] /\ \A q \in Procs : Reaches(c, q)
      BY <1>6, <2>1, <2>4, <2>6 DEF RedisCovers, Kept
    <3>2. Reaches(c, p)'
      BY <1>1, <2>3, <3>1 DEF Reaches
    <3>3. \A q \in Procs : q # p => Reaches(c, q)'
      BY <1>1, <1>2, <2>2, <3>1 DEF Reaches
    <3> QED  BY <3>1, <3>2, <3>3
  <2> QED  BY <2>5, <2>6
<1> QED  BY <1>1, <1>6 DEF RedisCovers, Kept

\* A session that is owed a packet has it among those to be stored.
RedisServes == \A x \in owed : \E y \in rdParts : y.client = x.client /\ y.pub = x.pub

\* A settled session is in the matcher of every broker that has loaded it.
LEMMA SettledReached ==
    ASSUME RedisCovers, NEW c \in Clients, RedisSettled(c), NEW p \in Procs
    PROVE  Indexed(c, asked[c]) \subseteq rdMatcher[p]
<1>1. \A q \in Procs : AnswersAbout(c, q) = {} /\ MessagesAbout(c, q) = {}
  BY AboutItems DEF RedisSettled, NothingFor
<1>2. ~Saving(c)
  BY <1>1 DEF Saving
<1>3. CASE asked[c] = {}
  BY <1>3, IndexedFacts
<1>4. CASE asked[c] # {}
  BY <1>1, <1>2, <1>4 DEF RedisCovers, Kept, Reaches, RedisSettled
<1> QED  BY <1>3, <1>4

LEMMA RedisPublishServes ==
    ASSUME RedisCovers, RedisServes, NEW p \in Procs, NEW t \in Topics, RedisPublish(p, t)
    PROVE  RedisServes'
<1>1. /\ rdParts' = rdParts \cup {[proc |-> p, client |-> k[2], pub |-> pubs + 1] : k \in Match(t, rdMatcher[p])}
      /\ owed' = owed \cup {x \in [client: {c \in Clients : RedisSettled(c)}, pub: {pubs + 1}, sub: Filters, topic: {t}] :
                             x.sub \in asked[x.client] /\ <<t, x.sub>> \in Matches}
  BY DEF RedisPublish, Owes
<1>2. ASSUME NEW x \in owed' PROVE \E y \in rdParts' : y.client = x.client /\ y.pub = x.pub
  <2>1. CASE x \in owed
    BY <1>1, <2>1 DEF RedisServes
  <2>2. CASE x \notin owed
    <3>1. /\ x.client \in Clients /\ RedisSettled(x.client) /\ x.pub = pubs + 1
          /\ x.sub \in asked[x.client] /\ <<t, x.sub>> \in Matches
      BY <1>1, <2>2
    <3> DEFINE k == <<x.sub, x.client>>
    <3>2. k \in rdMatcher[p]
      BY <3>1, SettledReached, IndexedFacts
    <3>3. k \in Match(t, rdMatcher[p]) /\ k[2] = x.client
      BY <3>1, <3>2 DEF Match
    <3> HIDE DEF k
    <3>4. [proc |-> p, client |-> k[2], pub |-> pubs + 1] \in rdParts'
      BY <1>1, <3>3
    <3> QED  BY <3>1, <3>3, <3>4
  <2> QED  BY <2>1, <2>2
<1> QED  BY <1>2 DEF RedisServes

LEMMA RedisIndexKept ==
    ASSUME CallsTyped, RedisSessionTyped, RedisCovers, RedisServes, RedisNext
    PROVE  RedisCovers' /\ RedisServes'
<1> DEFINE Goal == RedisCovers' /\ RedisServes'
<1> SUFFICES Goal
  OBVIOUS
<1>1. ASSUME UNCHANGED <<rdSession, sessions>> PROVE RedisCovers'
  BY <1>1 DEF RedisCovers, Kept, Harmless, Saving, Reaches, AnswersAbout, MessagesAbout, Items, rdSession, sessions
<1>2. ASSUME owed' \subseteq owed, rdParts \subseteq rdParts' PROVE RedisServes'
  BY <1>2 DEF RedisServes
<1>3. ASSUME NEW p \in Procs, RedisSessionStep(p) PROVE Goal
  <2>1. UNCHANGED <<owed, rdParts>>
    BY <1>3 DEF RedisSessionStep, RedisStored, RedisMessage, RedisLoaded, RedisClean, RedisStoreSubscriptions, Saves, calls
  <2>2. RedisCovers'
    BY <1>3, StoreKeeps, DropKeeps, StoredKeeps, HeardKeeps, LoadedKeeps DEF RedisSessionStep
  <2> QED  BY <1>2, <2>1, <2>2
<1>4. ASSUME NEW c \in Clients, RedisLapse(c) PROVE Goal
  BY <1>2, <1>4, DropKeeps DEF RedisLapse
<1>5. ASSUME NEW p \in Procs, RedisCleaned(p) PROVE Goal
  <2>1. UNCHANGED <<owed, rdParts>>
    BY <1>5 DEF RedisCleaned
  <2> QED  BY <1>2, <1>5, <2>1, CleanedKeeps
<1>6. ASSUME NEW p \in Procs, RedisRestart(p) PROVE Goal
  <2>1. owed' = {}
    BY <1>6 DEF RedisRestart, Stops
  <2> QED  BY <1>6, <2>1, RestartKeeps DEF RedisServes
<1>7. ASSUME NEW p \in Procs, NEW t \in Topics, RedisPublish(p, t) PROVE Goal
  BY <1>1, <1>7, RedisPublishServes DEF RedisPublish, Owes
<1>8. ASSUME NEW x \in rdParts, RedisStorePacket(x) PROVE Goal
  <2>1. /\ rdParts' = rdParts \ {x} /\ owed' = {y \in owed : y.client # x.client \/ y.pub # x.pub}
        /\ UNCHANGED <<rdSession, sessions>>
    BY <1>8 DEF RedisStorePacket, Gives
  <2>2. RedisServes'
    BY <2>1 DEF RedisServes
  <2> QED  BY <1>1, <2>1, <2>2
<1>9. ASSUME NEW x, RedisSweep(x) PROVE Goal
  BY <1>1, <1>2, <1>9 DEF RedisSweep, calls
<1>10. ASSUME NEW c, NEW i, NEW j, RedisStream(c, i) \/ RedisExpire(c, i) \/ RedisDelete(c, i) \/ RedisUpdate(c, i, j)
       PROVE  Goal
  BY <1>1, <1>2, <1>10 DEF RedisStream, RedisExpire, RedisDelete, RedisUpdate, Releases, calls
<1> HIDE DEF Goal
<1> QED
  BY <1>3, <1>4, <1>5, <1>6, <1>7, <1>8, <1>9, <1>10 DEF RedisNext, RedisSessionStep

-----------------------------------------------------------------------------
(* All of them *)

\* What holds of the persistence that the broker is configured with.
IndexInv ==
    /\ backend = "level" => LevelCovers /\ LevelServes
    /\ backend = "redis" => RedisCovers /\ RedisServes /\ ListSound /\ PartsSound
    /\ backend = "mongo" => MongoCovers /\ MongoServes

LEMMA IndexStarts == Init => IndexInv
<1> SUFFICES ASSUME Init PROVE IndexInv
  OBVIOUS
<1>1. owed = {} /\ pubs = 0 /\ (\A c \in Clients : asked[c] = {}) /\ lvStreams = {} /\ mgWipes = {} /\ rdParts = {} /\ rdSweeps = {}
  BY DEF Init, InitCalls, LevelInit, RedisInit, MongoInit
<1>2. \A c \in Clients : Indexed(c, asked[c]) = {}
  BY <1>1, IndexedFacts
<1>3. \A c : ~LevelWiping(c) /\ ~MongoWiping(c)
  BY <1>1 DEF LevelWiping, MongoWiping
<1>4. \A c \in Clients, i \in Ids : ~Holds(c, i) /\ ~Listed(c, i)
  BY DEF Init, RedisInit, Holds, Listed
<1>5. ListSound /\ PartsSound
  BY <1>1, <1>4, NumbersTyped DEF ListSound, PartsSound
<1> QED
  BY <1>1, <1>2, <1>3, <1>5 DEF IndexInv, LevelCovers, LevelServes, RedisCovers, Kept, RedisServes, MongoCovers, MongoServes

LEMMA IndexSteps ==
    ASSUME IInv, IndexInv, [Next]_vars PROVE IndexInv'
<1>0. CallsTyped /\ LevelTyped /\ RedisSessionTyped /\ RedisPacketsTyped /\ MongoTyped
  BY TypesSplit DEF IInv
<1>1. CASE backend = "level" /\ LevelNext /\ UNCHANGED <<backend, rdVars, mgVars>>
  BY <1>0, <1>1, LevelIndexKept DEF IndexInv
<1>2. CASE backend = "redis" /\ RedisNext /\ UNCHANGED <<backend, lvVars, mgVars>>
  BY <1>0, <1>2, RedisIndexKept, ListKept DEF IndexInv
<1>3. CASE backend = "mongo" /\ MongoNext /\ UNCHANGED <<backend, lvVars, rdVars>>
  BY <1>0, <1>3, MongoIndexKept DEF IndexInv
<1>4. CASE UNCHANGED vars
  <2>1. UNCHANGED <<backend, pubs, owed, asked, torn, lvVars, rdVars, mgVars>>
    BY <1>4 DEF vars, calls, sessions
  <2>2. (LevelCovers <=> LevelCovers') /\ (LevelServes <=> LevelServes')
    BY <2>1 DEF LevelCovers, LevelServes, LevelWiping, lvVars, lvSession
  <2>3. (RedisCovers <=> RedisCovers') /\ (RedisServes <=> RedisServes')
    BY <2>1 DEF RedisCovers, RedisServes, Kept, Harmless, Saving, Reaches, AnswersAbout, MessagesAbout, Items, rdVars, rdSession
  <2>4. (ListSound <=> ListSound') /\ (PartsSound <=> PartsSound')
    BY <2>1 DEF ListSound, PartsSound, Holds, Listed, rdVars, rdPackets
  <2>5. (MongoCovers <=> MongoCovers') /\ (MongoServes <=> MongoServes')
    BY <2>1 DEF MongoCovers, MongoServes, MongoWiping, mgVars
  <2> QED  BY <2>1, <2>2, <2>3, <2>4, <2>5 DEF IndexInv
<1> QED  BY <1>1, <1>2, <1>3, <1>4 DEF Next

LEMMA BackendNamed == ASSUME IInv PROVE backend \in {"level", "redis", "mongo"}
  BY StoresAssumption DEF IInv, TypeOK

LEMMA CoversFollows == ASSUME IInv, IndexInv PROVE IndexCovers
<1> SUFFICES ASSUME NEW c \in Clients, Settled(c), NEW I \in Indexes PROVE Indexed(c, asked[c]) \subseteq I
  BY DEF IndexCovers
<1>1. CASE backend = "level"
  <2>1. LevelSettled(c) /\ I = lvMatcher \cap lvKeys
    BY <1>1 DEF Settled, Indexes
  <2> QED  BY <1>1, <2>1, IndexedFacts DEF IndexInv, LevelCovers, LevelSettled
<1>2. CASE backend = "redis"
  <2>1. RedisSettled(c) /\ \E p \in Procs : I = rdMatcher[p]
    BY <1>2 DEF Settled, Indexes
  <2> QED  BY <1>2, <2>1, SettledReached DEF IndexInv
<1>3. CASE backend = "mongo"
  <2>1. MongoSettled(c) /\ I = mgSubs
    BY <1>3 DEF Settled, Indexes
  <2> QED  BY <1>3, <2>1, IndexedFacts DEF IndexInv, MongoCovers, MongoSettled
<1> QED  BY <1>1, <1>2, <1>3, BackendNamed

LEMMA ServedFollows == ASSUME IInv, IndexInv PROVE FoundAreServed
<1>1. CASE backend = "level"
  BY <1>1 DEF IndexInv, LevelServes, FoundAreServed, Pending
<1>2. CASE backend = "redis"
  BY <1>2 DEF IndexInv, RedisServes, FoundAreServed, Pending
<1>3. CASE backend = "mongo"
  BY <1>3 DEF IndexInv, MongoServes, FoundAreServed, Pending
<1> QED  BY <1>1, <1>2, <1>3, BackendNamed

LEMMA IndexInductive ==
    /\ Init => IInv /\ IndexInv
    /\ IInv /\ IndexInv /\ [Next]_vars => IInv' /\ IndexInv'
  BY Starts, Steps, IndexStarts, IndexSteps

\* Once the storing of its subscriptions has come to rest, a client has them in
\* the index of every broker.
THEOREM SettledAreIndexed == Spec => []IndexCovers
<1>1. IInv /\ IndexInv => IndexCovers
  BY CoversFollows
<1> QED  BY <1>1, IndexInductive, PTL DEF Spec

\* A publication is stored, or is still to be stored, for every settled session
\* that the persistence can find for its topic.
THEOREM SettledAreServed == Spec => []FoundAreServed
<1>1. IInv /\ IndexInv => FoundAreServed
  BY ServedFollows
<1> QED  BY <1>1, IndexInductive, PTL DEF Spec

\* In Redis, what a session holds is in its list, also where a packet took the
\* id of another; but for what a clean session left behind, and a key that was
\* given again while a sweep takes it from the list.
THEOREM HeldIsListed == Spec => []StoredIsListed
<1>1. IndexInv => StoredIsListed
  BY DEF IndexInv, StoredIsListed, ListSound
<1> QED  BY <1>1, IndexInductive, PTL DEF Spec
=============================================================================
