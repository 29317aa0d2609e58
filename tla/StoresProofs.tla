----------------------------- MODULE StoresProofs -----------------------------
(***************************************************************************)
(* Proofs about Stores, for any clients, topics, filters and brokers: that *)
(* each persistence implements OfflineQueue.                               *)
(***************************************************************************)
EXTENDS Stores, FiniteSetTheorems, TLAPS

-----------------------------------------------------------------------------
(* Types of what the persistences have in common *)

Owed == [client: Clients, pub: Pubs, sub: Filters, topic: Topics]

CallsTyped ==
    /\ pubs \in 0 .. MaxPubs
    /\ turns \in 0 .. MaxTurns
    /\ due \in SUBSET (Clients \X Pubs)
    /\ owed \in SUBSET Owed
    /\ asked \in [Clients -> SUBSET Filters]
    /\ torn \in SUBSET Clients
LevelTyped ==
    /\ lvSubs \in [Clients -> SUBSET Filters] /\ lvLapsed \in SUBSET Clients
    /\ lvKeys \in SUBSET Index /\ lvMatcher \in SUBSET Index /\ lvWrites \in SUBSET Index
    /\ lvPackets \in SUBSET Copies /\ lvParts \in SUBSET Parts
    /\ lvStreams \in SUBSET Streams
RedisSessionTyped ==
    /\ rdSubs \in [Clients -> SUBSET Filters]
    /\ rdMatcher \in [Procs -> SUBSET Index]
    /\ rdAnswers \in [Procs -> Seq(Answers)] /\ rdChannel \in [Procs -> Seq(Messages)]
RedisPacketsTyped ==
    /\ rdKeys \in [Clients -> [Ids -> 0 .. MaxPubs]]
    /\ rdList \in [Clients -> [Ids -> Nat]]
    /\ rdParts \in SUBSET Pipelines
    /\ rdSweeps \in SUBSET (Clients \X Ids) /\ rdLoose \in SUBSET (Clients \X Ids)
MongoTyped ==
    /\ mgSubs \in SUBSET Index /\ mgWrites \in SUBSET Index
    /\ mgPackets \in SUBSET Copies /\ mgParts \in SUBSET Parts
    /\ mgWipes \in SUBSET (Clients \X {"subscriptions", "packets"})

LEMMA TypesSplit ==
    /\ TypeOK <=> /\ backend \in Backends /\ CallsTyped /\ LevelTyped
                  /\ RedisSessionTyped /\ RedisPacketsTyped /\ MongoTyped
    /\ TypeOK' <=> /\ backend' \in Backends /\ CallsTyped' /\ LevelTyped'
                   /\ RedisSessionTyped' /\ RedisPacketsTyped' /\ MongoTyped'
  BY DEF TypeOK, CallsTyped, LevelTyped, RedisSessionTyped, RedisPacketsTyped, MongoTyped, Owed

LEMMA NumbersTyped ==
    /\ MaxPubs \in Nat /\ MaxId \in Nat /\ MaxTurns \in Nat
    /\ \A p \in Pubs : Uid(p) \in Ids /\ Uid(p) \notin MessageIds
    /\ MessageIds \subseteq Ids
    /\ 0 \notin Pubs /\ Pubs \subseteq 0 .. MaxPubs
    /\ \A p \in Pubs, q \in Pubs : Uid(p) = Uid(q) => p = q
  BY StoreAssumption DEF Pubs, Ids, Uid, MessageIds

LEMMA NamedTyped ==
    \A S : (\A x \in S : x.client \in Clients /\ x.pub \in Pubs) => Named(S) \subseteq Clients \X Pubs
  BY DEF Named

\* What is named when the same publication is stored for several clients.
LEMMA NamedSame ==
    ASSUME NEW P, NEW C, NEW n, \A x \in P : x.client \in C /\ x.pub = n, \A c \in C : \E x \in P : x.client = c
    PROVE  Named(P) = C \X {n}
  BY DEF Named

LEMMA IndexedTyped ==
    \A c \in Clients, F \in SUBSET Filters : Indexed(c, F) \subseteq Index
  BY DEF Indexed, Index

LEMMA MatchTyped ==
    \A t, I : Match(t, I) \subseteq I
  BY DEF Match

LEMMA TurnTyped ==
    ASSUME CallsTyped, Turn PROVE turns' \in 0 .. MaxTurns
  BY NumbersTyped DEF CallsTyped, Turn

LEMMA OwesTyped ==
    ASSUME CallsTyped, NEW t \in Topics, NEW C \in SUBSET Clients, Owes(t, C)
    PROVE  CallsTyped' /\ pubs' = pubs + 1 /\ pubs + 1 \in Pubs
<1>1. pubs' = pubs + 1 /\ pubs + 1 \in Pubs /\ pubs' \in 0 .. MaxPubs
  BY NumbersTyped DEF Owes, CallsTyped, Pubs
<1>2. owed' \in SUBSET Owed
  BY <1>1 DEF Owes, CallsTyped, Owed
<1> QED  BY <1>1, <1>2, TurnTyped DEF Owes, CallsTyped, sessions

LEMMA GivesTyped ==
    ASSUME CallsTyped, NEW c, NEW p, Gives(c, p)
    PROVE  CallsTyped'
  BY DEF CallsTyped, Gives, sessions

LEMMA ReleasesTyped ==
    ASSUME CallsTyped, NEW R, Named(R) \subseteq Clients \X Pubs, Releases(R)
    PROVE  CallsTyped'
  BY TurnTyped DEF CallsTyped, Releases, sessions

LEMMA SavesTyped ==
    ASSUME CallsTyped, NEW c \in Clients, NEW F \in SUBSET Filters, NEW o, Saves(c, F, o)
    PROVE  CallsTyped'
  BY TurnTyped DEF CallsTyped, Saves

LEMMA DropsTyped ==
    ASSUME CallsTyped, NEW c \in Clients, NEW F, Drops(c, F),
           due' \in SUBSET (Clients \X Pubs), owed' \subseteq owed
    PROVE  CallsTyped'
  BY TurnTyped DEF CallsTyped, Drops

LEMMA StopsTyped ==
    ASSUME CallsTyped, NEW C \in SUBSET Clients, Stops(C)
    PROVE  CallsTyped'
  BY TurnTyped DEF CallsTyped, Stops

-----------------------------------------------------------------------------
(* Types of the LevelUp persistence *)

LEMMA StartStreamTyped ==
    ASSUME LevelTyped, NEW op \in {"update", "delete"}, NEW i \in MessageIds \cup {0},
           NEW R \in SUBSET Copies, NEW K \in SUBSET Index, StartStream(op, i, R, K)
    PROVE  lvStreams' \in SUBSET Streams
  BY DEF LevelTyped, StartStream, Streams

LEMMA LevelNamed == \A S \in SUBSET Copies : Named(S) \subseteq Clients \X Pubs
  BY NamedTyped DEF Copies

\* A copy with another id is a copy.
LEMMA CopyTyped ==
    ASSUME NEW x \in Copies, NEW i \in Ids
    PROVE  /\ [x EXCEPT !.id = i] \in Copies
           /\ [x EXCEPT !.id = i].client = x.client /\ [x EXCEPT !.id = i].pub = x.pub
           /\ [x EXCEPT !.id = i].id = i
  BY DEF Copies

LEMMA LevelSessionKept ==
    ASSUME CallsTyped, LevelTyped, NEW c \in Clients,
           \/ LevelLapse(c) \/ LevelLookup(c) \/ LevelClean(c)
           \/ \E F \in SUBSET Filters : LevelStoreSubscriptions(c, F)
    PROVE  CallsTyped' /\ LevelTyped'
<1>1. CASE LevelLapse(c)
  BY <1>1, TurnTyped DEF LevelLapse, CallsTyped, LevelTyped
<1>2. CASE LevelLookup(c)
  BY <1>2 DEF LevelLookup, CallsTyped, LevelTyped, calls, sessions
<1>3. CASE LevelClean(c)
  <2> DEFINE K == Indexed(c, lvSubs[c])
  <2>1. K \in SUBSET Index /\ Of(c, lvPackets) \in SUBSET Copies
    BY IndexedTyped DEF LevelTyped, Of
  <2>2. lvStreams' \in SUBSET Streams
    BY <1>3, <2>1, StartStreamTyped DEF LevelClean
  <2>3. due' \in SUBSET (Clients \X Pubs) /\ owed' \subseteq owed /\ Drops(c, Filters)
    BY <1>3, <2>1, LevelNamed DEF LevelClean, CallsTyped
  <2>4. CallsTyped'
    BY <2>3, DropsTyped
  <2> QED  BY <1>3, <2>2, <2>4 DEF LevelClean, LevelTyped
<1>4. ASSUME NEW F \in SUBSET Filters, LevelStoreSubscriptions(c, F) PROVE CallsTyped' /\ LevelTyped'
  <2>1. CallsTyped'
    BY <1>4, SavesTyped DEF LevelStoreSubscriptions
  <2>2. Indexed(c, F) \in SUBSET Index
    BY IndexedTyped
  <2> QED  BY <1>4, <2>1, <2>2 DEF LevelStoreSubscriptions, LevelTyped
<1> QED  BY <1>1, <1>2, <1>3, <1>4

LEMMA LevelCallsKept ==
    ASSUME CallsTyped, LevelTyped, NEW c \in Clients,
           \/ \E i \in StoredIds(pubs), new \in MessageIds : LevelUpdate(c, i, new)
           \/ \E i \in MessageIds : LevelDelete(c, i)
           \/ \E R \in SUBSET Of(c, lvPackets) : LevelStream(c, R)
    PROVE  CallsTyped' /\ LevelTyped'
<1>1. /\ \A i : Under(c, i, lvPackets) \in SUBSET Copies
      /\ \A R \in SUBSET Of(c, lvPackets) : R \in SUBSET Copies
      /\ {} \in SUBSET Copies /\ {} \in SUBSET Index
  BY DEF LevelTyped, Under, Of
<1>2. ASSUME NEW i, NEW new \in MessageIds, LevelUpdate(c, i, new) PROVE CallsTyped' /\ LevelTyped'
  <2>1. CallsTyped'
    BY <1>1, <1>2, ReleasesTyped, LevelNamed DEF LevelUpdate
  <2>2. lvStreams' \in SUBSET Streams
    BY <1>1, <1>2, StartStreamTyped DEF LevelUpdate
  <2> QED  BY <1>2, <2>1, <2>2 DEF LevelUpdate, lvSession, LevelTyped
<1>3. ASSUME NEW i, LevelDelete(c, i) PROVE CallsTyped' /\ LevelTyped'
  <2>1. CallsTyped'
    BY <1>1, <1>3, ReleasesTyped, LevelNamed DEF LevelDelete
  <2>2. lvStreams' \in SUBSET Streams
    BY <1>1, <1>3, StartStreamTyped DEF LevelDelete
  <2> QED  BY <1>3, <2>1, <2>2 DEF LevelDelete, lvSession, LevelTyped
<1>4. ASSUME NEW R \in SUBSET Of(c, lvPackets), LevelStream(c, R) PROVE CallsTyped' /\ LevelTyped'
  <2>1. CallsTyped'
    BY <1>1, <1>4, ReleasesTyped, LevelNamed DEF LevelStream
  <2>2. lvStreams' \in SUBSET Streams
    BY <1>1, <1>4, StartStreamTyped DEF LevelStream
  <2> QED  BY <1>4, <2>1, <2>2 DEF LevelStream, lvSession, LevelTyped
<1> QED  BY <1>2, <1>3, <1>4

\* What the matches of a topic are to be stored as.
LEMMA PartsTyped ==
    ASSUME NEW I \in SUBSET Index, NEW p \in Pubs
    PROVE  {[client |-> k[2], pub |-> p, sub |-> k[1]] : k \in I} \subseteq Parts
  BY DEF Index, Parts

LEMMA CopyOfPart ==
    \A x \in Parts : [client |-> x.client, pub |-> x.pub, sub |-> x.sub, id |-> Uid(x.pub)] \in Copies
  BY NumbersTyped DEF Parts, Copies

LEMMA LevelAppliedTyped ==
    ASSUME LevelTyped, NEW s \in lvStreams, NEW x \in s.read, LevelApply(s, x),
           s.op = "update" => s.id \in MessageIds
    PROVE  LevelTyped'
<1>1. s \in Streams /\ s.read \subseteq Copies /\ x \in Copies
  BY DEF LevelTyped, Streams
<1>2. [s EXCEPT !.read = @ \ {x}] \in Streams
  BY <1>1 DEF Streams
<1>3. lvStreams' \in SUBSET Streams
  BY <1>2 DEF LevelApply, LevelTyped
<1>4. s.op = "update" => [x EXCEPT !.id = s.id] \in Copies
  BY <1>1, CopyTyped, NumbersTyped
<1>5. lvPackets' \in SUBSET Copies
  BY <1>4 DEF LevelApply, LevelTyped, Put, Del
<1> QED  BY <1>3, <1>5 DEF LevelApply, LevelTyped, lvSession

LEMMA LevelTypesKept ==
    ASSUME CallsTyped, LevelTyped, LevelNext, \A s \in lvStreams : s.op = "update" => s.id \in MessageIds
    PROVE  CallsTyped' /\ LevelTyped'
<1>1. CASE LevelRestart
  <2>1. {k[2] : k \in lvWrites} \in SUBSET Clients
    BY DEF LevelTyped, Index
  <2>2. CallsTyped'
    BY <1>1, <2>1, StopsTyped DEF LevelRestart
  <2> QED  BY <1>1, <2>2 DEF LevelRestart, LevelTyped, RestoredMatcher
<1>2. ASSUME NEW k \in lvWrites, LevelWrite(k) PROVE CallsTyped' /\ LevelTyped'
  BY <1>2 DEF LevelWrite, CallsTyped, LevelTyped, calls, sessions
<1>3. ASSUME NEW t \in Topics, LevelPublish(t) PROVE CallsTyped' /\ LevelTyped'
  <2>1. CallsTyped' /\ pubs + 1 \in Pubs
    BY <1>3, OwesTyped DEF LevelPublish
  <2>2. Match(t, lvMatcher) \in SUBSET Index
    BY MatchTyped DEF LevelTyped
  <2>3. lvParts' \in SUBSET Parts
    BY <1>3, <2>1, <2>2, PartsTyped DEF LevelPublish, LevelTyped
  <2> QED  BY <1>3, <2>1, <2>3 DEF LevelPublish, LevelTyped, lvSession
<1>4. ASSUME NEW x \in lvParts, LevelStorePacket(x) PROVE CallsTyped' /\ LevelTyped'
  <2>1. CallsTyped'
    BY <1>4, GivesTyped DEF LevelStorePacket
  <2>2. lvPackets' \in SUBSET Copies
    BY <1>4, CopyOfPart DEF LevelStorePacket, LevelTyped
  <2> QED  BY <1>4, <2>1, <2>2 DEF LevelStorePacket, LevelTyped, lvSession
<1>5. ASSUME NEW x \in lvParts, LevelStoreFails(x) PROVE CallsTyped' /\ LevelTyped'
  BY <1>5 DEF LevelStoreFails, CallsTyped, LevelTyped, calls, sessions, lvSession
<1>6. ASSUME NEW s \in lvStreams, LevelCleaned(s) PROVE CallsTyped' /\ LevelTyped'
  BY <1>6 DEF LevelCleaned, CallsTyped, LevelTyped, calls, sessions
<1>7. ASSUME NEW s \in lvStreams, NEW x \in s.read, LevelApply(s, x) PROVE CallsTyped' /\ LevelTyped'
  <2>1. CallsTyped'
    BY <1>7 DEF LevelApply, CallsTyped, calls, sessions
  <2> QED  BY <1>7, <2>1, LevelAppliedTyped
<1> QED  BY <1>1, <1>2, <1>3, <1>4, <1>5, <1>6, <1>7, LevelSessionKept, LevelCallsKept DEF LevelNext

-----------------------------------------------------------------------------
(* Types of the Mongo persistence *)

LEMMA MongoTypesKept ==
    ASSUME CallsTyped, MongoTyped, MongoNext
    PROVE  CallsTyped' /\ MongoTyped'
<1>0. /\ \A c, i : Under(c, i, mgPackets) \in SUBSET Copies
      /\ \A c : Of(c, mgPackets) \in SUBSET Copies
      /\ {} \in SUBSET Copies
  BY DEF MongoTyped, Under, Of
<1>1. CASE MongoRestart
  <2>1. {k[2] : k \in mgWrites} \in SUBSET Clients
    BY DEF MongoTyped, Index
  <2>2. CallsTyped'
    BY <1>1, <2>1, StopsTyped DEF MongoRestart
  <2> QED  BY <1>1, <2>2 DEF MongoRestart, MongoTyped
<1>2. ASSUME NEW c \in Clients, MongoClean(c) PROVE CallsTyped' /\ MongoTyped'
  <2>1. CallsTyped'
    BY <1>2, DropsTyped DEF MongoClean, CallsTyped
  <2> QED  BY <1>2, <2>1 DEF MongoClean, MongoTyped
<1>3. ASSUME NEW c \in Clients, MongoRemoveSubscriptions(c) PROVE CallsTyped' /\ MongoTyped'
  BY <1>3 DEF MongoRemoveSubscriptions, CallsTyped, MongoTyped, calls, sessions
<1>4. ASSUME NEW c \in Clients, MongoRemovePackets(c) PROVE CallsTyped' /\ MongoTyped'
  <2>1. due' \in SUBSET (Clients \X Pubs)
    BY <1>0, <1>4, LevelNamed DEF MongoRemovePackets, CallsTyped
  <2> QED  BY <1>4, <2>1 DEF MongoRemovePackets, CallsTyped, MongoTyped, sessions
<1>5. ASSUME NEW c \in Clients, NEW F \in SUBSET Filters, MongoStoreSubscriptions(c, F)
      PROVE  CallsTyped' /\ MongoTyped'
  <2>1. CallsTyped'
    BY <1>5, SavesTyped DEF MongoStoreSubscriptions
  <2>2. Indexed(c, F) \in SUBSET Index
    BY IndexedTyped
  <2> QED  BY <1>5, <2>1, <2>2 DEF MongoStoreSubscriptions, MongoTyped
<1>6. ASSUME NEW c \in Clients, NEW i, NEW new \in MessageIds, MongoUpdate(c, i, new)
      PROVE  CallsTyped' /\ MongoTyped'
  <2>1. CallsTyped'
    BY <1>0, <1>6, ReleasesTyped, LevelNamed DEF MongoUpdate
  <2>2. PICK x \in Under(c, i, mgPackets) : mgPackets' = (mgPackets \ {x}) \cup {[x EXCEPT !.id = new]}
    BY <1>6 DEF MongoUpdate
  <2>3. mgPackets' \in SUBSET Copies
    BY <1>0, <2>2, CopyTyped, NumbersTyped DEF MongoTyped
  <2> QED  BY <1>6, <2>1, <2>3 DEF MongoUpdate, MongoTyped
<1>7. ASSUME NEW c \in Clients, NEW i, MongoDelete(c, i) PROVE CallsTyped' /\ MongoTyped'
  <2>1. CallsTyped'
    BY <1>0, <1>7, ReleasesTyped, LevelNamed DEF MongoDelete
  <2> QED  BY <1>7, <2>1 DEF MongoDelete, MongoTyped
<1>8. ASSUME NEW k \in mgWrites, MongoWrite(k) PROVE CallsTyped' /\ MongoTyped'
  BY <1>8 DEF MongoWrite, CallsTyped, MongoTyped, calls, sessions
<1>9. ASSUME NEW k \in mgSubs, MongoLapse(k) PROVE CallsTyped' /\ MongoTyped'
  <2>1. k[2] \in Clients
    BY DEF MongoTyped, Index
  <2>2. CallsTyped'
    BY <1>9, <2>1, DropsTyped DEF MongoLapse, CallsTyped
  <2> QED  BY <1>9, <2>2 DEF MongoLapse, MongoTyped
<1>10. ASSUME NEW t \in Topics, MongoPublish(t) PROVE CallsTyped' /\ MongoTyped'
  <2>1. CallsTyped' /\ pubs + 1 \in Pubs
    BY <1>10, OwesTyped DEF MongoPublish
  <2>2. {j \in mgSubs : <<t, j[1]>> \in Patterns} \in SUBSET Index
    BY DEF MongoTyped
  <2>3. mgParts' \in SUBSET Parts
    BY <1>10, <2>1, <2>2, PartsTyped DEF MongoPublish, MongoTyped
  <2> QED  BY <1>10, <2>1, <2>3 DEF MongoPublish, MongoTyped
<1>11. ASSUME NEW x \in mgParts, MongoStorePacket(x) PROVE CallsTyped' /\ MongoTyped'
  <2>1. CallsTyped'
    BY <1>11, GivesTyped DEF MongoStorePacket
  <2>2. mgPackets' \in SUBSET Copies
    BY <1>11, CopyOfPart DEF MongoStorePacket, MongoTyped
  <2> QED  BY <1>11, <2>1, <2>2 DEF MongoStorePacket, MongoTyped
<1>12. ASSUME NEW x \in mgPackets, MongoExpire(x) PROVE CallsTyped' /\ MongoTyped'
  <2>1. CallsTyped'
    <3>1. {x} \in SUBSET Copies
      BY DEF MongoTyped
    <3> QED  BY <1>12, <3>1, ReleasesTyped, LevelNamed DEF MongoExpire
  <2> QED  BY <1>12, <2>1 DEF MongoExpire, MongoTyped
<1> QED
  BY <1>1, <1>2, <1>3, <1>4, <1>5, <1>6, <1>7, <1>8, <1>9, <1>10, <1>11, <1>12 DEF MongoNext

-----------------------------------------------------------------------------
(* Types of the Redis persistence *)

LEMMA ReadTyped ==
    ASSUME RedisSessionTyped, NEW p \in Procs
    PROVE  /\ rdAnswers[p] # <<>> => /\ Head(rdAnswers[p]) \in Answers
                                     /\ Tail(rdAnswers[p]) \in Seq(Answers)
           /\ rdChannel[p] # <<>> => /\ Head(rdChannel[p]) \in Messages
                                     /\ Tail(rdChannel[p]) \in Seq(Messages)
           /\ rdAnswers[p] \in Seq(Answers) /\ rdChannel[p] \in Seq(Messages)
  BY DEF RedisSessionTyped

LEMMA UpdateTyped ==
    ASSUME NEW M \in SUBSET Index, NEW c \in Clients, NEW F \in SUBSET Filters, NEW G
    PROVE  UpdateLocalSub(M, c, F, G) \in SUBSET Index
  BY IndexedTyped DEF UpdateLocalSub

LEMMA AsksTyped ==
    ASSUME RedisSessionTyped, NEW p \in Procs, NEW op \in {"save", "clean"}, NEW c \in Clients,
           NEW F \in SUBSET Filters, Asks(p, op, c, F)
    PROVE  rdAnswers' \in [Procs -> Seq(Answers)]
<1> DEFINE a == [op |-> op, client |-> c, subs |-> F, current |-> rdSubs[c]]
<1>1. a \in Answers
  BY DEF RedisSessionTyped, Answers
<1>2. rdAnswers' = [rdAnswers EXCEPT ![p] = Append(@, a)]
  BY DEF Asks
<1> HIDE DEF a
<1>3. Append(rdAnswers[p], a) \in Seq(Answers)
  BY <1>1, ReadTyped
<1> QED  BY <1>2, <1>3 DEF RedisSessionTyped

\* The calls that do something with subscriptions only.
RedisSessionStep(p) ==
    \/ RedisStored(p) \/ RedisMessage(p) \/ RedisLoaded(p)
    \/ \E c \in Clients : RedisClean(p, c)
    \/ \E c \in Clients, F \in SUBSET Filters : RedisStoreSubscriptions(p, c, F)

LEMMA RedisSessionKept ==
    ASSUME CallsTyped, RedisSessionTyped, NEW p \in Procs, RedisSessionStep(p)
    PROVE  CallsTyped' /\ RedisSessionTyped' /\ UNCHANGED <<rdPackets, rdParts>>
<1> DEFINE Goal == CallsTyped' /\ RedisSessionTyped' /\ UNCHANGED <<rdPackets, rdParts>>
<1> SUFFICES Goal
  OBVIOUS
<1>1. CASE RedisStored(p)
  <2> DEFINE a == Head(rdAnswers[p])
             unsubs == a.current \ a.subs
             m == [client |-> a.client, subs |-> a.subs, unsubs |-> unsubs]
  <2>1. /\ rdAnswers[p] # <<>>
        /\ rdAnswers' = [rdAnswers EXCEPT ![p] = Tail(@)]
        /\ rdMatcher' = [rdMatcher EXCEPT ![p] = UpdateLocalSub(@, a.client, a.subs, unsubs)]
        /\ rdSubs' = [rdSubs EXCEPT ![a.client] = a.subs]
        /\ rdChannel' = [q \in Procs |-> IF q = p THEN rdChannel[q] ELSE Append(rdChannel[q], m)]
        /\ UNCHANGED <<rdPackets, rdParts, calls>>
    BY <1>1 DEF RedisStored
  <2>2. a \in Answers /\ Tail(rdAnswers[p]) \in Seq(Answers)
    BY <2>1, ReadTyped
  <2>3. a.client \in Clients /\ a.subs \in SUBSET Filters /\ m \in Messages
    BY <2>2 DEF Answers, Messages
  <2> HIDE DEF a, m, unsubs
  <2>4. \A q \in Procs : Append(rdChannel[q], m) \in Seq(Messages)
    BY <2>3, ReadTyped
  <2>5. rdChannel' \in [Procs -> Seq(Messages)]
    BY <2>1, <2>4, ReadTyped
  <2>6. rdMatcher' \in [Procs -> SUBSET Index]
    BY <2>1, <2>3, UpdateTyped DEF RedisSessionTyped
  <2>7. CallsTyped'
    BY <2>1 DEF CallsTyped, calls, sessions
  <2> QED  BY <2>1, <2>2, <2>3, <2>5, <2>6, <2>7 DEF RedisSessionTyped
<1>2. CASE RedisMessage(p)
  <2> DEFINE m == Head(rdChannel[p])
  <2>1. /\ rdChannel[p] # <<>>
        /\ rdChannel' = [rdChannel EXCEPT ![p] = Tail(@)]
        /\ rdMatcher' = [rdMatcher EXCEPT ![p] = UpdateLocalSub(@, m.client, m.subs, m.unsubs)]
        /\ UNCHANGED <<rdSubs, rdAnswers, rdPackets, rdParts, calls>>
    BY <1>2 DEF RedisMessage
  <2>2. m \in Messages /\ Tail(rdChannel[p]) \in Seq(Messages)
    BY <2>1, ReadTyped
  <2>3. m.client \in Clients /\ m.subs \in SUBSET Filters
    BY <2>2 DEF Messages
  <2> HIDE DEF m
  <2>4. rdMatcher' \in [Procs -> SUBSET Index]
    BY <2>1, <2>3, UpdateTyped DEF RedisSessionTyped
  <2>5. CallsTyped'
    BY <2>1 DEF CallsTyped, calls, sessions
  <2> QED  BY <2>1, <2>2, <2>4, <2>5 DEF RedisSessionTyped
<1>3. CASE RedisLoaded(p)
  <2> DEFINE a == Head(rdAnswers[p])
  <2>1. /\ rdAnswers[p] # <<>>
        /\ rdAnswers' = [rdAnswers EXCEPT ![p] = Tail(@)]
        /\ rdMatcher' = [rdMatcher EXCEPT ![p] = UpdateLocalSub(@, a.client, a.subs, {})]
        /\ UNCHANGED <<rdSubs, rdChannel, rdPackets, rdParts, calls>>
    BY <1>3 DEF RedisLoaded
  <2>2. a \in Answers /\ Tail(rdAnswers[p]) \in Seq(Answers)
    BY <2>1, ReadTyped
  <2>3. a.client \in Clients /\ a.subs \in SUBSET Filters
    BY <2>2 DEF Answers
  <2> HIDE DEF a
  <2>4. rdMatcher' \in [Procs -> SUBSET Index]
    BY <2>1, <2>3, UpdateTyped DEF RedisSessionTyped
  <2>5. CallsTyped'
    BY <2>1 DEF CallsTyped, calls, sessions
  <2> QED  BY <2>1, <2>2, <2>4, <2>5 DEF RedisSessionTyped
<1>4. ASSUME NEW c \in Clients, RedisClean(p, c) PROVE Goal
  <2>1. CallsTyped'
    BY <1>4, DropsTyped DEF RedisClean, CallsTyped
  <2>2. rdAnswers' \in [Procs -> Seq(Answers)]
    BY <1>4, AsksTyped DEF RedisClean
  <2> QED  BY <1>4, <2>1, <2>2 DEF RedisClean, RedisSessionTyped
<1>5. ASSUME NEW c \in Clients, NEW F \in SUBSET Filters, RedisStoreSubscriptions(p, c, F) PROVE Goal
  <2>1. CallsTyped'
    BY <1>5, SavesTyped DEF RedisStoreSubscriptions
  <2>2. rdAnswers' \in [Procs -> Seq(Answers)]
    BY <1>5, AsksTyped DEF RedisStoreSubscriptions
  <2> QED  BY <1>5, <2>1, <2>2 DEF RedisStoreSubscriptions, RedisSessionTyped
<1> QED  BY <1>1, <1>2, <1>3, <1>4, <1>5 DEF RedisSessionStep

\* The keys and the list of one client.
KeyMap == [Ids -> 0 .. MaxPubs]
ListMap == [Ids -> Nat]

LEMMA UnlistedTyped ==
    ASSUME NEW list \in ListMap, NEW i \in Ids
    PROVE  Unlisted(list, i) \in ListMap
  BY DEF Unlisted, ListMap

LEMMA RelistedTyped ==
    ASSUME NEW list \in ListMap, NEW old \in Ids, NEW new \in Ids
    PROVE  Relisted(list, old, new) \in ListMap
  BY UnlistedTyped DEF Relisted, ListMap

LEMMA RenameTyped ==
    ASSUME NEW keys \in KeyMap, NEW old \in Ids, NEW new \in Ids
    PROVE  Rename(keys, old, new) \in KeyMap
  BY NumbersTyped DEF Rename, KeyMap

LEMMA RedisNamed ==
    /\ \A c, i : Under(c, i, RedisQueue) \subseteq RedisQueue /\ Of(c, RedisQueue) \subseteq RedisQueue
    /\ \A S \in SUBSET RedisQueue : Named(S) \subseteq Clients \X Pubs
<1>1. \A x \in RedisQueue : x.client \in Clients /\ x.pub \in Pubs
  BY DEF RedisQueue
<1> QED  BY <1>1, NamedTyped DEF Under, Of

LEMMA StoredIdsTyped ==
    ASSUME CallsTyped PROVE StoredIds(pubs) \subseteq Ids
<1>1. 1 .. pubs \subseteq Pubs
  BY NumbersTyped DEF CallsTyped, Pubs
<1> QED  BY <1>1, NumbersTyped DEF StoredIds

\* The calls that do something with packets.
RedisPacketStep(c) ==
    \/ \E i \in Ids : RedisStream(c, i) \/ RedisExpire(c, i)
    \/ \E i \in MessageIds : RedisDelete(c, i)
    \/ \E i \in StoredIds(pubs), new \in MessageIds : RedisUpdate(c, i, new)

LEMMA RedisPacketsKept ==
    ASSUME CallsTyped, RedisPacketsTyped, NEW c \in Clients, RedisPacketStep(c)
    PROVE  CallsTyped' /\ RedisPacketsTyped' /\ UNCHANGED rdSession
<1> DEFINE Goal == CallsTyped' /\ RedisPacketsTyped' /\ UNCHANGED rdSession
<1> SUFFICES Goal
  OBVIOUS
<1>0. /\ rdKeys \in [Clients -> KeyMap] /\ rdList \in [Clients -> ListMap] /\ MessageIds \subseteq Ids
      /\ rdKeys[c] \in KeyMap /\ rdList[c] \in ListMap
  BY NumbersTyped DEF RedisPacketsTyped, KeyMap, ListMap
<1>1. ASSUME NEW i \in Ids, RedisStream(c, i) PROVE Goal
  BY <1>1 DEF RedisStream, CallsTyped, RedisPacketsTyped, calls, sessions
<1>2. ASSUME NEW i \in Ids, RedisExpire(c, i) PROVE Goal
  <2>1. CallsTyped'
    BY <1>2, RedisNamed, ReleasesTyped DEF RedisExpire
  <2>2. rdKeys' \in [Clients -> KeyMap]
    BY <1>0, <1>2, NumbersTyped DEF RedisExpire, KeyMap
  <2> QED  BY <1>2, <2>1, <2>2 DEF RedisExpire, RedisPacketsTyped, KeyMap
<1>3. ASSUME NEW i \in MessageIds, RedisDelete(c, i) PROVE Goal
  <2>1. CallsTyped'
    BY <1>3, RedisNamed, ReleasesTyped DEF RedisDelete
  <2>2. rdKeys' \in [Clients -> KeyMap]
    BY <1>0, <1>3, NumbersTyped DEF RedisDelete, KeyMap
  <2>3. rdList' \in [Clients -> ListMap]
    BY <1>0, <1>3, UnlistedTyped DEF RedisDelete
  <2> QED  BY <1>3, <2>1, <2>2, <2>3 DEF RedisDelete, RedisPacketsTyped, KeyMap, ListMap
<1>4. ASSUME NEW i \in StoredIds(pubs), NEW new \in MessageIds, RedisUpdate(c, i, new) PROVE Goal
  <2>0. i \in Ids /\ new \in Ids
    BY <1>0, StoredIdsTyped
  <2>1. CallsTyped'
    <3>1. Named({}) \subseteq Clients \X Pubs
      BY NamedTyped
    <3> QED  BY <1>4, <3>1, ReleasesTyped DEF RedisUpdate
  <2>2. rdKeys' \in [Clients -> KeyMap]
    BY <1>0, <1>4, <2>0, RenameTyped DEF RedisUpdate
  <2>3. rdList' \in [Clients -> ListMap]
    BY <1>0, <1>4, <2>0, RelistedTyped DEF RedisUpdate
  <2> QED  BY <1>4, <2>1, <2>2, <2>3 DEF RedisUpdate, RedisPacketsTyped, KeyMap, ListMap
<1> QED  BY <1>1, <1>2, <1>3, <1>4 DEF RedisPacketStep

LEMMA LapseTyped ==
    ASSUME CallsTyped, RedisSessionTyped, NEW c \in Clients, RedisLapse(c)
    PROVE  CallsTyped' /\ RedisSessionTyped' /\ UNCHANGED <<rdPackets, rdParts>>
<1>1. CallsTyped'
  BY DropsTyped DEF RedisLapse, CallsTyped
<1>2. rdSubs' \in [Clients -> SUBSET Filters]
  BY DEF RedisLapse, RedisSessionTyped
<1> QED  BY <1>1, <1>2 DEF RedisLapse, RedisSessionTyped

LEMMA CleanedTyped ==
    ASSUME CallsTyped, RedisSessionTyped, RedisPacketsTyped, NEW p \in Procs, RedisCleaned(p)
    PROVE  CallsTyped' /\ RedisSessionTyped' /\ RedisPacketsTyped'
<1> DEFINE a == Head(rdAnswers[p])
           c == a.client
<1>1. /\ rdAnswers[p] # <<>>
      /\ rdAnswers' = [rdAnswers EXCEPT ![p] = Tail(@)]
      /\ rdMatcher' = [rdMatcher EXCEPT ![p] = @ \ Indexed(c, a.current)]
      /\ rdSubs' = [rdSubs EXCEPT ![c] = {}]
      /\ rdList' = [rdList EXCEPT ![c] = [i \in Ids |-> 0]]
      /\ rdLoose' = rdLoose \cup {<<c, i>> : i \in {j \in Ids : Holds(c, j)}}
      /\ due' = due \cup Named(Of(c, RedisQueue))
      /\ UNCHANGED <<rdChannel, rdKeys, rdSweeps, rdParts, pubs, turns, owed, sessions>>
  BY DEF RedisCleaned
<1>2. a \in Answers /\ Tail(rdAnswers[p]) \in Seq(Answers)
  BY <1>1, ReadTyped
<1>3. c \in Clients
  BY <1>2 DEF Answers
<1> HIDE DEF a, c
<1>4. due' \in SUBSET (Clients \X Pubs)
  BY <1>1, RedisNamed DEF CallsTyped
<1>5. CallsTyped'
  BY <1>1, <1>4 DEF CallsTyped, sessions
<1>6. RedisSessionTyped'
  BY <1>1, <1>2, <1>3 DEF RedisSessionTyped
<1>7. rdList' \in [Clients -> [Ids -> Nat]]
  BY <1>1, <1>3 DEF RedisPacketsTyped
<1>8. RedisPacketsTyped'
  BY <1>1, <1>3, <1>7 DEF RedisPacketsTyped
<1> QED  BY <1>5, <1>6, <1>8

LEMMA RestartTyped ==
    ASSUME CallsTyped, RedisSessionTyped, RedisPacketsTyped, NEW p \in Procs, RedisRestart(p)
    PROVE  CallsTyped' /\ RedisSessionTyped' /\ RedisPacketsTyped'
<1> DEFINE N == Cardinality(Clients)
<1>0. N \in Nat
  BY StoreAssumption, FS_CardinalityType
<1> HIDE DEF N
<1>1. PICK order \in [1 .. N -> Clients] :
        /\ rdMatcher' = [rdMatcher EXCEPT ![p] = {}]
        /\ rdAnswers' = [rdAnswers EXCEPT ![p] =
              [i \in DOMAIN order |-> [op |-> "load", client |-> order[i], subs |-> rdSubs[order[i]], current |-> {}]]]
        /\ rdChannel' = [rdChannel EXCEPT ![p] = <<>>]
        /\ rdParts' = {x \in rdParts : x.proc # p}
        /\ Stops({c \in Clients : About(c, rdAnswers[p])})
        /\ UNCHANGED <<rdSubs, rdPackets>>
  BY DEF RedisRestart, N
<1> DEFINE L == [i \in 1 .. N |-> [op |-> "load", client |-> order[i], subs |-> rdSubs[order[i]], current |-> {}]]
<1>2. \A i \in 1 .. N : [op |-> "load", client |-> order[i], subs |-> rdSubs[order[i]], current |-> {}] \in Answers
  BY DEF RedisSessionTyped, Answers
<1>3. L \in Seq(Answers)
  BY <1>0, <1>2
<1>4. rdAnswers' = [rdAnswers EXCEPT ![p] = L]
  BY <1>1
<1> HIDE DEF L
<1>5. RedisSessionTyped'
  <2>1. rdAnswers' \in [Procs -> Seq(Answers)]
    BY <1>3, <1>4 DEF RedisSessionTyped
  <2>2. <<>> \in Seq(Messages) /\ rdChannel' = [rdChannel EXCEPT ![p] = <<>>]
    BY <1>1
  <2>3. rdChannel' \in [Procs -> Seq(Messages)]
    BY <2>2 DEF RedisSessionTyped
  <2> QED  BY <1>1, <2>1, <2>3 DEF RedisSessionTyped
<1>6. CallsTyped'
  BY <1>1, StopsTyped
<1>7. RedisPacketsTyped'
  BY <1>1 DEF RedisPacketsTyped, rdPackets
<1> QED  BY <1>5, <1>6, <1>7

LEMMA RedisTypesKept ==
    ASSUME CallsTyped, RedisSessionTyped, RedisPacketsTyped, RedisNext
    PROVE  CallsTyped' /\ RedisSessionTyped' /\ RedisPacketsTyped'
<1>0. UNCHANGED <<rdPackets, rdParts>> => RedisPacketsTyped'
  BY DEF RedisPacketsTyped, rdPackets
<1>1. UNCHANGED rdSession => RedisSessionTyped'
  BY DEF RedisSessionTyped, rdSession
<1>2. ASSUME NEW p \in Procs, RedisSessionStep(p) PROVE CallsTyped' /\ RedisSessionTyped' /\ RedisPacketsTyped'
  BY <1>0, <1>2, RedisSessionKept
<1>3. ASSUME NEW p \in Procs, NEW t \in Topics, RedisPublish(p, t)
      PROVE  CallsTyped' /\ RedisSessionTyped' /\ RedisPacketsTyped'
  <2>1. CallsTyped' /\ pubs + 1 \in Pubs
    BY <1>3, OwesTyped DEF RedisPublish
  <2>2. Match(t, rdMatcher[p]) \in SUBSET Index
    BY MatchTyped DEF RedisSessionTyped
  <2>3. rdParts' \in SUBSET Pipelines
    BY <1>3, <2>1, <2>2 DEF RedisPublish, RedisPacketsTyped, Pipelines, Index
  <2> QED  BY <1>1, <1>3, <2>1, <2>3 DEF RedisPublish, RedisPacketsTyped, rdPackets
<1>4. ASSUME NEW x \in rdParts, RedisStorePacket(x) PROVE CallsTyped' /\ RedisSessionTyped' /\ RedisPacketsTyped'
  <2>1. CallsTyped'
    BY <1>4, GivesTyped DEF RedisStorePacket
  <2>2. x.client \in Clients /\ x.pub \in Pubs /\ Uid(x.pub) \in Ids /\ Pubs \subseteq 0 .. MaxPubs
    BY NumbersTyped DEF RedisPacketsTyped, Pipelines
  <2>3. rdKeys' \in [Clients -> [Ids -> 0 .. MaxPubs]]
    BY <1>4, <2>2 DEF RedisStorePacket, RedisPacketsTyped
  <2>4. rdList' \in [Clients -> [Ids -> Nat]]
    BY <1>4, <2>2 DEF RedisStorePacket, RedisPacketsTyped
  <2> QED  BY <1>1, <1>4, <2>1, <2>3, <2>4 DEF RedisStorePacket, RedisPacketsTyped
<1>5. ASSUME NEW x \in rdSweeps, RedisSweep(x) PROVE CallsTyped' /\ RedisSessionTyped' /\ RedisPacketsTyped'
  <2>1. x[1] \in Clients /\ x[2] \in Ids
    BY DEF RedisPacketsTyped
  <2>2. rdList' \in [Clients -> [Ids -> Nat]]
    BY <1>5, <2>1 DEF RedisSweep, RedisPacketsTyped
  <2> QED  BY <1>1, <1>5, <2>2 DEF RedisSweep, RedisPacketsTyped, CallsTyped, calls, sessions
<1>6. ASSUME NEW c \in Clients, RedisPacketStep(c) PROVE CallsTyped' /\ RedisSessionTyped' /\ RedisPacketsTyped'
  BY <1>1, <1>6, RedisPacketsKept
<1> QED
  BY <1>0, <1>2, <1>3, <1>4, <1>5, <1>6, LapseTyped, CleanedTyped, RestartTyped
     DEF RedisNext, RedisSessionStep, RedisPacketStep

-----------------------------------------------------------------------------
(* Beyond the types *)

\* An update has an id to give; what a deletion has read is due.
StreamsSound ==
    \A s \in lvStreams : /\ s.op = "update" => s.id \in MessageIds
                         /\ s.op = "delete" => Named(s.read) \subseteq due

\* Under a unique id there is its packet.
UidsSound == \A c \in Clients, p \in Pubs : rdKeys[c][Uid(p)] \in {0, p}

LEMMA NamedParts == \A S, T : (T \subseteq S => Named(T) \subseteq Named(S))
  BY DEF Named

LEMMA StartSound ==
    ASSUME StreamsSound, due \subseteq due', NEW op \in {"update", "delete"}, NEW i, NEW R, NEW K,
           StartStream(op, i, R, K),
           op = "update" => i \in MessageIds, op = "delete" => Named(R) \subseteq due'
    PROVE  StreamsSound'
  BY DEF StreamsSound, StartStream

LEMMA StreamsKept ==
    ASSUME CallsTyped, LevelTyped, StreamsSound, LevelNext
    PROVE  StreamsSound' /\ due \subseteq due'
<1> DEFINE Goal == StreamsSound' /\ due \subseteq due'
<1> SUFFICES Goal
  OBVIOUS
<1>1. CASE lvStreams' \subseteq lvStreams /\ due' = due
  BY <1>1 DEF StreamsSound
<1>2. ASSUME NEW c \in Clients, LevelClean(c) PROVE Goal
  <2>1. due \subseteq due' /\ Named(Of(c, lvPackets)) \subseteq due'
    BY <1>2 DEF LevelClean
  <2> QED  BY <1>2, <2>1, StartSound DEF LevelClean
<1>3. ASSUME NEW c \in Clients, NEW i, NEW new \in MessageIds, LevelUpdate(c, i, new) PROVE Goal
  <2>1. due \subseteq due'
    BY <1>3 DEF LevelUpdate, Releases
  <2> QED  BY <1>3, <2>1, StartSound DEF LevelUpdate
<1>4. ASSUME NEW c \in Clients, NEW i, LevelDelete(c, i) PROVE Goal
  <2>1. due \subseteq due' /\ Named(Under(c, i, lvPackets)) \subseteq due'
    BY <1>4 DEF LevelDelete, Releases
  <2> QED  BY <1>4, <2>1, StartSound DEF LevelDelete
<1>5. ASSUME NEW c \in Clients, NEW R \in SUBSET Of(c, lvPackets), LevelStream(c, R) PROVE Goal
  <2>1. due \subseteq due' /\ Named(R) \subseteq due'
    BY <1>5 DEF LevelStream, Releases
  <2> QED  BY <1>5, <2>1, StartSound DEF LevelStream
<1>6. ASSUME NEW s \in lvStreams, NEW x \in s.read, LevelApply(s, x) PROVE Goal
  <2>1. s \in Streams
    BY DEF LevelTyped
  <2> DEFINE t == [s EXCEPT !.read = @ \ {x}]
  <2>2. t.op = s.op /\ t.id = s.id /\ t.read \subseteq s.read
    BY <2>1 DEF Streams
  <2>3. lvStreams' \subseteq lvStreams \cup {t} /\ due' = due
    BY <1>6 DEF LevelApply, calls
  <2> HIDE DEF t
  <2>4. Named(t.read) \subseteq Named(s.read)
    BY <2>2, NamedParts
  <2> QED  BY <2>2, <2>3, <2>4 DEF StreamsSound
<1>7. CASE LevelRestart
  BY <1>1, <1>7 DEF LevelRestart, Stops
<1>8. ASSUME NEW c \in Clients, LevelLapse(c) \/ LevelLookup(c) PROVE Goal
  BY <1>1, <1>8 DEF LevelLapse, LevelLookup, calls
<1>9. ASSUME NEW c \in Clients, NEW F, LevelStoreSubscriptions(c, F) PROVE Goal
  BY <1>1, <1>9 DEF LevelStoreSubscriptions, Saves
<1>10. ASSUME NEW k, LevelWrite(k) PROVE Goal
  BY <1>1, <1>10 DEF LevelWrite, calls
<1>11. ASSUME NEW t, LevelPublish(t) PROVE Goal
  BY <1>1, <1>11 DEF LevelPublish, Owes
<1>12. ASSUME NEW x, LevelStorePacket(x) \/ LevelStoreFails(x) PROVE Goal
  BY <1>1, <1>12 DEF LevelStorePacket, LevelStoreFails, Gives, calls
<1>13. ASSUME NEW s, LevelCleaned(s) PROVE Goal
  BY <1>1, <1>13 DEF LevelCleaned, calls
<1> HIDE DEF Goal
<1> QED
  BY <1>2, <1>3, <1>4, <1>5, <1>6, <1>7, <1>8, <1>9, <1>10, <1>11, <1>12, <1>13 DEF LevelNext

LEMMA UidsKept ==
    ASSUME CallsTyped, RedisPacketsTyped, UidsSound, RedisNext
    PROVE  UidsSound'
<1>0. rdKeys \in [Clients -> KeyMap]
  BY DEF RedisPacketsTyped, KeyMap
<1>1. CASE rdKeys' = rdKeys
  BY <1>1 DEF UidsSound
<1>2. ASSUME NEW c \in Clients, NEW i, rdKeys' = [rdKeys EXCEPT ![c][i] = 0] PROVE UidsSound'
  BY <1>0, <1>2, NumbersTyped DEF UidsSound, KeyMap
<1>3. ASSUME NEW c \in Clients, NEW i \in StoredIds(pubs), NEW new \in MessageIds, RedisUpdate(c, i, new)
      PROVE  UidsSound'
  <2>1. \A p \in Pubs : Rename(rdKeys[c], i, new)[Uid(p)] \in {0, rdKeys[c][Uid(p)]}
    BY <1>0, NumbersTyped DEF Rename, KeyMap
  <2>2. rdKeys' = [rdKeys EXCEPT ![c] = Rename(@, i, new)]
    BY <1>3 DEF RedisUpdate
  <2> QED  BY <1>0, <2>1, <2>2 DEF UidsSound
<1>4. ASSUME NEW x \in rdParts, RedisStorePacket(x) PROVE UidsSound'
  <2>1. x.client \in Clients /\ x.pub \in Pubs /\ Uid(x.pub) \in Ids
    BY NumbersTyped DEF RedisPacketsTyped, Pipelines
  <2>2. rdKeys' = [rdKeys EXCEPT ![x.client][Uid(x.pub)] = x.pub]
    BY <1>4 DEF RedisStorePacket
  <2> QED  BY <1>0, <2>1, <2>2, NumbersTyped DEF UidsSound, KeyMap
<1>5. ASSUME NEW p \in Procs, RedisSessionStep(p) PROVE rdKeys' = rdKeys
  BY <1>5 DEF RedisSessionStep, RedisStored, RedisMessage, RedisLoaded, RedisClean, RedisStoreSubscriptions, rdPackets
<1>6. ASSUME NEW p \in Procs, RedisCleaned(p) \/ RedisRestart(p) \/ \E t \in Topics : RedisPublish(p, t)
      PROVE  rdKeys' = rdKeys
  BY <1>6 DEF RedisCleaned, RedisRestart, RedisPublish, rdPackets
<1>7. ASSUME NEW c \in Clients, RedisLapse(c) \/ \E i \in Ids : RedisStream(c, i) PROVE rdKeys' = rdKeys
  BY <1>7 DEF RedisLapse, RedisStream, rdPackets
<1>8. ASSUME NEW x, RedisSweep(x) PROVE rdKeys' = rdKeys
  BY <1>8 DEF RedisSweep
<1>9. ASSUME NEW c \in Clients, NEW i, RedisExpire(c, i) \/ RedisDelete(c, i) PROVE UidsSound'
  BY <1>2, <1>9 DEF RedisExpire, RedisDelete
<1> QED
  BY <1>1, <1>3, <1>4, <1>5, <1>6, <1>7, <1>8, <1>9 DEF RedisNext, RedisSessionStep

-----------------------------------------------------------------------------
(* The refinement mapping *)

Plain(x) == [client |-> x.client, pub |-> x.pub, id |-> x.id]

LEMMA NoSubFacts ==
    /\ \A S, T : NoSub(S \cup T) = NoSub(S) \cup NoSub(T)
    /\ \A S, T : S \subseteq T => NoSub(S) \subseteq NoSub(T)
    /\ \A S, z : z \in NoSub(S) <=> \E x \in S : z = Plain(x)
  BY DEF NoSub, Plain

\* What packets are named is not changed by the mapping.
LEMMA NamedFacts ==
    /\ Queue!Named(queue) = Named(queue)
    /\ \A S : Named(NoSub(S)) = Named(S)
    /\ Named(lvPackets) \subseteq Named(queue) /\ Named(RedisQueue) \subseteq Named(queue)
    /\ Named(mgPackets) \subseteq Named(queue)
<1>1. \A S : Named(NoSub(S)) = Named(S)
  <2>1. \A x : Plain(x).client = x.client /\ Plain(x).pub = x.pub
    BY DEF Plain
  <2>2. \A S, z : z \in Named(S) <=> \E x \in S : z = <<x.client, x.pub>>
    BY DEF Named
  <2>3. \A S, z : z \in Named(NoSub(S)) <=> \E x \in S : z = <<Plain(x).client, Plain(x).pub>>
    BY <2>2, NoSubFacts
  <2>4. \A S, z : z \in Named(NoSub(S)) <=> z \in Named(S)
    BY <2>1, <2>2, <2>3
  <2>5. ASSUME NEW S PROVE Named(NoSub(S)) = Named(S)
    BY <2>4 DEF Named
  <2> QED  BY <2>5
<1>2. /\ NoSub(lvPackets) \subseteq queue /\ RedisQueue \subseteq queue /\ NoSub(mgPackets) \subseteq queue
  BY DEF queue
<1>3. Queue!Named(queue) = Named(queue)
  BY DEF Queue!Named, Named
<1> QED  BY <1>1, <1>2, <1>3, NamedParts

\* Of another backend nothing changes.
LEMMA OthersKept ==
    /\ UNCHANGED rdVars => RedisQueue' = RedisQueue /\ rdParts' = rdParts
    /\ UNCHANGED mgVars => mgPackets' = mgPackets /\ mgParts' = mgParts
    /\ UNCHANGED lvVars => lvPackets' = lvPackets /\ lvParts' = lvParts /\ lvStreams' = lvStreams
  BY DEF rdVars, rdPackets, RedisQueue, mgVars, lvVars

-----------------------------------------------------------------------------
(* The LevelUp persistence implements OfflineQueue *)

LevelQuiet == UNCHANGED <<rdVars, mgVars>>

LEMMA LevelMaps ==
    ASSUME LevelQuiet
    PROVE  /\ queue' = NoSub(lvPackets') \cup RedisQueue \cup NoSub(mgPackets)
           /\ coming' = Named(lvParts') \cup Named(rdParts) \cup Named(mgParts)
           /\ taken' = NoSub(UNION {s.read : s \in lvStreams'})
           /\ lvPackets' = lvPackets => queue' = queue
           /\ lvParts' = lvParts => coming' = coming
           /\ lvParts' \subseteq lvParts => coming' \subseteq coming
           /\ lvStreams' = lvStreams => taken' = taken
           /\ lvStreams' \subseteq lvStreams => taken' \subseteq taken
<1>1. RedisQueue' = RedisQueue /\ rdParts' = rdParts /\ mgPackets' = mgPackets /\ mgParts' = mgParts
  BY OthersKept DEF LevelQuiet
<1>2. queue' = NoSub(lvPackets') \cup RedisQueue \cup NoSub(mgPackets)
  BY <1>1 DEF queue, NoSub
<1>3. coming' = Named(lvParts') \cup Named(rdParts) \cup Named(mgParts)
  BY <1>1 DEF coming, Named
<1>4. taken' = NoSub(UNION {s.read : s \in lvStreams'})
  BY DEF taken, NoSub
<1>5. lvStreams' \subseteq lvStreams => taken' \subseteq taken
  <2>1. ASSUME lvStreams' \subseteq lvStreams
        PROVE  UNION {s.read : s \in lvStreams'} \subseteq UNION {s.read : s \in lvStreams}
    BY <2>1
  <2> QED  BY <1>4, <2>1, NoSubFacts DEF taken
<1>6. lvParts' \subseteq lvParts => coming' \subseteq coming
  BY <1>3, NamedParts DEF coming
<1> QED  BY <1>2, <1>3, <1>4, <1>5, <1>6 DEF queue, coming, taken

\* What a stream that begins has read is stored.
LEMMA StartTakes ==
    ASSUME LevelQuiet, NEW op, NEW i, NEW R \in SUBSET lvPackets, NEW K, StartStream(op, i, R, K)
    PROVE  taken \subseteq taken' /\ taken' \subseteq taken \cup queue
<1> DEFINE s == [op |-> op, id |-> i, read |-> R, keys |-> K]
           U == UNION {t.read : t \in lvStreams}
<1>1. lvStreams' = lvStreams \/ lvStreams' = lvStreams \cup {s}
  BY DEF StartStream
<1>2. s.read = R
  OBVIOUS
<1> HIDE DEF s
<1>3. CASE lvStreams' = lvStreams \cup {s}
  <2>1. UNION {t.read : t \in lvStreams'} = U \cup R
    BY <1>2, <1>3
  <2>2. taken' = NoSub(U) \cup NoSub(R)
    BY <2>1, LevelMaps, NoSubFacts
  <2>3. NoSub(R) \subseteq queue
    BY NoSubFacts DEF queue
  <2> QED  BY <2>2, <2>3 DEF taken
<1> QED  BY <1>1, <1>3, LevelMaps

LEMMA LevelTakes ==
    ASSUME LevelQuiet, NEW op, NEW i, NEW R \in SUBSET lvPackets, NEW K, NEW D \in SUBSET lvPackets,
           StartStream(op, i, R, K), due' = due \cup Named(D), UNCHANGED <<pubs, lvPackets, lvParts>>
    PROVE  Queue!Take
<1>1. taken \subseteq taken' /\ taken' \subseteq taken \cup queue
  BY StartTakes
<1>2. Named(D) \subseteq Queue!Named(queue)
  BY NamedFacts, NamedParts
<1> QED  BY <1>1, <1>2, LevelMaps DEF Queue!Take, Queue!Releases

LEMMA LevelCallsMap ==
    ASSUME LevelTyped, LevelQuiet, NEW c \in Clients
    PROVE  /\ LevelClean(c) => Queue!Take
           /\ \A i, new : LevelUpdate(c, i, new) => Queue!Take
           /\ \A i : LevelDelete(c, i) => Queue!Take
           /\ \A R \in SUBSET Of(c, lvPackets) : LevelStream(c, R) => Queue!Take
<1>1. /\ \A i : Under(c, i, lvPackets) \in SUBSET lvPackets
      /\ Of(c, lvPackets) \in SUBSET lvPackets /\ {} \in SUBSET lvPackets
      /\ Named({}) = {}
  BY DEF Under, Of, Named
<1>2. ASSUME LevelClean(c) PROVE Queue!Take
  <2> DEFINE K == Indexed(c, lvSubs[c])
  <2>1. /\ StartStream("delete", 0, Of(c, lvPackets), K)
        /\ due' = due \cup Named(Of(c, lvPackets)) /\ UNCHANGED <<pubs, lvPackets, lvParts>>
    BY <1>2 DEF LevelClean, Drops
  <2> HIDE DEF K
  <2> QED  BY <1>1, <2>1, LevelTakes
<1>3. ASSUME NEW i, NEW new, LevelUpdate(c, i, new) PROVE Queue!Take
  <2>1. /\ StartStream("update", new, Under(c, i, lvPackets), {})
        /\ due' = due \cup Named({}) /\ UNCHANGED <<pubs, lvPackets, lvParts>>
    BY <1>3 DEF LevelUpdate, Releases
  <2> QED  BY <1>1, <2>1, LevelTakes
<1>4. ASSUME NEW i, LevelDelete(c, i) PROVE Queue!Take
  <2>1. /\ StartStream("delete", 0, Under(c, i, lvPackets), {})
        /\ due' = due \cup Named(Under(c, i, lvPackets)) /\ UNCHANGED <<pubs, lvPackets, lvParts>>
    BY <1>4 DEF LevelDelete, Releases
  <2> QED  BY <1>1, <2>1, LevelTakes
<1>5. ASSUME NEW R \in SUBSET Of(c, lvPackets), LevelStream(c, R) PROVE Queue!Take
  <2>1. /\ StartStream("delete", 0, R, {})
        /\ due' = due \cup Named(R) /\ UNCHANGED <<pubs, lvPackets, lvParts>>
    BY <1>5 DEF LevelStream, Releases
  <2> QED  BY <1>1, <2>1, LevelTakes
<1> QED  BY <1>2, <1>3, <1>4, <1>5

LEMMA LevelPublishMaps ==
    ASSUME LevelTyped, LevelQuiet, NEW t \in Topics, LevelPublish(t)
    PROVE  Queue!Publish
<1> DEFINE M == Match(t, lvMatcher)
           P == {[client |-> k[2], pub |-> pubs + 1, sub |-> k[1]] : k \in M}
           C == {k[2] : k \in M}
<1>1. C \in SUBSET Clients
  BY MatchTyped DEF LevelTyped, Index
<1>2. lvParts' = lvParts \cup P /\ pubs' = pubs + 1 /\ UNCHANGED <<lvPackets, lvStreams, due>>
  BY DEF LevelPublish, Owes
<1>3. Named(P) = C \X {pubs + 1}
  <2>1. \A x \in P : x.client \in C /\ x.pub = pubs + 1
    OBVIOUS
  <2>2. \A c \in C : \E x \in P : x.client = c
    <3>1. ASSUME NEW c \in C PROVE \E x \in P : x.client = c
      <4>1. PICK k \in M : c = k[2]
        OBVIOUS
      <4>2. [client |-> k[2], pub |-> pubs + 1, sub |-> k[1]] \in P
        OBVIOUS
      <4> QED  BY <4>1, <4>2
    <3> QED  BY <3>1
  <2> HIDE DEF P, C
  <2> QED  BY <2>1, <2>2, NamedSame
<1>4. Named(lvParts \cup P) = Named(lvParts) \cup Named(P)
  BY DEF Named
<1> HIDE DEF C, P
<1>5. coming' = coming \cup (C \X {pubs + 1})
  BY <1>2, <1>3, <1>4, LevelMaps DEF coming
<1> QED  BY <1>1, <1>2, <1>5, LevelMaps DEF Queue!Publish

LEMMA LevelStoreMaps ==
    ASSUME LevelTyped, LevelQuiet, NEW x \in lvParts, LevelStorePacket(x)
    PROVE  Queue!Store
<1> DEFINE y == [client |-> x.client, pub |-> x.pub, sub |-> x.sub, id |-> Uid(x.pub)]
           n == <<x.client, x.pub>>
<1>1. /\ lvPackets' = lvPackets \cup {y} /\ lvParts' \subseteq lvParts
      /\ UNCHANGED <<pubs, due, lvStreams>>
  BY DEF LevelStorePacket, Gives
<1>2. n \in coming
  BY DEF coming, Named
<1>3. NoSub({y}) = {[client |-> n[1], pub |-> n[2], id |-> Queue!Uid(n[2])]}
  BY DEF NoSub, Uid, Queue!Uid
<1> HIDE DEF y, n
<1>4. queue' = queue \cup {[client |-> n[1], pub |-> n[2], id |-> Queue!Uid(n[2])]}
  BY <1>1, <1>3, LevelMaps, NoSubFacts DEF queue
<1> QED  BY <1>1, <1>2, <1>4, LevelMaps DEF Queue!Store

LEMMA LevelApplyMaps ==
    ASSUME LevelTyped, StreamsSound, LevelQuiet, NEW s \in lvStreams, NEW x \in s.read, LevelApply(s, x)
    PROVE  Queue!Rename \/ Queue!Remove
<1>0. s \in Streams /\ x \in Copies /\ lvPackets \in SUBSET Copies
  BY DEF LevelTyped, Streams
<1>1. /\ lvPackets' = IF s.op = "update" THEN Put(x, s.id) ELSE Del(x)
      /\ UNCHANGED <<pubs, due, lvParts>>
  BY DEF LevelApply, calls
<1>2. taken' \subseteq taken
  <2> DEFINE t == [s EXCEPT !.read = @ \ {x}]
  <2>1. t.read \subseteq s.read
    BY <1>0 DEF Streams
  <2>2. lvStreams' \subseteq lvStreams \cup {t}
    BY DEF LevelApply
  <2> HIDE DEF t
  <2>3. UNION {r.read : r \in lvStreams'} \subseteq UNION {r.read : r \in lvStreams}
    BY <2>1, <2>2
  <2> QED  BY <2>3, LevelMaps, NoSubFacts DEF taken
<1>3. Plain(x) \in taken
  BY NoSubFacts DEF taken
<1>4. coming' = coming
  BY <1>1, LevelMaps
<1>5. \A z \in NoSub(lvPackets) \ NoSub({y \in lvPackets : Key(y) # Key(x)}) :
         z.client = x.client /\ z.pub = x.pub
  <2>1. ASSUME NEW y \in lvPackets, Key(y) = Key(x) PROVE y.client = x.client /\ y.pub = x.pub
    BY <2>1 DEF Key
  <2> QED  BY <2>1 DEF NoSub
<1>6. CASE s.op = "update"
  <2> DEFINE y == [x EXCEPT !.id = s.id]
             i == s.id
  <2>1. i \in MessageIds /\ i \in Ids
    BY <1>6, NumbersTyped DEF StreamsSound
  <2>2. Plain(y) = [Plain(x) EXCEPT !.id = i]
    BY <1>0, <2>1, CopyTyped DEF Plain
  <2>3. lvPackets' = {z \in lvPackets : Key(z) # Key(x)} \cup {y}
    BY <1>1, <1>6 DEF Put
  <2> HIDE DEF y, i
  <2>4. NoSub(lvPackets') = NoSub({z \in lvPackets : Key(z) # Key(x)}) \cup {Plain(y)}
    BY <2>3 DEF NoSub, Plain
  <2>5. NoSub({z \in lvPackets : Key(z) # Key(x)}) \subseteq NoSub(lvPackets)
    BY NoSubFacts
  <2>6. Plain(y) \in queue' /\ queue' \subseteq queue \cup {Plain(y)}
    BY <2>4, <2>5, LevelMaps DEF queue
  <2>7. \A z \in queue \ queue' : z.client = x.client /\ z.pub = x.pub
    BY <1>5, <2>4, LevelMaps DEF queue
  <2>8. Queue!Renames(Plain(x), i)
    BY <2>2, <2>6, <2>7 DEF Queue!Renames, Plain
  <2>9. i \in Queue!MessageIds
    BY <2>1 DEF MessageIds, Queue!MessageIds
  <2> QED  BY <1>1, <1>2, <1>3, <1>4, <2>8, <2>9 DEF Queue!Rename
<1>7. CASE s.op = "delete"
  <2>1. lvPackets' = {z \in lvPackets : Key(z) # Key(x)}
    BY <1>1, <1>7 DEF Del
  <2>2. queue' \subseteq queue
    BY <2>1, LevelMaps, NoSubFacts DEF queue
  <2>3. <<x.client, x.pub>> \in due'
    BY <1>1, <1>7 DEF StreamsSound, Named
  <2>4. \A z \in queue \ queue' : <<z.client, z.pub>> \in due'
    BY <1>5, <2>1, <2>3, LevelMaps DEF queue
  <2> QED  BY <1>1, <1>2, <1>4, <2>2, <2>4 DEF Queue!Remove, Queue!Releases
<1> QED  BY <1>0, <1>6, <1>7 DEF Streams

LEMMA LevelImplements ==
    ASSUME LevelTyped, StreamsSound, LevelNext, LevelQuiet
    PROVE  Queue!Next \/ UNCHANGED Queue!vars
<1> DEFINE Goal == Queue!Next \/ UNCHANGED Queue!vars
<1> SUFFICES Goal
  OBVIOUS
<1>1. CASE UNCHANGED <<pubs, due, lvPackets, lvParts, lvStreams>>
  BY <1>1, LevelMaps DEF Queue!vars
<1>2. CASE UNCHANGED <<pubs, due, lvPackets>> /\ lvParts' \subseteq lvParts /\ lvStreams' \subseteq lvStreams
  BY <1>2, LevelMaps DEF Queue!Next, Queue!Forget
<1>3. CASE LevelRestart
  BY <1>2, <1>3 DEF LevelRestart, Stops
<1>4. ASSUME NEW c \in Clients, LevelLapse(c) \/ LevelLookup(c) PROVE Goal
  BY <1>1, <1>4 DEF LevelLapse, LevelLookup, calls
<1>5. ASSUME NEW c \in Clients, NEW F, LevelStoreSubscriptions(c, F) PROVE Goal
  BY <1>1, <1>5 DEF LevelStoreSubscriptions, Saves
<1>6. ASSUME NEW k, LevelWrite(k) PROVE Goal
  BY <1>1, <1>6 DEF LevelWrite, calls
<1>7. ASSUME NEW x, LevelStoreFails(x) PROVE Goal
  BY <1>2, <1>7 DEF LevelStoreFails, calls
<1>8. ASSUME NEW s, LevelCleaned(s) PROVE Goal
  BY <1>2, <1>8 DEF LevelCleaned, calls
<1>9. ASSUME NEW c \in Clients, NEW R \in SUBSET Of(c, lvPackets), LevelStream(c, R) PROVE Goal
  BY <1>9, LevelCallsMap DEF Queue!Next
<1>10. ASSUME NEW c \in Clients, NEW i, NEW new, LevelClean(c) \/ LevelUpdate(c, i, new) \/ LevelDelete(c, i)
       PROVE  Goal
  BY <1>10, LevelCallsMap DEF Queue!Next
<1>11. ASSUME NEW t \in Topics, LevelPublish(t) PROVE Goal
  BY <1>11, LevelPublishMaps DEF Queue!Next
<1>12. ASSUME NEW x \in lvParts, LevelStorePacket(x) PROVE Goal
  BY <1>12, LevelStoreMaps DEF Queue!Next
<1>13. ASSUME NEW s \in lvStreams, NEW x \in s.read, LevelApply(s, x) PROVE Goal
  BY <1>13, LevelApplyMaps DEF Queue!Next
<1> HIDE DEF Goal
<1> QED
  BY <1>3, <1>4, <1>5, <1>6, <1>7, <1>8, <1>9, <1>10, <1>11, <1>12, <1>13 DEF LevelNext

-----------------------------------------------------------------------------
(* The Mongo persistence implements OfflineQueue *)

MongoQuiet == UNCHANGED <<lvVars, rdVars>>

LEMMA MongoMaps ==
    ASSUME MongoQuiet
    PROVE  /\ queue' = NoSub(lvPackets) \cup RedisQueue \cup NoSub(mgPackets')
           /\ coming' = Named(lvParts) \cup Named(rdParts) \cup Named(mgParts')
           /\ taken' = taken
           /\ mgPackets' = mgPackets => queue' = queue
           /\ mgPackets' \subseteq mgPackets => queue' \subseteq queue
           /\ mgParts' = mgParts => coming' = coming
           /\ mgParts' \subseteq mgParts => coming' \subseteq coming
<1>1. /\ RedisQueue' = RedisQueue /\ rdParts' = rdParts
      /\ lvPackets' = lvPackets /\ lvParts' = lvParts /\ lvStreams' = lvStreams
  BY OthersKept DEF MongoQuiet
<1>2. queue' = NoSub(lvPackets) \cup RedisQueue \cup NoSub(mgPackets')
  BY <1>1 DEF queue, NoSub
<1>3. coming' = Named(lvParts) \cup Named(rdParts) \cup Named(mgParts')
  BY <1>1 DEF coming, Named
<1>4. taken' = taken
  BY <1>1 DEF taken, NoSub
<1>5. mgParts' \subseteq mgParts => coming' \subseteq coming
  BY <1>3, NamedParts DEF coming
<1>6. mgPackets' \subseteq mgPackets => queue' \subseteq queue
  BY <1>2, NoSubFacts DEF queue
<1> QED  BY <1>2, <1>3, <1>4, <1>5, <1>6 DEF queue, coming

\* Packets that leave and are due.
LEMMA MongoRemoves ==
    ASSUME MongoQuiet, NEW R \in SUBSET mgPackets, mgPackets' = mgPackets \ R,
           due' = due \cup Named(R), UNCHANGED <<pubs, mgParts>>
    PROVE  Queue!Remove
<1>1. Named(R) \subseteq Queue!Named(queue)
  BY NamedFacts, NamedParts
<1>2. queue' \subseteq queue
  BY MongoMaps
<1>3. \A z \in queue \ queue' : <<z.client, z.pub>> \in due'
  <2>1. ASSUME NEW z \in queue \ queue' PROVE <<z.client, z.pub>> \in Named(R)
    <3>1. z \in NoSub(mgPackets) /\ z \notin NoSub(mgPackets')
      BY MongoMaps DEF queue
    <3>2. PICK y \in mgPackets : z = Plain(y)
      BY <3>1, NoSubFacts
    <3>3. y \in R
      BY <3>1, <3>2, NoSubFacts
    <3> QED  BY <3>2, <3>3 DEF Plain, Named
  <2> QED  BY <2>1
<1> QED  BY <1>1, <1>2, <1>3, MongoMaps DEF Queue!Remove, Queue!Releases

LEMMA MongoPublishMaps ==
    ASSUME MongoTyped, MongoQuiet, NEW t \in Topics, MongoPublish(t)
    PROVE  Queue!Publish
<1> DEFINE M == {j \in mgSubs : <<t, j[1]>> \in Patterns}
           P == {[client |-> k[2], pub |-> pubs + 1, sub |-> k[1]] : k \in M}
           C == {k[2] : k \in M}
<1>1. C \in SUBSET Clients
  BY DEF MongoTyped, Index
<1>2. mgParts' = mgParts \cup P /\ pubs' = pubs + 1 /\ UNCHANGED <<mgPackets, due>>
  BY DEF MongoPublish, Owes
<1> HIDE DEF M
<1>3. Named(P) = C \X {pubs + 1}
  <2>1. \A x \in P : x.client \in C /\ x.pub = pubs + 1
    OBVIOUS
  <2>2. \A c \in C : \E x \in P : x.client = c
    <3>1. ASSUME NEW c \in C PROVE \E x \in P : x.client = c
      <4>1. PICK k \in M : c = k[2]
        OBVIOUS
      <4>2. [client |-> k[2], pub |-> pubs + 1, sub |-> k[1]] \in P
        OBVIOUS
      <4> QED  BY <4>1, <4>2
    <3> QED  BY <3>1
  <2> HIDE DEF P, C
  <2> QED  BY <2>1, <2>2, NamedSame
<1>4. Named(mgParts \cup P) = Named(mgParts) \cup Named(P)
  BY DEF Named
<1> HIDE DEF C, P
<1>5. coming' = coming \cup (C \X {pubs + 1})
  BY <1>2, <1>3, <1>4, MongoMaps DEF coming
<1> QED  BY <1>1, <1>2, <1>5, MongoMaps DEF Queue!Publish

LEMMA MongoStoreMaps ==
    ASSUME MongoTyped, MongoQuiet, NEW x \in mgParts, MongoStorePacket(x)
    PROVE  Queue!Store
<1> DEFINE y == [client |-> x.client, pub |-> x.pub, sub |-> x.sub, id |-> Uid(x.pub)]
           n == <<x.client, x.pub>>
<1>1. /\ mgPackets' = mgPackets \cup {y} /\ mgParts' \subseteq mgParts
      /\ UNCHANGED <<pubs, due>>
  BY DEF MongoStorePacket, Gives
<1>2. n \in coming
  BY DEF coming, Named
<1>3. NoSub({y}) = {[client |-> n[1], pub |-> n[2], id |-> Queue!Uid(n[2])]}
  BY DEF NoSub, Uid, Queue!Uid
<1> HIDE DEF y, n
<1>4. queue' = queue \cup {[client |-> n[1], pub |-> n[2], id |-> Queue!Uid(n[2])]}
  BY <1>1, <1>3, MongoMaps, NoSubFacts DEF queue
<1> QED  BY <1>1, <1>2, <1>4, MongoMaps DEF Queue!Store

LEMMA MongoUpdateMaps ==
    ASSUME MongoTyped, MongoQuiet, NEW c, NEW i, NEW new \in MessageIds, MongoUpdate(c, i, new)
    PROVE  Queue!Rename
<1>1. PICK x \in Under(c, i, mgPackets) : mgPackets' = (mgPackets \ {x}) \cup {[x EXCEPT !.id = new]}
  BY DEF MongoUpdate
<1>2. UNCHANGED <<pubs, due, mgParts>>
  BY DEF MongoUpdate, Releases, Named
<1> DEFINE y == [x EXCEPT !.id = new]
<1>3. x \in mgPackets /\ x \in Copies /\ new \in Ids
  BY NumbersTyped DEF MongoTyped, Under
<1>4. Plain(y) = [Plain(x) EXCEPT !.id = new]
  BY <1>3, CopyTyped DEF Plain
<1>5. mgPackets' = (mgPackets \ {x}) \cup {y}
  BY <1>1
<1> HIDE DEF y
<1>6. Plain(x) \in queue
  BY <1>3, NoSubFacts DEF queue
<1>7. NoSub(mgPackets') = NoSub(mgPackets \ {x}) \cup {Plain(y)}
  BY <1>5 DEF NoSub, Plain
<1>8. NoSub(mgPackets \ {x}) \subseteq NoSub(mgPackets)
  BY NoSubFacts
<1>9. \A z \in NoSub(mgPackets) \ NoSub(mgPackets \ {x}) : z = Plain(x)
  BY NoSubFacts
<1>10. Plain(y) \in queue' /\ queue' \subseteq queue \cup {Plain(y)}
  BY <1>7, <1>8, MongoMaps DEF queue
<1>11. \A z \in queue \ queue' : z = Plain(x)
  BY <1>7, <1>9, MongoMaps DEF queue
<1>12. Queue!Renames(Plain(x), new)
  BY <1>4, <1>10, <1>11 DEF Queue!Renames
<1>13. new \in Queue!MessageIds
  BY DEF MessageIds, Queue!MessageIds
<1> QED  BY <1>2, <1>6, <1>12, <1>13, MongoMaps DEF Queue!Rename

LEMMA MongoImplements ==
    ASSUME MongoTyped, MongoNext, MongoQuiet
    PROVE  Queue!Next \/ UNCHANGED Queue!vars
<1> DEFINE Goal == Queue!Next \/ UNCHANGED Queue!vars
<1> SUFFICES Goal
  OBVIOUS
<1>1. CASE UNCHANGED <<pubs, due, mgPackets, mgParts>>
  BY <1>1, MongoMaps DEF Queue!vars
<1>2. CASE MongoRestart
  BY <1>2, MongoMaps DEF MongoRestart, Stops, Queue!Next, Queue!Forget
<1>3. ASSUME NEW c, MongoClean(c) \/ MongoRemoveSubscriptions(c) PROVE Goal
  BY <1>1, <1>3 DEF MongoClean, MongoRemoveSubscriptions, Drops, calls
<1>4. ASSUME NEW c, MongoRemovePackets(c) PROVE Goal
  <2>1. Of(c, mgPackets) \in SUBSET mgPackets
    BY DEF Of
  <2> QED  BY <1>4, <2>1, MongoRemoves DEF MongoRemovePackets, Queue!Next
<1>5. ASSUME NEW c, NEW F, MongoStoreSubscriptions(c, F) PROVE Goal
  BY <1>1, <1>5 DEF MongoStoreSubscriptions, Saves
<1>6. ASSUME NEW c, NEW i, NEW new \in MessageIds, MongoUpdate(c, i, new) PROVE Goal
  BY <1>6, MongoUpdateMaps DEF Queue!Next
<1>7. ASSUME NEW c, NEW i, MongoDelete(c, i) PROVE Goal
  <2>1. Under(c, i, mgPackets) \in SUBSET mgPackets
    BY DEF Under
  <2> QED  BY <1>7, <2>1, MongoRemoves DEF MongoDelete, Releases, Queue!Next
<1>8. ASSUME NEW k, MongoWrite(k) \/ MongoLapse(k) PROVE Goal
  BY <1>1, <1>8 DEF MongoWrite, MongoLapse, Drops, calls
<1>9. ASSUME NEW t \in Topics, MongoPublish(t) PROVE Goal
  BY <1>9, MongoPublishMaps DEF Queue!Next
<1>10. ASSUME NEW x \in mgParts, MongoStorePacket(x) PROVE Goal
  BY <1>10, MongoStoreMaps DEF Queue!Next
<1>11. ASSUME NEW x \in mgPackets, MongoExpire(x) PROVE Goal
  <2>1. {x} \in SUBSET mgPackets
    OBVIOUS
  <2> QED  BY <1>11, <2>1, MongoRemoves DEF MongoExpire, Releases, Queue!Next
<1> HIDE DEF Goal
<1> QED
  BY <1>2, <1>3, <1>4, <1>5, <1>6, <1>7, <1>8, <1>9, <1>10, <1>11 DEF MongoNext

-----------------------------------------------------------------------------
(* The Redis persistence implements OfflineQueue *)

RedisQuiet == UNCHANGED <<lvVars, mgVars>>

LEMMA RedisMaps ==
    ASSUME RedisQuiet
    PROVE  /\ queue' = NoSub(lvPackets) \cup RedisQueue' \cup NoSub(mgPackets)
           /\ coming' = Named(lvParts) \cup Named(rdParts') \cup Named(mgParts)
           /\ taken' = taken
           /\ rdKeys' = rdKeys => queue' = queue
           /\ rdParts' = rdParts => coming' = coming
           /\ rdParts' \subseteq rdParts => coming' \subseteq coming
<1>1. /\ lvPackets' = lvPackets /\ lvParts' = lvParts /\ lvStreams' = lvStreams
      /\ mgPackets' = mgPackets /\ mgParts' = mgParts
  BY OthersKept DEF RedisQuiet
<1>2. queue' = NoSub(lvPackets) \cup RedisQueue' \cup NoSub(mgPackets)
  BY <1>1 DEF queue, NoSub
<1>3. coming' = Named(lvParts) \cup Named(rdParts') \cup Named(mgParts)
  BY <1>1 DEF coming, Named
<1>4. taken' = taken
  BY <1>1 DEF taken, NoSub
<1>5. rdParts' \subseteq rdParts => coming' \subseteq coming
  BY <1>3, NamedParts DEF coming
<1>6. rdKeys' = rdKeys => RedisQueue' = RedisQueue
  BY DEF RedisQueue
<1> QED  BY <1>2, <1>3, <1>4, <1>5, <1>6 DEF queue, coming

\* A key that is deleted takes its packet with it.
LEMMA RedisRemoves ==
    ASSUME RedisPacketsTyped, RedisQuiet, NEW c \in Clients, NEW i \in Ids,
           rdKeys' = [rdKeys EXCEPT ![c][i] = 0], Releases(Under(c, i, RedisQueue)), UNCHANGED rdParts
    PROVE  Queue!Remove
<1>1. /\ due' = due \cup Named(Under(c, i, RedisQueue)) /\ pubs' = pubs
  BY DEF Releases
<1>2. RedisQueue' = RedisQueue \ Under(c, i, RedisQueue)
  BY NumbersTyped DEF RedisQueue, Under, RedisPacketsTyped
<1>3. queue' \subseteq queue /\ \A z \in queue \ queue' : z \in Under(c, i, RedisQueue)
  BY <1>2, RedisMaps DEF queue
<1>4. \A z \in queue \ queue' : <<z.client, z.pub>> \in due'
  BY <1>1, <1>3 DEF Named
<1>5. Named(Under(c, i, RedisQueue)) \subseteq Queue!Named(queue)
  <2>1. Under(c, i, RedisQueue) \subseteq RedisQueue
    BY DEF Under
  <2> QED  BY <2>1, NamedFacts, NamedParts
<1> QED  BY <1>1, <1>3, <1>4, <1>5, RedisMaps DEF Queue!Remove, Queue!Releases

LEMMA RedisUpdateMaps ==
    ASSUME CallsTyped, RedisPacketsTyped, RedisQuiet, NEW c \in Clients, NEW i \in StoredIds(pubs),
           NEW new \in MessageIds, RedisUpdate(c, i, new)
    PROVE  Queue!Rename \/ UNCHANGED Queue!vars
<1>1. /\ rdKeys' = [rdKeys EXCEPT ![c] = Rename(@, i, new)]
      /\ UNCHANGED <<pubs, due, rdParts>>
  BY DEF RedisUpdate, Releases, Named
<1>2. i \in Ids /\ new \in Ids /\ rdKeys \in [Clients -> KeyMap] /\ rdKeys[c] \in KeyMap
  BY StoredIdsTyped, NumbersTyped DEF RedisPacketsTyped, KeyMap
<1>3. CASE rdKeys[c][i] = 0
  <2>1. rdKeys' = rdKeys
    BY <1>1, <1>2, <1>3 DEF Rename
  <2> QED  BY <1>1, <2>1, RedisMaps DEF Queue!vars
<1>4. CASE rdKeys[c][i] # 0
  <2> DEFINE p == rdKeys[c][i]
             x == [client |-> c, pub |-> p, id |-> i]
             y == [client |-> c, pub |-> p, id |-> new]
  <2>1. p \in Pubs
    BY <1>2, <1>4, NumbersTyped DEF KeyMap, Pubs
  <2>2. x \in RedisQueue /\ y = [x EXCEPT !.id = new]
    BY <1>2, <2>1 DEF RedisQueue
  <2>3. /\ \A j \in Ids : rdKeys'[c][j] = IF j = new THEN p ELSE IF j = i THEN 0 ELSE rdKeys[c][j]
        /\ \A d \in Clients : d # c => rdKeys'[d] = rdKeys[d]
    BY <1>1, <1>2, <1>4 DEF Rename
  <2>4. y \in RedisQueue'
    BY <1>2, <2>1, <2>3 DEF RedisQueue
  <2>5. RedisQueue' \subseteq RedisQueue \cup {y}
    <3>1. ASSUME NEW z \in RedisQueue', z \notin RedisQueue PROVE z = y
      <4>1. z \in [client: Clients, pub: Pubs, id: Ids] /\ rdKeys'[z.client][z.id] = z.pub /\ rdKeys[z.client][z.id] # z.pub
        BY <3>1 DEF RedisQueue
      <4>2. z.client = c /\ z.id = new /\ z.pub = p
        BY <2>3, <4>1, NumbersTyped
      <4> QED  BY <4>1, <4>2
    <3> QED  BY <3>1
  <2>6. \A z \in RedisQueue \ RedisQueue' : z.client = c /\ (z.pub = p \/ z.id = new)
    <3>1. ASSUME NEW z \in RedisQueue, z \notin RedisQueue' PROVE z.client = c /\ (z.pub = p \/ z.id = new)
      <4>1. z.client \in Clients /\ z.id \in Ids /\ rdKeys[z.client][z.id] = z.pub /\ rdKeys'[z.client][z.id] # z.pub
        BY <3>1 DEF RedisQueue
      <4> QED  BY <2>3, <4>1
    <3> QED  BY <3>1
  <2> HIDE DEF p
  <2>7. y \in queue' /\ queue' \subseteq queue \cup {y} /\ x \in queue
    BY <2>2, <2>4, <2>5, RedisMaps DEF queue
  <2>8. \A z \in queue \ queue' : z.client = c /\ (z.pub = p \/ z.id = new)
    BY <2>6, RedisMaps DEF queue
  <2>9. Queue!Renames(x, new)
    BY <2>2, <2>7, <2>8 DEF Queue!Renames
  <2>10. new \in Queue!MessageIds
    BY DEF MessageIds, Queue!MessageIds
  <2> HIDE DEF x
  <2> QED  BY <1>1, <2>7, <2>9, <2>10, RedisMaps DEF Queue!Rename
<1> QED  BY <1>3, <1>4

LEMMA RedisPublishMaps ==
    ASSUME RedisSessionTyped, RedisQuiet, NEW p \in Procs, NEW t \in Topics, RedisPublish(p, t)
    PROVE  Queue!Publish
<1> DEFINE M == Match(t, rdMatcher[p])
           P == {[proc |-> p, client |-> k[2], pub |-> pubs + 1] : k \in M}
           C == {k[2] : k \in M}
<1>1. C \in SUBSET Clients
  BY MatchTyped DEF RedisSessionTyped, Index
<1>2. rdParts' = rdParts \cup P /\ pubs' = pubs + 1 /\ UNCHANGED <<rdKeys, due>>
  BY DEF RedisPublish, Owes, rdPackets
<1> HIDE DEF M
<1>3. Named(P) = C \X {pubs + 1}
  <2>1. \A x \in P : x.client \in C /\ x.pub = pubs + 1
    OBVIOUS
  <2>2. \A c \in C : \E x \in P : x.client = c
    <3>1. ASSUME NEW c \in C PROVE \E x \in P : x.client = c
      <4>1. PICK k \in M : c = k[2]
        OBVIOUS
      <4>2. [proc |-> p, client |-> k[2], pub |-> pubs + 1] \in P
        OBVIOUS
      <4> QED  BY <4>1, <4>2
    <3> QED  BY <3>1
  <2> HIDE DEF P, C
  <2> QED  BY <2>1, <2>2, NamedSame
<1>4. Named(rdParts \cup P) = Named(rdParts) \cup Named(P)
  BY DEF Named
<1> HIDE DEF C, P
<1>5. coming' = coming \cup (C \X {pubs + 1})
  BY <1>2, <1>3, <1>4, RedisMaps DEF coming
<1> QED  BY <1>1, <1>2, <1>5, RedisMaps DEF Queue!Publish

LEMMA RedisStoreMaps ==
    ASSUME RedisPacketsTyped, UidsSound, RedisQuiet, NEW x \in rdParts, RedisStorePacket(x)
    PROVE  Queue!Store
<1> DEFINE n == <<x.client, x.pub>>
           y == [client |-> x.client, pub |-> x.pub, id |-> Uid(x.pub)]
<1>0. x.client \in Clients /\ x.pub \in Pubs /\ Uid(x.pub) \in Ids
  BY NumbersTyped DEF RedisPacketsTyped, Pipelines
<1>1. /\ rdKeys' = [rdKeys EXCEPT ![x.client][Uid(x.pub)] = x.pub] /\ rdParts' \subseteq rdParts
      /\ UNCHANGED <<pubs, due>>
  BY DEF RedisStorePacket, Gives
<1>2. n \in coming
  BY DEF coming, Named
<1>3. y = [client |-> n[1], pub |-> n[2], id |-> Queue!Uid(n[2])]
  BY DEF Uid, Queue!Uid
<1>4. RedisQueue' = RedisQueue \cup {y}
  <2>1. rdKeys[x.client][Uid(x.pub)] \in {0, x.pub}
    BY <1>0 DEF UidsSound
  <2>2. /\ rdKeys'[x.client][Uid(x.pub)] = x.pub
        /\ \A c \in Clients, i \in Ids : (c # x.client \/ i # Uid(x.pub)) => rdKeys'[c][i] = rdKeys[c][i]
    BY <1>0, <1>1 DEF RedisPacketsTyped
  <2>3. y \in RedisQueue'
    BY <1>0, <2>2 DEF RedisQueue
  <2>4. ASSUME NEW z \in RedisQueue' PROVE z \in RedisQueue \cup {y}
    <3>1. z \in [client: Clients, pub: Pubs, id: Ids] /\ rdKeys'[z.client][z.id] = z.pub
      BY <2>4 DEF RedisQueue
    <3>2. CASE z.client = x.client /\ z.id = Uid(x.pub)
      BY <2>2, <3>1, <3>2
    <3>3. CASE z.client # x.client \/ z.id # Uid(x.pub)
      BY <2>2, <3>1, <3>3 DEF RedisQueue
    <3> QED  BY <3>2, <3>3
  <2>5. ASSUME NEW z \in RedisQueue PROVE z \in RedisQueue'
    <3>1. z \in [client: Clients, pub: Pubs, id: Ids] /\ rdKeys[z.client][z.id] = z.pub
      BY <2>5 DEF RedisQueue
    <3>2. rdKeys'[z.client][z.id] = z.pub
      BY <2>1, <2>2, <3>1, NumbersTyped
    <3> QED  BY <3>1, <3>2 DEF RedisQueue
  <2> QED  BY <2>3, <2>4, <2>5
<1> HIDE DEF y, n
<1>5. queue' = queue \cup {[client |-> n[1], pub |-> n[2], id |-> Queue!Uid(n[2])]}
  BY <1>3, <1>4, RedisMaps DEF queue
<1> QED  BY <1>1, <1>2, <1>5, RedisMaps DEF Queue!Store

LEMMA RedisImplements ==
    ASSUME CallsTyped, RedisSessionTyped, RedisPacketsTyped, UidsSound, RedisNext, RedisQuiet
    PROVE  Queue!Next \/ UNCHANGED Queue!vars
<1> DEFINE Goal == Queue!Next \/ UNCHANGED Queue!vars
<1> SUFFICES Goal
  OBVIOUS
<1>1. CASE UNCHANGED <<pubs, due, rdKeys, rdParts>>
  BY <1>1, RedisMaps DEF Queue!vars
<1>2. ASSUME NEW p \in Procs, RedisSessionStep(p) PROVE Goal
  BY <1>1, <1>2 DEF RedisSessionStep, RedisStored, RedisMessage, RedisLoaded, RedisClean, RedisStoreSubscriptions,
     Saves, Drops, calls, rdPackets
<1>3. ASSUME NEW c, RedisLapse(c) PROVE Goal
  BY <1>1, <1>3 DEF RedisLapse, Drops, rdPackets
<1>4. ASSUME NEW c, NEW i, RedisStream(c, i) PROVE Goal
  BY <1>1, <1>4 DEF RedisStream, calls
<1>5. ASSUME NEW x, RedisSweep(x) PROVE Goal
  BY <1>1, <1>5 DEF RedisSweep, calls
<1>6. ASSUME NEW p \in Procs, RedisRestart(p) PROVE Goal
  <2>1. rdParts' \subseteq rdParts /\ UNCHANGED <<pubs, due, rdKeys>>
    BY <1>6 DEF RedisRestart, Stops, rdPackets
  <2> QED  BY <2>1, RedisMaps DEF Queue!Next, Queue!Forget
<1>7. ASSUME NEW p \in Procs, RedisCleaned(p) PROVE Goal
  <2> DEFINE c == Head(rdAnswers[p]).client
  <2>1. due' = due \cup Named(Of(c, RedisQueue)) /\ UNCHANGED <<pubs, rdKeys, rdParts>>
    BY <1>7 DEF RedisCleaned
  <2> HIDE DEF c
  <2>2. Named(Of(c, RedisQueue)) \subseteq Queue!Named(queue)
    BY RedisNamed, NamedFacts, NamedParts
  <2> QED  BY <2>1, <2>2, RedisMaps DEF Queue!Next, Queue!Take, Queue!Releases
<1>8. ASSUME NEW c \in Clients, NEW i \in Ids, RedisExpire(c, i) \/ RedisDelete(c, i) PROVE Goal
  BY <1>8, RedisRemoves DEF RedisExpire, RedisDelete, Queue!Next
<1>9. ASSUME NEW c \in Clients, NEW i \in StoredIds(pubs), NEW new \in MessageIds, RedisUpdate(c, i, new) PROVE Goal
  BY <1>9, RedisUpdateMaps DEF Queue!Next
<1>10. ASSUME NEW p \in Procs, NEW t \in Topics, RedisPublish(p, t) PROVE Goal
  BY <1>10, RedisPublishMaps DEF Queue!Next
<1>11. ASSUME NEW x \in rdParts, RedisStorePacket(x) PROVE Goal
  BY <1>11, RedisStoreMaps DEF Queue!Next
<1> HIDE DEF Goal
<1> QED
  BY <1>2, <1>3, <1>4, <1>5, <1>6, <1>7, <1>8, <1>9, <1>10, <1>11, NumbersTyped DEF RedisNext, RedisSessionStep

-----------------------------------------------------------------------------
(* Theorems *)

IInv == TypeOK /\ StreamsSound /\ UidsSound

LEMMA Starts == Init => IInv /\ Queue!Init
<1> SUFFICES ASSUME Init PROVE IInv /\ Queue!Init
  OBVIOUS
<1>1. InitCalls /\ LevelInit /\ RedisInit /\ MongoInit /\ backend \in Backends
  BY DEF Init
<1>2. CallsTyped /\ LevelTyped /\ MongoTyped
  BY <1>1, NumbersTyped DEF InitCalls, LevelInit, MongoInit, CallsTyped, LevelTyped, MongoTyped
<1>3. RedisSessionTyped
  BY <1>1 DEF RedisInit, RedisSessionTyped
<1>4. RedisPacketsTyped
  BY <1>1, NumbersTyped DEF RedisInit, RedisPacketsTyped
<1>5. StreamsSound /\ UidsSound
  BY <1>1, NumbersTyped DEF LevelInit, RedisInit, StreamsSound, UidsSound
<1>6. Queue!Init
  <2>1. RedisQueue = {}
    BY <1>1, NumbersTyped DEF RedisInit, RedisQueue
  <2>2. queue = {} /\ coming = {} /\ taken = {}
    BY <1>1, <2>1 DEF LevelInit, RedisInit, MongoInit, queue, coming, taken, NoSub, Named
  <2> QED  BY <1>1, <2>2 DEF InitCalls, Queue!Init
<1> QED  BY <1>1, <1>2, <1>3, <1>4, <1>5, <1>6, TypesSplit DEF IInv

LEMMA Steps == IInv /\ [Next]_vars => IInv' /\ [Queue!Next]_(Queue!vars)
<1> SUFFICES ASSUME IInv, [Next]_vars PROVE IInv' /\ (Queue!Next \/ UNCHANGED Queue!vars)
  OBVIOUS
<1>0. /\ backend \in Backends /\ CallsTyped /\ LevelTyped /\ RedisSessionTyped /\ RedisPacketsTyped /\ MongoTyped
      /\ StreamsSound /\ UidsSound
  BY TypesSplit DEF IInv
<1>1. UNCHANGED lvVars => LevelTyped' /\ (due \subseteq due' => StreamsSound')
  BY <1>0 DEF lvVars, lvSession, LevelTyped, StreamsSound
<1>2. UNCHANGED rdVars => RedisSessionTyped' /\ RedisPacketsTyped' /\ UidsSound'
  BY <1>0 DEF rdVars, rdSession, rdPackets, RedisSessionTyped, RedisPacketsTyped, UidsSound
<1>3. UNCHANGED mgVars => MongoTyped'
  BY <1>0 DEF mgVars, MongoTyped
<1>4. CASE LevelNext /\ UNCHANGED <<backend, rdVars, mgVars>>
  <2>1. CallsTyped' /\ LevelTyped' /\ StreamsSound'
    BY <1>0, <1>4, LevelTypesKept, StreamsKept DEF StreamsSound
  <2>2. Queue!Next \/ UNCHANGED Queue!vars
    BY <1>0, <1>4, LevelImplements DEF LevelQuiet
  <2> QED  BY <1>0, <1>2, <1>3, <1>4, <2>1, <2>2, TypesSplit DEF IInv
<1>5. CASE RedisNext /\ UNCHANGED <<backend, lvVars, mgVars>>
  <2>1. CallsTyped' /\ RedisSessionTyped' /\ RedisPacketsTyped' /\ UidsSound'
    BY <1>0, <1>5, RedisTypesKept, UidsKept
  <2>2. Queue!Next \/ UNCHANGED Queue!vars
    BY <1>0, <1>5, RedisImplements DEF RedisQuiet
  <2>3. due \subseteq due'
    BY <2>2 DEF Queue!Next, Queue!vars, Queue!Publish, Queue!Store, Queue!Take, Queue!Rename, Queue!Remove,
       Queue!Forget, Queue!Releases
  <2> QED  BY <1>0, <1>1, <1>3, <1>5, <2>1, <2>2, <2>3, TypesSplit DEF IInv
<1>6. CASE MongoNext /\ UNCHANGED <<backend, lvVars, rdVars>>
  <2>1. CallsTyped' /\ MongoTyped'
    BY <1>0, <1>6, MongoTypesKept
  <2>2. Queue!Next \/ UNCHANGED Queue!vars
    BY <1>0, <1>6, MongoImplements DEF MongoQuiet
  <2>3. due \subseteq due'
    BY <2>2 DEF Queue!Next, Queue!vars, Queue!Publish, Queue!Store, Queue!Take, Queue!Rename, Queue!Remove,
       Queue!Forget, Queue!Releases
  <2> QED  BY <1>0, <1>1, <1>2, <1>6, <2>1, <2>2, <2>3, TypesSplit DEF IInv
<1>7. CASE UNCHANGED vars
  <2>1. CallsTyped'
    BY <1>0, <1>7 DEF vars, calls, sessions, CallsTyped
  <2>2. UNCHANGED <<pubs, due, lvVars, rdVars, mgVars, backend>>
    BY <1>7 DEF vars, calls
  <2>3. Queue!Next \/ UNCHANGED Queue!vars
    <3>1. LevelQuiet /\ lvPackets' = lvPackets /\ lvParts' = lvParts /\ lvStreams' = lvStreams
      BY <2>2, OthersKept DEF LevelQuiet
    <3> QED  BY <2>2, <3>1, LevelMaps DEF Queue!vars
  <2> QED  BY <1>0, <1>1, <1>2, <1>3, <2>1, <2>2, <2>3, TypesSplit DEF IInv
<1> QED  BY <1>4, <1>5, <1>6, <1>7 DEF Next

\* The databases, indexes and open work of the persistences keep their types.
THEOREM TypesCorrect == Spec => []TypeOK
<1>1. IInv => TypeOK
  BY DEF IInv
<1>2. IInv /\ [Next]_vars => IInv'
  BY Steps
<1>3. Init => IInv
  BY Starts
<1> QED  BY <1>1, <1>2, <1>3, PTL DEF Spec

\* Every persistence implements OfflineQueue.
THEOREM EachImplements == Spec => QueueImplemented
<1>1. Init => IInv /\ Queue!Init
  BY Starts
<1>2. IInv /\ [Next]_vars => IInv' /\ [Queue!Next]_(Queue!vars)
  BY Steps
<1> QED  BY <1>1, <1>2, PTL DEF Spec, QueueImplemented, Queue!Spec

-----------------------------------------------------------------------------
(* What has left does not come back *)

LEMMA QueueTyped ==
    ASSUME TypeOK
    PROVE  /\ coming \subseteq Clients \X Pubs
           /\ queue \cup taken \subseteq [client: Clients, pub: Pubs, id: Ids]
           /\ pubs \in Nat
<1>0. CallsTyped /\ LevelTyped /\ RedisPacketsTyped /\ MongoTyped
  BY TypesSplit
<1>1. coming \subseteq Clients \X Pubs
  <2>1. /\ \A x \in lvParts : x.client \in Clients /\ x.pub \in Pubs
        /\ \A x \in rdParts : x.client \in Clients /\ x.pub \in Pubs
        /\ \A x \in mgParts : x.client \in Clients /\ x.pub \in Pubs
    BY <1>0 DEF LevelTyped, RedisPacketsTyped, MongoTyped, Parts, Pipelines
  <2> QED  BY <2>1, NamedTyped DEF coming
<1>2. \A S \in SUBSET Copies : NoSub(S) \subseteq [client: Clients, pub: Pubs, id: Ids]
  BY DEF NoSub, Copies
<1>3. queue \subseteq [client: Clients, pub: Pubs, id: Ids]
  <2>1. lvPackets \in SUBSET Copies /\ mgPackets \in SUBSET Copies
    BY <1>0 DEF LevelTyped, MongoTyped
  <2> QED  BY <1>2, <2>1 DEF queue, RedisQueue
<1>4. taken \subseteq [client: Clients, pub: Pubs, id: Ids]
  <2>1. UNION {s.read : s \in lvStreams} \in SUBSET Copies
    BY <1>0 DEF LevelTyped, Streams
  <2> QED  BY <1>2, <2>1 DEF taken
<1> QED  BY <1>0, <1>1, <1>3, <1>4, NumbersTyped DEF CallsTyped

\* A step of the queue stores only what is open work, under a name it has.
LEMMA GoneKept ==
    ASSUME TypeOK, Queue!Next \/ UNCHANGED Queue!vars
    PROVE  Queue!Gone \subseteq (Queue!Gone)'
<1> SUFFICES ASSUME NEW x \in Queue!Gone PROVE x \in (Queue!Gone)'
  OBVIOUS
<1>0. /\ coming \subseteq Clients \X Pubs /\ pubs \in Nat
      /\ queue \cup taken \subseteq [client: Clients, pub: Pubs, id: Ids]
  BY QueueTyped
<1>1. x \in Clients \X (1 .. pubs) /\ x \notin coming /\ \A y \in queue \cup taken : x # <<y.client, y.pub>>
  BY DEF Queue!Gone, Queue!Named
<1>2. ASSUME x \in Clients \X (1 .. pubs'), x \notin coming', \A y \in queue' \cup taken' : x # <<y.client, y.pub>>
      PROVE x \in (Queue!Gone)'
  BY <1>2 DEF Queue!Gone, Queue!Named
<1>3. CASE Queue!Publish
  <2>1. /\ pubs' = pubs + 1 /\ queue' = queue /\ taken' = taken
        /\ \E C \in SUBSET Clients : coming' = coming \cup (C \X {pubs + 1})
    BY <1>3 DEF Queue!Publish
  <2>2. x[2] \in 1 .. pubs /\ x = <<x[1], x[2]>>
    BY <1>1
  <2>3. \A C \in SUBSET Clients : x \notin C \X {pubs + 1}
    BY <1>0, <2>2
  <2>4. x \in Clients \X (1 .. pubs')
    BY <1>0, <1>1, <2>1
  <2> QED  BY <1>1, <1>2, <2>1, <2>3, <2>4
<1>4. CASE Queue!Store
  <2>1. PICK y \in coming : queue' = queue \cup {[client |-> y[1], pub |-> y[2], id |-> Queue!Uid(y[2])]}
    BY <1>4 DEF Queue!Store
  <2>2. y = <<y[1], y[2]>> /\ y # x
    BY <1>0, <1>1
  <2>3. coming' \subseteq coming /\ pubs' = pubs /\ taken' = taken
    BY <1>4 DEF Queue!Store
  <2> QED  BY <1>1, <1>2, <2>1, <2>2, <2>3
<1>5. CASE Queue!Take
  BY <1>1, <1>2, <1>5 DEF Queue!Take
<1>6. CASE Queue!Rename
  <2>1. PICK y \in queue \cup taken, i \in Queue!MessageIds : Queue!Renames(y, i)
    BY <1>6 DEF Queue!Rename
  <2>2. queue' \subseteq queue \cup {[y EXCEPT !.id = i]}
    BY <2>1 DEF Queue!Renames
  <2>3. [y EXCEPT !.id = i].client = y.client /\ [y EXCEPT !.id = i].pub = y.pub
    BY <1>0
  <2>4. taken' \subseteq taken /\ pubs' = pubs /\ coming' = coming
    BY <1>6 DEF Queue!Rename
  <2> QED  BY <1>1, <1>2, <2>2, <2>3, <2>4
<1>7. CASE Queue!Remove
  BY <1>1, <1>2, <1>7 DEF Queue!Remove
<1>8. CASE Queue!Forget
  BY <1>1, <1>2, <1>8 DEF Queue!Forget
<1>9. CASE UNCHANGED Queue!vars
  BY <1>1, <1>2, <1>9 DEF Queue!vars
<1> QED  BY <1>3, <1>4, <1>5, <1>6, <1>7, <1>8, <1>9 DEF Queue!Next

\* In no persistence does a packet come back once it has left and no call
\* under way stores or has read it, whatever ids are used again.
THEOREM NothingComesBack == Spec => GoneForGood
<1>1. Init => IInv
  BY Starts
<1>2. IInv /\ [Next]_vars => IInv' /\ [Queue!Gone \subseteq (Queue!Gone)']_vars
  <2> SUFFICES ASSUME IInv, [Next]_vars PROVE IInv' /\ Queue!Gone \subseteq (Queue!Gone)'
    OBVIOUS
  <2>1. IInv' /\ (Queue!Next \/ UNCHANGED Queue!vars)
    BY Steps
  <2> QED  BY <2>1, GoneKept DEF IInv
<1> QED  BY <1>1, <1>2, PTL DEF Spec, GoneForGood
=============================================================================
