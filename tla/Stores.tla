------------------------------- MODULE Stores -------------------------------
(***************************************************************************)
(* The persistences side by side, what they promise alike, and the proof   *)
(* obligation that each implements OfflineQueue.  A broker is configured   *)
(* with one of them, which the initial state chooses.                      *)
(***************************************************************************)
EXTENDS LevelStore, RedisStore, MongoStore

CONSTANT Backends

ASSUME StoresAssumption == Backends \subseteq {"level", "redis", "mongo"}

VARIABLE backend    \* the factory that the broker was configured with

vars == <<backend, calls, lvVars, rdVars, mgVars>>

Init ==
    /\ backend \in Backends
    /\ InitCalls /\ LevelInit /\ RedisInit /\ MongoInit

Next ==
    \/ backend = "level" /\ LevelNext /\ UNCHANGED <<backend, rdVars, mgVars>>
    \/ backend = "redis" /\ RedisNext /\ UNCHANGED <<backend, lvVars, mgVars>>
    \/ backend = "mongo" /\ MongoNext /\ UNCHANGED <<backend, lvVars, rdVars>>

Spec == Init /\ [][Next]_vars

-----------------------------------------------------------------------------
(* The refinement mapping *)

NoSub(S) == {[client |-> x.client, pub |-> x.pub, id |-> x.id] : x \in S}

queue == NoSub(lvPackets) \cup RedisQueue \cup NoSub(mgPackets)
coming == Named(lvParts) \cup Named(rdParts) \cup Named(mgParts)
taken == NoSub(UNION {s.read : s \in lvStreams})

Queue == INSTANCE OfflineQueue WITH
    Clients <- Clients, MaxPubs <- MaxPubs, MaxId <- MaxId,
    pubs <- pubs, queue <- queue, coming <- coming, taken <- taken, due <- due

-----------------------------------------------------------------------------
(* Properties *)

\* The type invariant.
TypeOK ==
    /\ backend \in Backends
    /\ pubs \in 0 .. MaxPubs
    /\ turns \in 0 .. MaxTurns
    /\ due \in SUBSET (Clients \X Pubs)
    /\ owed \in SUBSET [client: Clients, pub: Pubs, sub: Filters, topic: Topics]
    /\ asked \in [Clients -> SUBSET Filters]
    /\ torn \in SUBSET Clients
    /\ lvSubs \in [Clients -> SUBSET Filters] /\ lvLapsed \in SUBSET Clients
    /\ lvKeys \in SUBSET Index /\ lvMatcher \in SUBSET Index /\ lvWrites \in SUBSET Index
    /\ lvPackets \in SUBSET Copies /\ lvParts \in SUBSET Parts
    /\ lvStreams \in SUBSET Streams
    /\ rdSubs \in [Clients -> SUBSET Filters]
    /\ rdMatcher \in [Procs -> SUBSET Index]
    /\ rdAnswers \in [Procs -> Seq(Answers)] /\ rdChannel \in [Procs -> Seq(Messages)]
    /\ rdKeys \in [Clients -> [Ids -> 0 .. MaxPubs]]
    /\ rdList \in [Clients -> [Ids -> Nat]]
    /\ rdParts \in SUBSET Pipelines
    /\ rdSweeps \in SUBSET (Clients \X Ids) /\ rdLoose \in SUBSET (Clients \X Ids)
    /\ mgSubs \in SUBSET Index /\ mgWrites \in SUBSET Index
    /\ mgPackets \in SUBSET Copies /\ mgParts \in SUBSET Parts
    /\ mgWipes \in SUBSET (Clients \X {"subscriptions", "packets"})

\* Each persistence implements OfflineQueue: whatever is read before and
\* written after other calls, a packet that left does not come back unless a
\* call that had begun brings it, and none leaves but those that were
\* acknowledged, expired or wiped, or whose id was given again.
QueueImplemented == Queue!Spec

\* What was acknowledged, has expired or was overwritten does not come back: a
\* client is never sent a packet again that has left the database and that no
\* call under way stores or has read, whatever ids are used again.
GoneForGood == [][Queue!Gone \subseteq (Queue!Gone)']_vars

Settled(c) ==
    CASE backend = "level" -> LevelSettled(c)
      [] backend = "redis" -> RedisSettled(c)
      [] backend = "mongo" -> MongoSettled(c)

\* Every place where a publication looks for subscriptions: one per broker.
Indexes ==
    CASE backend = "level" -> {lvMatcher \cap lvKeys}
      [] backend = "redis" -> {rdMatcher[p] : p \in {q \in Procs : ~Loading(q)}}
      [] backend = "mongo" -> {mgSubs}

\* Once the storing of its subscriptions has come to rest, a client has them
\* in the index of every broker, after restarts, expiry and messages between
\* brokers: what was unsubscribed meanwhile never takes a newer one with it.
IndexCovers ==
    \A c \in Clients : Settled(c) =>
        \A I \in Indexes : Indexed(c, asked[c]) \subseteq I

Pending(c, p) == \E x \in lvParts \cup rdParts \cup mgParts : x.client = c /\ x.pub = p

\* A publication is stored for each settled session that the persistence
\* finds for its topic, or a step to store it is still to come.
FoundAreServed ==
    \A x \in owed :
        (backend = "mongo" => <<x.topic, x.sub>> \in Patterns) =>
            Pending(x.client, x.pub)

\* "Generate the possible patterns that might match a topic": a publication
\* is stored for each settled session with a subscription that matches.
MatchesAreServed ==
    \A x \in owed : Pending(x.client, x.pub)

\* Redis keeps the packets of a client and the list of their ids apart: what
\* is stored is listed, so that the client is sent it, also under an id that
\* was listed twice, overwritten or missed by its update.  Not if a clean session
\* left the key, or the id is used again while a sweep removes it (rdLoose).
StoredIsListed ==
    backend = "redis" =>
        \A c \in Clients, i \in Ids : Holds(c, i) /\ <<c, i>> \notin rdLoose => Listed(c, i)
=============================================================================
