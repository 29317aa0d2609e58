----------------------------- MODULE RedisStore -----------------------------
(***************************************************************************)
(* The Redis persistence (lib/persistence/redis.js), shared by several     *)
(* brokers: each has a matcher of its own, which the others keep up to     *)
(* date over a channel.                                                    *)
(*                                                                         *)
(* Redis runs the commands of a connection in their order and answers in   *)
(* that order; MULTI makes several commands one step.  What a broker does  *)
(* with an answer it does when the answer reaches it.                      *)
(***************************************************************************)
EXTENDS StoreCalls, Sequences

CONSTANTS
    MaxListed,      \* bound of the model: times that a key is in a list
    MaxAnswers,     \* bound of the model: answers on the way to a broker
    MaxMessages     \* bound of the model: messages on the way to a broker

ASSUME RedisAssumption == MaxListed \in Nat /\ MaxAnswers \in Nat /\ MaxMessages \in Nat

VARIABLES
    rdSubs,     \* client:sub:<id>
    rdMatcher,  \* _subMatcher of each broker
    rdAnswers,  \* answers of GET on the way to each broker
    rdChannel,  \* messages of the channel on the way to each broker
    rdKeys,     \* packets:<id>:<messageId>, 0 where there is none
    rdList,     \* how often packets:<id> lists each id
    rdParts,    \* pipelines of storeOfflinePacket on their way
    rdSweeps,   \* LREMs of a stream on their way
    rdLoose     \* observer: <<client, id>> whose key a clean session left, or that a
                \* sweep is under way for when it is used again

rdSession == <<rdSubs, rdMatcher, rdAnswers, rdChannel>>
rdPackets == <<rdKeys, rdList, rdSweeps, rdLoose>>
rdVars == <<rdSession, rdPackets, rdParts>>

\* current is what a GET of client:sub:<id> answers.
Answers == [op: {"save", "clean", "load"}, client: Clients, subs: SUBSET Filters, current: SUBSET Filters]
Messages == [client: Clients, subs: SUBSET Filters, unsubs: SUBSET Filters]
Pipelines == [proc: Procs, client: Clients, pub: Pubs]

About(c, q) == \E i \in 1 .. Len(q) : q[i].client = c
Loading(p) == \E i \in 1 .. Len(rdAnswers[p]) : rdAnswers[p][i].op = "load"

\* Nothing about c is on its way to a broker of P.
NothingFor(c, P) == \A p \in P : ~About(c, rdAnswers[p]) /\ ~About(c, rdChannel[p])
RedisSettled(c) == c \notin torn /\ NothingFor(c, Procs)

Listed(c, i) == rdList[c][i] > 0
Holds(c, i) == rdKeys[c][i] # 0

\* The packets that are stored, and those of a client.
RedisQueue ==
    {x \in [client: Clients, pub: Pubs, id: Ids] : rdKeys[x.client][x.id] = x.pub}

-----------------------------------------------------------------------------
(* Subscriptions *)

Asks(p, op, c, F) ==
    /\ Len(rdAnswers[p]) < MaxAnswers /\ ~Loading(p)
    /\ rdAnswers' = [rdAnswers EXCEPT ![p] =
          Append(@, [op |-> op, client |-> c, subs |-> F, current |-> rdSubs[c]])]

\* storeSubscriptions of a client that is not clean: the GET.
RedisStoreSubscriptions(p, c, F) ==
    /\ Asks(p, "save", c, F)
    /\ Saves(c, F, ~NothingFor(c, Procs))
    /\ UNCHANGED <<rdSubs, rdMatcher, rdChannel, rdPackets, rdParts>>

\* updateLocalSub.
UpdateLocalSub(M, c, subs, unsubs) == (M \cup Indexed(c, subs)) \ Indexed(c, unsubs)

\* The answer, and the MULTI that tells the other brokers.
RedisStored(p) ==
    LET a == Head(rdAnswers[p])
        unsubs == a.current \ a.subs
    IN
    /\ rdAnswers[p] # <<>> /\ a.op = "save"
    /\ \A q \in Procs \ {p} : Len(rdChannel[q]) < MaxMessages
    /\ rdAnswers' = [rdAnswers EXCEPT ![p] = Tail(@)]
    /\ rdMatcher' = [rdMatcher EXCEPT ![p] = UpdateLocalSub(@, a.client, a.subs, unsubs)]
    /\ rdSubs' = [rdSubs EXCEPT ![a.client] = a.subs]
    /\ rdChannel' = [q \in Procs |-> IF q = p THEN rdChannel[q]
          ELSE Append(rdChannel[q], [client |-> a.client, subs |-> a.subs, unsubs |-> unsubs])]
    /\ UNCHANGED <<rdPackets, rdParts, calls>>

\* The listener of the channel.
RedisMessage(p) ==
    LET m == Head(rdChannel[p]) IN
    /\ rdChannel[p] # <<>>
    /\ rdChannel' = [rdChannel EXCEPT ![p] = Tail(@)]
    /\ rdMatcher' = [rdMatcher EXCEPT ![p] = UpdateLocalSub(@, m.client, m.subs, m.unsubs)]
    /\ UNCHANGED <<rdSubs, rdAnswers, rdPackets, rdParts, calls>>

\* pexpire of client:sub:<id>: no broker is told.
RedisLapse(c) ==
    /\ rdSubs[c] # {}
    /\ rdSubs' = [rdSubs EXCEPT ![c] = {}]
    /\ Drops(c, Filters)
    /\ UNCHANGED <<rdMatcher, rdAnswers, rdChannel, rdPackets, rdParts, due, owed>>

\* _cleanClient: the GET.
RedisClean(p, c) ==
    /\ Asks(p, "clean", c, {})
    /\ Drops(c, Filters)
    /\ UNCHANGED <<rdSubs, rdMatcher, rdChannel, rdPackets, rdParts, due, owed>>

\* The answer: this broker forgets the topics, and the session and the list
\* of packets are deleted; the packets are left to expire.
RedisCleaned(p) ==
    LET a == Head(rdAnswers[p])
        c == a.client
    IN
    /\ rdAnswers[p] # <<>> /\ a.op = "clean"
    /\ rdAnswers' = [rdAnswers EXCEPT ![p] = Tail(@)]
    /\ rdMatcher' = [rdMatcher EXCEPT ![p] = @ \ Indexed(c, a.current)]
    /\ rdSubs' = [rdSubs EXCEPT ![c] = {}]
    /\ rdList' = [rdList EXCEPT ![c] = [i \in Ids |-> 0]]
    /\ rdLoose' = rdLoose \cup {<<c, i>> : i \in {j \in Ids : Holds(c, j)}}
    /\ due' = due \cup Named(Of(c, RedisQueue))
    /\ UNCHANGED <<rdChannel, rdKeys, rdSweeps, rdParts, pubs, turns, owed, sessions>>

\* A broker starts again: once it listens to the channel it reads the
\* sessions of all clients.
RedisRestart(p) ==
    \E order \in {s \in [1 .. Cardinality(Clients) -> Clients] : \A c \in Clients : \E i \in DOMAIN s : s[i] = c} :
       /\ rdMatcher' = [rdMatcher EXCEPT ![p] = {}]
       /\ rdAnswers' = [rdAnswers EXCEPT ![p] =
             [i \in DOMAIN order |-> [op |-> "load", client |-> order[i], subs |-> rdSubs[order[i]], current |-> {}]]]
       /\ rdChannel' = [rdChannel EXCEPT ![p] = <<>>]
       /\ rdParts' = {x \in rdParts : x.proc # p}
       /\ Stops({c \in Clients : About(c, rdAnswers[p])})
       /\ UNCHANGED <<rdSubs, rdPackets>>

RedisLoaded(p) ==
    LET a == Head(rdAnswers[p]) IN
    /\ rdAnswers[p] # <<>> /\ a.op = "load"
    /\ rdAnswers' = [rdAnswers EXCEPT ![p] = Tail(@)]
    /\ rdMatcher' = [rdMatcher EXCEPT ![p] = UpdateLocalSub(@, a.client, a.subs, {})]
    /\ UNCHANGED <<rdSubs, rdChannel, rdPackets, rdParts, calls>>

-----------------------------------------------------------------------------
(* Packets *)

\* storeOfflinePacket: the matches of the topic in this broker.
RedisPublish(p, t) ==
    /\ ~Loading(p)
    /\ Owes(t, {c \in Clients : RedisSettled(c)})
    /\ rdParts' = rdParts \cup {[proc |-> p, client |-> k[2], pub |-> pubs + 1] :
                                   k \in Match(t, rdMatcher[p])}
    /\ UNCHANGED <<rdSession, rdPackets>>

\* _storePacket: SET and RPUSH.
RedisStorePacket(x) ==
    /\ x \in rdParts
    /\ rdParts' = rdParts \ {x}
    /\ rdKeys' = [rdKeys EXCEPT ![x.client][Uid(x.pub)] = x.pub]
    /\ rdList' = [rdList EXCEPT ![x.client][Uid(x.pub)] = @ + 1]
    /\ Gives(x.client, x.pub)
    /\ UNCHANGED <<rdSession, rdSweeps, rdLoose>>

\* streamOfflinePackets finds that a listed packet has expired.
RedisStream(c, i) ==
    /\ Listed(c, i) /\ ~Holds(c, i)
    /\ rdSweeps' = rdSweeps \cup {<<c, i>>}
    /\ UNCHANGED <<rdSession, rdKeys, rdList, rdLoose, rdParts, calls>>

\* Its LREM of all occurrences.
RedisSweep(x) ==
    /\ x \in rdSweeps
    /\ rdSweeps' = rdSweeps \ {x}
    /\ rdList' = [rdList EXCEPT ![x[1]][x[2]] = 0]
    /\ UNCHANGED <<rdSession, rdKeys, rdLoose, rdParts, calls>>

\* pexpire of a packet.
RedisExpire(c, i) ==
    /\ Holds(c, i)
    /\ rdKeys' = [rdKeys EXCEPT ![c][i] = 0]
    /\ Releases(Under(c, i, RedisQueue))
    /\ UNCHANGED <<rdSession, rdList, rdSweeps, rdLoose, rdParts>>

\* LREM of one occurrence, if there is one.  Mutant: it is counted in any case.
UnlistedBelow(list, i) == [list EXCEPT ![i] = @ - 1]
Unlisted(list, i) == [list EXCEPT ![i] = IF @ = 0 THEN 0 ELSE @ - 1]

\* deleteOfflinePacket: DEL and LREM.
RedisDelete(c, i) ==
    /\ Holds(c, i) \/ Listed(c, i)
    /\ rdKeys' = [rdKeys EXCEPT ![c][i] = 0]
    /\ rdList' = [rdList EXCEPT ![c] = Unlisted(@, i)]
    /\ Releases(Under(c, i, RedisQueue))
    /\ UNCHANGED <<rdSession, rdSweeps, rdLoose, rdParts>>

\* RENAME, which fails when the old key is missing and overwrites the new one.
\* Mutant: SET of the packet, which the caller has.
RenameSets(keys, old, new) ==
    [i \in Ids |-> IF i = new THEN IF keys[old] = 0 /\ old \notin MessageIds THEN old - MaxId ELSE keys[old]
                   ELSE IF i = old THEN 0 ELSE keys[i]]
Rename(keys, old, new) ==
    IF keys[old] = 0 THEN keys
    ELSE [i \in Ids |-> IF i = new THEN keys[old] ELSE IF i = old THEN 0 ELSE keys[i]]

\* The list after LREM of the old key and RPUSH of the new one.
\* Mutant: without the RPUSH.
RelistedNot(list, old, new) == Unlisted(list, old)
Relisted(list, old, new) == [Unlisted(list, old) EXCEPT ![new] = @ + 1]

\* updateOfflinePacket: RENAME, LREM and RPUSH, whether or not the old key is
\* there.  The broker updates a new packet once it is stored.
RedisUpdate(c, old, new) ==
    /\ \A x \in rdParts : x.client = c => old # Uid(x.pub)
    /\ Relisted(rdList[c], old, new)[new] <= MaxListed
    /\ rdKeys' = [rdKeys EXCEPT ![c] = Rename(@, old, new)]
    /\ rdList' = [rdList EXCEPT ![c] = Relisted(@, old, new)]
    /\ rdLoose' = IF <<c, new>> \in rdSweeps THEN rdLoose \cup {<<c, new>>} ELSE rdLoose \ {<<c, new>>}
    /\ Releases({})
    /\ UNCHANGED <<rdSession, rdSweeps, rdParts>>

-----------------------------------------------------------------------------
RedisInit ==
    /\ rdSubs = [c \in Clients |-> {}]
    /\ rdMatcher = [p \in Procs |-> {}]
    /\ rdAnswers = [p \in Procs |-> <<>>]
    /\ rdChannel = [p \in Procs |-> <<>>]
    /\ rdKeys = [c \in Clients |-> [i \in Ids |-> 0]]
    /\ rdList = [c \in Clients |-> [i \in Ids |-> 0]]
    /\ rdParts = {} /\ rdSweeps = {} /\ rdLoose = {}

RedisNext ==
    \/ \E p \in Procs :
          \/ RedisStored(p) \/ RedisMessage(p) \/ RedisCleaned(p)
          \/ RedisRestart(p) \/ RedisLoaded(p)
          \/ \E t \in Topics : RedisPublish(p, t)
          \/ \E c \in Clients : RedisClean(p, c)
          \/ \E c \in Clients, F \in SUBSET Filters : RedisStoreSubscriptions(p, c, F)
    \/ \E c \in Clients :
          \/ RedisLapse(c)
          \/ \E i \in Ids : RedisStream(c, i) \/ RedisExpire(c, i)
          \/ \E i \in MessageIds : RedisDelete(c, i)
          \/ \E i \in StoredIds(pubs), new \in MessageIds : RedisUpdate(c, i, new)
    \/ \E x \in rdParts : RedisStorePacket(x)
    \/ \E x \in rdSweeps : RedisSweep(x)
=============================================================================
