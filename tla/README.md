# TLA+ models and proofs for Mosca

Mosca is an MQTT 3.1/3.1.1 broker for Node.js (`lib/`). These modules model its
client and server logic, check it with TLC and prove its main invariants with
TLAPS. Every definition translates the code under `src/lib`; `PROJECT.json`
maps each one to its lines.

## The system

| Part | State | Operations | Talks to |
| --- | --- | --- | --- |
| `Client` (`client.js`), one per connection | `id`, `clean`, `will`, `keepalive`, `subscriptions`, `inflight`, `inflightCounter`, `nextId`, `_lastDedupId`, `_closing`, `_closed`, `timer` | handlers of CONNECT, SUBSCRIBE, UNSUBSCRIBE, PUBLISH, PUBACK, PINGREQ, DISCONNECT, socket close and error; `forward`; `close` | `Server`, its ascoltatore, the socket |
| `Server` (`server.js`) | `clients`, `closed`, `_dedupId` | `publish`, `close`, events `clientConnected`, `clientDisconnected`, `subscribed`, the kick on `$SYS/+/new/clients` | clients, ascoltatore (pub/sub library), persistence |
| `Stats` (`stats.js`) | counters and moving averages | listeners of the events, a 10 s timer that publishes | `Server` |
| `AbstractPersistence` and its LevelUp, memory, Redis and Mongo forms (`persistence/`) | retained packets, subscriptions of persistent clients, a queue of packets per offline client | store, look up, stream, update and delete | replaces the hooks of `Server` (`wire`) |
| Topic patterns and matcher (`persistence/utils.js`, `matcher.js`) | none, and a trie | patterns that can match a topic | persistence |
| `Authorizer`, options, interfaces, CLI, serializers | a table of users; configuration | start-up and pure lookups | `Server` |

Node runs one callback at a time. What makes the broker hard is that nearly
every operation is split over several callbacks (authentication, lookup,
subscribe, unsubscribe, store), that anything can happen between two of them
(another client with the same id, a socket close, a timeout, the close of the
server), and that the pieces share state by reference: `server.clients`,
`client.subscriptions`, the options object of a publication. `PROJECT.json`
lists these hazards with their lines.

What makes each part correct:

- *client lifecycle*: one open client per id; a close that begins ends, runs
  its cleanup once and resumes whoever waits for it; the will goes out exactly
  once, on a loss only; a lost peer is noticed; the statistics count clients;
- *delivery*: every matching client gets a publication, once; the in-flight
  window is neither overrun nor leaked; ids and PUBACKs match;
- *subscriptions*: what is granted, what the ascoltatore holds and what is
  stored agree; nothing is left behind by a close;
- *persistence*: a packet stored for an offline client is delivered, deleted
  when acknowledged and never confused with another; the last retained packet
  wins;
- *patterns*: exactly the patterns that match.

## The modules

| Module | What it is |
| --- | --- |
| `Handover` | the abstract promise of how a client id goes from one connection to another |
| `ClientLifecycle` | handshake, takeover, restore, close, will, server close, connected-client counter |
| `ClientLifecycleProofs` | its theorems |
| `MCClientLifecycle` | its instances |
| `Delivery` | `forward`, de-duplication, message ids, in-flight window, PUBACK |
| `DeliveryProofs` | its theorems |
| `MCDelivery` | its instances |
| `Subscriptions` | SUBSCRIBE and UNSUBSCRIBE of one client against the handlers of the ascoltatore, the stored session and the close |
| `SubscriptionsProofs` | its theorems |
| `OfflineQueue` | the abstract promise of a persistence about the packets of offline clients |
| `StoreCalls` | what the persistences have in common: publications to store, ids, what is observed |
| `LevelStore`, `RedisStore`, `MongoStore` | the persistences, each with its database, its index of subscriptions and its open work |
| `Stores` | the three side by side, the refinement mapping to `OfflineQueue`, the properties of the index |
| `StoresProofs` | that each implements `OfflineQueue`, and that what is gone from it stays gone |
| `StoreIndexProofs` | the theorems about indexes and lists |
| `TopicPatterns` | `topicPatterns` and the matching of `Matcher` |
| `MCStores` | their instances |
| `TopicPatternsProofs` | its theorems: every pattern matches, and which ones are found |
| `Servers` | what the next two share: brokers, connections, how both close |
| `Publishing` | a publication from PUBLISH to PUBACK, storing, retained packets and subscribers, wills, the close of the broker |
| `PublishingProofs` | its theorems |
| `Cluster` | brokers that announce their clients to each other and close each other's |
| `ClusterProofs` | its theorems |
| `MCBrokers` | their instances |

### ClientLifecycle

`phase[c]` is how far `_setup`, `handleConnect` and
`restoreClientSubscriptions` have come for the connection `c`:

    idle -> auth -> [takeover ->] lookup -> [restore ->] live
             `-> refused            `-> failed

`close[c]` is the pair `_closing`, `_closed`. The sets `restoring`,
`subscribing` and `unsubbing` hold what was asked of the ascoltatore and not
answered; each answer, good or bad, is one action (`RestoreCallback`,
`SubscribeCallback`, `UnsubCallback`). `waiter[c]` is the callback given to
`Client.close`: the newcomer of a takeover, or the server. `clients` is the
registry. It is filled when the session is restored (`Announce`), and emptied
by *id* when a client has closed (`Cleanup`), exactly as in the listeners of
`server.js`; that asymmetry is what the violated property `OneOpenPerId` shows.

`CloseEffect(D, S, w, why)` is `Client.close` for a set of clients: its guard,
the branch of a client without subscriptions, which is cleaned up in the same
turn, and the branch that waits for unsubscribes.

Choices: `authorizeSubscribe` answers in the same turn, as its default does.
`steed.map` and `steed.each` are external: the first error, or the last answer,
ends them, and a later answer finds the guard that the code has for it. A close
for any other reason that the client's own packets cause (a denied publish, a
failed UNSUBSCRIBE) is the action `Disconnect`, for their effect is the same.
Subscriptions that expire (ttl) are not modelled. The model ends when the
server emits `closed`.

### Handover

`ClientLifecycle` has every callback of one broker, `Cluster` several brokers
with few of them. What both do about a client id is in `Handover`, which knows
nothing but how far a connection is (`conn`), whose close it waits for
(`awaits`) and the registry: a newcomer closes whom it finds registered under
its key and opens when that close has ended; a connection is registered once,
perhaps after it has closed, in the place of any other; it closes once, and then
its key is deleted, whichever connection has it by then. It does not promise
that one connection per id is open, which is false (`OneOpenPerId`).

In `ClientLifecycle` a connection is `idle` until it is authenticated and
`waiting` in phase `takeover`; after that `close` says how far it is, and `awaits` is read from
`waiter`. In `Cluster` the key is the id together with the broker, `stopping` is
`closing`, and `waits` is taken without those that have closed, since
`completeConnection` is a step of its own there. `HandoverSteps` is about the
steps alone, as its run (`Brokers`) also has initial states of `Publishing`,
where `Cluster` stands still.

### Delivery

The ascoltatore calls the handlers of a publication one after another in one
turn, all with the same options object. `cur` is that loop: the publication,
the stamp `_dedupId` of its options, the handlers still to call (`todo`) and
the handlers whose call was handed on (`handed`). All other actions need `Idle`,
an empty `todo`. `Forward` is the rest of `Client.forward`: the id, the counter
raised before any check, the close at the limit, the `$SYS` rule and the stamp.
`pend` holds the packets that `updateOfflinePacket` or `authorizeForward` has
not answered; `DoForward` and `DoForwardFail` are the answers. `ForwardStored`
is a retained or offline packet, which comes with options of its own and has QoS
2 where `onQoS2publish` left it so: it is counted like a QoS 1, and nothing
answers it.

Choices: the order in which the ascoltatore calls handlers is free. Filters and
topics are model values, with the matching relation a constant. `_closing` and
`_closed` are one state here, as `forward` treats them alike. Each packet is
answered once, though `LevelStore` shows a persistence that finds several copies
under one id.

### Subscriptions

The three modules look at one client from different sides. `ClientLifecycle`
only needs to know which topics are subscribed, `Delivery` takes the
subscriptions as given; this one follows each topic of each packet.
`entry` is `Client.subscriptions`, `held` the handlers that the ascoltatore
has, `stored` the session in the persistence. A packet is a `steed.map` over its
topics: `left[p]` are the topics that have not called back, and `asks` the
questions under way, with the verdict that the ascoltatore has come to. The close
is a map of its own, number 0, over the entries it finds. Every answer is an
action: `AuthorizeError`, `AuthorizeDone` (denied, or subscribed meanwhile),
`AuthorizeAccept`, `SubscribeAnswer`, `UnsubscribeAnswer`, `CloseAnswer`.
`Part` and `Fails` are what `steed.map` makes of an answer: the last one ends
the packet and stores the session, the first error ends it and closes the
client. `orderly` and `dropped` only observe: whether the client waited for its
UNSUBACKs, and which topics it unsubscribed while nothing else was under way.

Choices: the ascoltatore adds and removes handlers in the order it is called
and answers later; one that fails has changed nothing. The topics of a packet
are a set and share one requested QoS. The session is written when the packet
ends, as one write of all of it, which is what LevelUp and Redis are asked for
(`LevelStore` and its neighbours have the writes). Mongo only upserts what the
client has (`mongo.js:193`) and keeps unsubscribed topics, so `StoredWhenQuiet`
is not a statement about Mongo. SUBACK
codes are left out; retained messages are in `Publishing`.

### OfflineQueue and the persistences

`OfflineQueue` says what a client that was offline may rely on, whatever the
database: `queue` is what is stored for it, `coming` and `taken` the work of
calls that have begun and not ended, `due` the packets that may go. A packet is
stored under the unique id of its publication, an update gives it the message id
of a connection, and it leaves only when it was acknowledged, has expired or was
wiped, or when another packet of the client is given the id that it has.
Nothing but open work brings a packet back.

`Stores` has the three persistences in one specification, of which the initial
state chooses one as the configuration does. The mapping is the same for all:
`queue` is what is stored, without the subscription that a copy belongs to;
`coming` the insertions under way; `taken` what the streams have read. For Redis
`queue` is read from the keys (`packets:<client>:<id>`) and not from the list of
ids, because a deletion removes the key and the id in one MULTI, while the list
may name ids whose key has expired.

- `LevelStore`: a read stream sees the database as it was when it began, and the
  puts and deletions that it makes come later, one by one (`lvStreams`,
  `LevelApply`); the matcher is in memory (`lvMatcher`) and is filled again from
  `_subscriptions` (`lvKeys`) by a restart. The memory persistence is the same
  code over another database.
- `RedisStore`: several brokers. A session is read, compared and written by
  an answer (`rdAnswers`) that comes later, and the other brokers learn of it by
  messages (`rdChannel`). A start listens first and then reads all sessions
  (`RedisRestart`, `RedisLoaded`). `rdList[c][i]` is a count, since a list may
  name a key twice.
- `MongoStore`: documents written one by one, found by `topicPatterns` and not by
  a matcher.

`asked`, `owed`, `torn` and `due` (`StoreCalls`) observe: what a client wants,
which packets its session is still to be given, whether storing its session
overlapped with another call or was cut by a crash, and what may go.
`IndexCovers` and `FoundAreServed` are about clients whose storing has come to
rest (`Settled`).

What these leave out is left out of the properties. While `torn`, a session may
be missing in an index, and it must be covered again once it is stored alone;
coverage says nothing of entries too many, such as those of topics that LevelUp
never takes out of its matcher. `OfflineQueue` permits that the packet under an
id that is given again goes. `StoredIsListed` excepts the single keys of
`rdLoose`: those that a clean session left without their list, and one that was
given again while a sweep was taking it out, whose packet the code loses. An id
that is given again otherwise, so that it is listed twice or its packet
overwritten, is not excepted.

Choices: a command of a database is one step and succeeds; its answer comes
later. What follows from one call in a row is one step where nothing but the
answer of a read is between: the get of a session, its deletion and the start of
the stream (`LevelClean`), the get of a session and the put of its packet
(`LevelStorePacket`), the start of the reads of all sessions (`RedisRestart`). Ids are numbers, those of a connection below those of publications.
Expiry (ttl) may happen at any time. A restart loses what was under way and no
data.

### TopicPatterns

`Windows` are the sets of levels that `list` goes through: j levels in a row,
counted around the end. The others become a `+` each (`Plus`, the array `b`) or
a `#` for as many as there are in a row (`Hash`, the array `a`), with topics as
sequences of levels. `TopicMatches` is what the trie of `Matcher` decides: the
levels of the filter end at levels of the topic, one after the other.
`PatternsSound` and `PatternsFind` compare the two over six topics of up to four
levels, with repeated levels among them. Nothing here is recursive, so that it can be
proved for topics of any length.

### Publishing

`stage[n]` is how far publication `n` is:

    auth -> refused | ignored | store -> sent -> routed -> done
                                   `-> dropped (the broker closes)

`left[n]` is the counter of `storePacket` (which parts have not called back; each
does so once),
`reach[n]` the handlers that the ascoltatore had when it took the publication,
`way[b]` the publications that are on their way to broker `b`. A publication is
that of a client, of the application (`Server.publish`, which skips
authorization) or a will, which goes through `handleAuthorizePublish` like a
PUBLISH while its client closes. `sub[c]` is how far the SUBSCRIBE of `c` is:
the handler is in the ascoltatore when it has answered (`held`), the retained
packet is read after that (`looked`) and forwarded later (`done`). `retained` is
the retained packet of the one topic; `puts`, `readAt` and `got` observe the
order in which it was written, how much of that a lookup saw, and what reached
a client.

`AckedIsOut` is about calls back and not about the database: `steed.map` calls
back at the first error, when other puts of LevelUp are still under way, and
Mongo can call back once for each put that fails (`mongo.js:302`), which the
counter does not tell from another part.

`RetainedNoGap` is the reason for that order: whatever is under way when a
client subscribes comes by the handler or by the lookup. The order in which the
two reach the client is not promised, and neither is that it is once only.

### Cluster

A client that is restored is registered and announced on
`$SYS/<broker>/new/clients` (`Announce`); the announcement is stored, routed and
comes to each broker in turn (`inbox`), which closes the client that it has
under this id (`Kick`). `clients` are the registries, whose key is deleted by
the id (`Unregister`), as in `ClientLifecycle`. `past` and `kicked` observe which
announcement had come before a client was announced, and who closed whom.

Both use `Servers`: a client is `idle`, `waiting` (for a takeover), `open`,
`closing` or `stopping` (closed by `Server.close`, which waits for it), `closed`.
A close of a lost connection does not hold up `Server.close`: its callback goes
to whoever called it first.

Choices: the ascoltatori of the brokers share one order of publications, and
each broker takes them in this order and later. In `Cluster` the announcement
is an ordinary publication of QoS undefined, which `storePacket` stores. The
optional announcements of subscriptions and of disconnections are left out, as no
broker listens to them.

## The runs

| Run | Shows |
| --- | --- |
| `Lifecycle` | safety with two connections, one id plus the empty id, one topic; clean clients without will and persistent ones with will and keepalive |
| `LifecycleLive` | a broker implements `Handover`; under fairness every handshake, every close and the close of the server end, and a lost peer with a keepalive is reaped |
| `LifecycleOnePerId` | violated: two open clients with one id |
| `LifecycleStats` | violated: `connectedClients` becomes negative |
| `Delivery` | window, counter and de-duplication with two clients, four subscriptions, two topics |
| `DeliveryOverlap` | violated: overlapping subscriptions, two copies |
| `DeliveryWindow` | violated: closed for a window that is not full |
| `Subscriptions` | entries, handlers and the stored session agree; of whatever is not answered a question is under way; every packet is answered, every close ends; two topics, two packets that overlap and a close |
| `Unsubscribed` | violated: a handler that no UNSUBSCRIBE removes |
| `Stores` | each persistence implements `OfflineQueue`; a packet that is gone does not come back; the index of every broker covers the sessions; found sessions are served; `topicPatterns` is sound and finds what Mongo can be relied on for |
| `OfflinePatterns` | violated: a session subscribed to `#` is not found by the patterns |
| `Brokers` | a PUBACK follows storing and ascoltatore, and none that is owed is left out; no gap between handler and retained packet; every publication ends; two brokers do not keep one id; a later client is not closed for an earlier one; every step about a client id is one of `Handover` |

The violated properties are statements of the repository's own tests and docs;
the findings in `PROJECT.json` quote them.

*Bounds.* Two connections are enough for a takeover, two overlapping handshakes
and a newcomer that meets a slow close; a third connection adds only another
newcomer, and the proofs cover any number. One topic makes a client with and
without subscriptions, which is the distinction `close` makes; that one of
several unsubscribes fails is covered for any number by the proofs of
`ClosingHasPending` and `StatsDrift`. In `Delivery`, `IdRange` = 3 makes ids
wrap while earlier ones are in flight, `MaxInflight` = 3 lets the window fill,
and three publications or stored packets (`MaxPubs`) are enough for both, since
one publication can give a client two packets. In `Subscriptions` two packets
of two topics overlap in every order, each topic denied, failing or accepted,
together with a restored session and a close; `Unsubscribed` needs four packets
of one topic. The proofs cover any number of both. `CHECK_DEADLOCK`
is off: a broker whose connections have all come and gone stops, and so do
the models at their bounds.

`Stores` has one client with two filters that both match, as the calls of
different clients touch different keys (two clients matter only for the topics
of one message, which carries one client); two packets, so that an id can be
given twice (`MaxId` = 1); two brokers at Redis, which are interchangeable
(SYMMETRY; nothing temporal but the refinement is checked, which treats them
alike); and `MaxTurns` = 5 calls, expiries and restarts, of which three are
needed for each of the races that the hazards name. `MaxStreams`, `MaxAnswers`,
`MaxMessages` and `MaxListed` bound the open work.

`Brokers` is one run with two sets of initial states (`view`), which have no
steps in common. In `publishing` one client of one broker subscribes, publishes
and leaves, and with the application and its will there are two publications
(`MaxPubs`), retained ones of QoS 2 that is lowered and deletions of QoS 0; two are enough
for one to overwrite or overtake the other. In `cluster` three connections of one id,
two at one broker, one of them with subscriptions: a takeover, a slow and an
immediate close, and rivals at the other broker.

*Fairness* (`LifecycleLive`). `Answers(c)`: the authenticator, the persistence
and the ascoltatore answer what was asked of them; the broker cannot go on
otherwise, and the callbacks of one connection are finite in number.
`TimesOut(c)`: the keepalive timer of a peer that is gone fires, as no packet
reschedules it. `PeerLeaves(c)`: once `Server.close` has ended its net servers,
peers close in the end; `net.Server.close` waits for them. `ServerFinish`: the
callback of `steed.each`. The peer's own actions have no fairness, and neither
has a SUBSCRIBE answer, on which nothing here depends. `Subscriptions` assumes
`WF_vars(Answer)`: authorizeSubscribe and the ascoltatore answer. One condition
for all answers is enough, as a client's questions are finite in number.
`Brokers` assumes the same of `authorizePublish`, the persistence and the
ascoltatore; nothing is assumed of clients, subscribers or closes.

## The proofs

The proofs hold for every value of the constants that the named assumptions
`LifecycleAssumption`, `DeliveryAssumption`, `SubscriptionsAssumption`,
`ServersAssumption`, `PublishingAssumption`, `StoreAssumption`, `LevelAssumption`,
`RedisAssumption` and `StoresAssumption` allow: any finite set of connections or
clients, any topics, filters and matching, any window, any range of ids, any
number of packets, any brokers.

`ClientLifecycleProofs`. `WillExactlyOnLoss` needs to know that an open client
has no reason to be closed and a closing one has exactly one (`ReasonIffNotOpen`),
and that the flags of a client that is not connected are not looked at
(`EarlyIsOpen`). `TakeoverHasACloser` is not inductive by itself: a second
newcomer must not find the closing client *open* and replace its waiter, and
the registry must hold clients under their own key (`RegistrySound`). These
make up the inductive invariant `IInv`. `StatsDrift` is proved beside it, by
counting: every cleanup and every announcement moves one client between the
sets whose sizes the property subtracts. `NewcomerEvictsRegistered` is an
action property from the same invariant.

`HandoverImplemented` is proved with it too. `Reading` says in one place how the
mapped state reads under `IInv`. Steps of the wire, the will and the timers
change nothing of it (`StutterMapped`); a close that ends deletes its key
(`CleanupMapped`). `CloseMapped` is `Client.close` for any reason but a takeover, of several
clients at once, some of which have subscriptions to wait for;
`AuthAcceptMapped` is the takeover, `UnsubCallbackMapped` the close that ends with an
answer and resumes whoever waited for it, `AnnounceMapped` the registry.

`DeliveryProofs`. The window needs `CounterCoversOutstanding` to be preserved:
the counter is raised with every packet and lowered only for a key that is in
flight, so it covers the keys and the held packets even when ids collide;
`WindowRespected` then follows from the check before each packet. The
de-duplication invariant says that stamps are ordered, that a publication is
stamped when first handed, that only clients it was handed to reach its stamp
while it is being delivered, and that its stamper was handed it once. It
yields `EveryMatchServed` (the only copy is never dropped) and
`FirstReceiverOnce`.

`SubscriptionsProofs`. `NoDeafEntry` could be lost when an answer that would
have corrected an entry finds its map already ended, so the invariant says that
in an open client every question is that of a topic its packet still awaits
(`AsksAwaited`), which in turn needs that a packet has one question per topic
(`AsksUnique`) and that only the close asks as number 0 (`AsksKnown`). From
`AsksAwaited` it follows that every error closes the client (`FailsAsks`), after
which only the questions have to be looked at (`NotOpenKeeps`), and that the last
part of the last packet stores the session (`PartStores`, for `StoredWhenQuiet`).
`NoStrayHandler` holds of a client that waits for its UNSUBACKs because then the
questions of an UNSUBSCRIBE are alone and the handlers they removed stay removed
(`AsksOrderly`); without waiting it is false, as `Unsubscribed` shows.
`AnswersAreComing` is the safety half of `EveryPacketAnswered` and `CloseEnds`: a
topic that a packet waits for has its question, also after another topic of it
failed and its map ended, and a close that has not ended has one of its own. What
is left of those properties to TLC is that questions are answered.

`PublishingProofs`. `AckedIsOut` needs that only a publication in `store` has
parts of `storePacket` left (`LeftInStore`) and that one that begins has a number
no PUBACK has (`Fresh`). `RetainedNoGap` rests on four facts about the two ways a
packet can take. Every write of the retained packet is of a publication that
was accepted, so it is known what is retained after each write (`Writes`); a
lookup finds what was retained at its time and forwards it (`Lookups`); what is
written after the lookup is routed later still, when the subscriber has its
handler (`Reached`); and what is routed to an open connection is on its way until
it is forwarded, as the broker of an open connection is not closing
(`OnTheWay`). What a step leaves alone is stated once (`Frame`, `SubFrame`,
`WayFrame`) and used for all four. `EndedIsAcked`, the safety half of
`PublicationsEnd`, is proved beside them by `Ended`: a publication that is stored
waits for something, and one that was accepted has the QoS 2 no more where it is
to be lowered, so that the callback which compares it with 1 sends the PUBACK. No
broker comes up again, no connection opens and no PUBACK is taken back (`Onward`).

`ClusterProofs`. Two brokers could keep clients of one id only if each had heard
of the other's before it announced its own. `Heard` says that a broker that
knows of a rival of its open client knew it when that client was announced
(a rival that becomes known later closes the client), and `PastOneWay` that
"known before announced" cannot hold both ways, because every client is
announced once and known only after that (`Unannounced`, `Early`, `PastKnown`).
`KickedByRival` follows from the same order and from `Registered`.
For `HandoverSteps` the invariant has `Waited`: a connection waits only for
others that are no longer open. Those never open again (`ShutStays`), so what it
awaits can only shrink, and it opens when nothing is left of it.

`StoresProofs`. Beside the types the refinement needs two facts. An update under
way has an id to give, and what a deletion has read was made due when it began
(`StreamsSound`), so that its last step may remove it. Under a unique id there is
only the packet of its publication (`UidsSound`), so that storing a packet in
Redis overwrites no other. With these each step of a database or of its open
work is mapped to a step of the queue or to none (`LevelImplements`,
`RedisImplements`, `MongoImplements`); a session is none of the queue's business.
`GoneForGood` is proved of the queue and so holds of each persistence
(`NothingComesBack`): only `Store` and `Rename` bring a packet, the one from what
is coming and the other from what is stored or was read (`GoneKept`).

`StoreIndexProofs`. For LevelUp, `LevelCovers` says where a session is while it is
being stored (in the matcher, and in the database or on the way to it) and that
a deletion under way is of a session that is empty or was torn; `LevelServes` adds
that what is owed will be found in the database, or storing it would fail. Mongo is
the same with one place. In Redis a session is, for each broker, in its matcher,
in an answer of a start or in a message that has not reached it (`Reaches`),
unless it is still being stored (`Saving`); and nothing on its way takes from it
(`Harmless`): a message unsubscribes only from what the client had dropped, as
storing a session while anything about it is on its way makes it torn. A start
needs that the key has the session by then (`Kept`). `StoredIsListed` holds
because, but for the keys of `rdLoose`, a sweep is only under way for what is not
held, a packet that is given an id is listed under it with it, and an id that is
still to be stored is neither listed nor swept (`ListSound`); the latter rests on a
publication being stored once for a client (`PartsSound`).

`TopicPatternsProofs`. A filter without `#` matches level by level
(`LevelByLevel`). For one with `#` (`GapByGap`) the end of its j-th level is the
level before the next one that is shown: two neighbours of a listing have
nothing of the shown levels between them (`Neighbours`), and what follows a kept
level is always shown, so a kept level ends where it begins and a `#` ends
no earlier. With that `TopicPatternsMatch` holds for any topic over any set of
levels. `TopicPatternsFind` names the window of each filter that it promises: all
levels but one (`AllButOne`), or the first i (`Prefix`). The properties of the run,
`PatternsSound` and `PatternsFind`, are these two for its topics.

So every safety property that a passing run checks is proved, the refinements
included. Only model-checked are the liveness properties
(`HandshakeResolves`, `CloseCompletes`, `LostPeersAreReaped`,
`ServerCloseCompletes`, `EveryPacketAnswered`, `CloseEnds`, `PublicationsEnd`),
which need fairness and are out of the prover's reach (of three of them the part
without fairness is proved, as said above), and the violated
properties, which are refuted on an instance.

## Not modelled

- `authorizer.js`: a table, a password hash and minimatch, both libraries. Its
  answers are those that the other modules see, in any order, good or bad.
- `options.js`: the rewriting and checking of options at start-up, one conversion
  per key, without state that changes while the broker runs.
- `interfaces.js` (creates network servers), `cli.js`, `serializers.js`, the
  moving averages of `stats.js`: no state that the broker reads, or I/O only.
- SUBACK codes, and the QoS that a handler keeps when a topic is subscribed
  again with another QoS.
- The start of a broker, which is sequential, and errors of the databases
  other than those that the code looks at.

The ascoltatori, steed and the database libraries are outside `src/lib`; they
appear as answers that come in any order, good or bad.

What is left that a model could reach: the session of two clients of one id that
both store it (`Subscriptions` with the persistences), and the number of times
that a persistence calls back (`Delivery` with `LevelStore`).
