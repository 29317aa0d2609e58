---------------------------- MODULE Subscriptions ----------------------------
(***************************************************************************)
(* The subscriptions of one client: SUBSCRIBE and UNSUBSCRIBE packets of   *)
(* several topics, Client.subscriptions, the handlers that the ascoltatore *)
(* holds, the stored session, and the close that unsubscribes everything   *)
(* (lib/client.js).                                                        *)
(*                                                                         *)
(* authorizeSubscribe and the ascoltatore answer when they like.  The      *)
(* ascoltatore adds or removes a handler in the order it is called; when   *)
(* it fails it changes nothing, which it tells with its answer.            *)
(***************************************************************************)
EXTENDS Integers, FiniteSets

CONSTANTS
    Topics,
    None,           \* undefined
    MaxPackets      \* bound of the model: SUBSCRIBE and UNSUBSCRIBE packets

ASSUME SubscriptionsAssumption ==
    /\ IsFiniteSet(Topics)
    /\ MaxPackets \in Nat
    /\ None \notin {0, 1} \cup [qos: {0, 1}, handler: 0 .. MaxPackets]

\* The maps under way are numbered: a packet has its number, the close has 0.
Packets == 1 .. MaxPackets
Maps == 0 .. MaxPackets

\* The handler of a topic is known by the SUBSCRIBE packet that made it; those
\* of a restored session have number 0.
Entries == [qos: {0, 1}, handler: Maps]

VARIABLES
    clean,      \* Client.clean
    state,      \* _closing and _closed
    entry,      \* Client.subscriptions
    held,       \* the handlers in the ascoltatore
    asks,       \* questions to authorizeSubscribe and to the ascoltatore
    kind,       \* what each packet is
    qos,        \* the QoS that it asks for and is granted
    left,       \* the topics whose part of its steed.map has not called back
    stored,     \* the QoS that the persistence holds for each topic
    orderly,    \* observer: no packet overlapped an UNSUBSCRIBE
    dropped     \* observer: topics last named by an UNSUBSCRIBE, sent on its own

packets == <<kind, qos, left>>
observers == <<orderly, dropped>>
vars == <<clean, state, entry, held, asks, packets, stored, observers>>

Asks == [op: {"authorize", "subscribe", "unsubscribe"}, topic: Topics, map: Maps,
         handler: Maps, ok: BOOLEAN]

Subscribed == {t \in Topics : entry[t] # None}
Waiting == {p \in Packets : left[p] # {}}
Quiet == Waiting = {}

-----------------------------------------------------------------------------
(* Parts of actions *)

\* unsubscribeMapTo, for the topics of T that have an entry in en; the
\* ascoltatore fails for those of F.
Unsubscribes(T, F, en, m) ==
    {[op |-> "unsubscribe", topic |-> t, map |-> m, handler |-> en[t].handler, ok |-> t \notin F] :
        t \in {u \in T : en[u] # None}}
Removed(T, F, en) == {<<t, en[t].handler>> : t \in {u \in T \ F : en[u] # None}}

\* Client.close when the subscriptions are en and the questions are as.
Closed(F, en, as, hd) ==
    IF state # "open"
    THEN /\ asks' = as /\ held' = hd
         /\ UNCHANGED state
    ELSE LET un == Unsubscribes(Topics, F, en, 0) IN
         /\ asks' = as \cup un
         /\ held' = hd \ Removed(Topics, F, en)
         /\ state' = IF un = {} THEN "closed" ELSE "closing"

\* persistClient, in a store that writes the session whole (LevelUp, Redis).
\* Mutant: only the QoS of new topics is written.
PersistNew(en) ==
    stored' = IF clean THEN stored
              ELSE [t \in Topics |-> IF en[t] = None THEN None
                                     ELSE IF stored[t] = None THEN en[t].qos ELSE stored[t]]
Persist(en) ==
    stored' = IF clean THEN stored
              ELSE [t \in Topics |-> IF en[t] = None THEN None ELSE en[t].qos]

\* A packet's part for topic t has called back; the last part ends its map.
Part(p, t, en) ==
    /\ left' = [left EXCEPT ![p] = @ \ {t}]
    /\ IF left[p] = {t} THEN Persist(en) ELSE UNCHANGED stored
    /\ UNCHANGED state

\* The first error ends the map of a packet and closes the client.
Fails(p, F, en, as, hd) ==
    /\ left' = [left EXCEPT ![p] = {}]
    /\ IF left[p] = {}
       THEN asks' = as /\ held' = hd /\ UNCHANGED state
       ELSE Closed(F, en, as, hd)
    /\ UNCHANGED stored

-----------------------------------------------------------------------------
(* Packets *)

\* What the client does with respect to waiting for its acknowledgements.
Observe(k, T) ==
    /\ orderly' = (orderly /\ \A p \in Waiting : k = "subscribe" /\ kind[p] = "subscribe")
    /\ dropped' = IF k = "unsubscribe" /\ Quiet THEN dropped \cup T ELSE dropped \ T

Arrives(p, k, q, T) ==
    /\ state # "closed"
    /\ kind[p] = "none" /\ \A r \in Packets : r < p => kind[r] # "none"
    /\ kind' = [kind EXCEPT ![p] = k]
    /\ qos' = [qos EXCEPT ![p] = q]
    /\ Observe(k, T)
    /\ UNCHANGED <<clean, state>>

\* QoS 2 is granted as QoS 1.  Mutant: it is granted as it is.
AsRequested(q) == q
AtMostOne(q) == IF q = 2 THEN 1 ELSE q

\* A SUBSCRIBE packet: topics with an entry get its QoS and are granted, the
\* others are to be authorized.
Subscribe(p, T, q) ==
    LET en == [t \in Topics |-> IF t \in T /\ entry[t] # None
                                THEN [entry[t] EXCEPT !.qos = AtMostOne(q)] ELSE entry[t]]
        new == T \ Subscribed
    IN
    /\ Arrives(p, "subscribe", AtMostOne(q), T)
    /\ entry' = en
    /\ left' = [left EXCEPT ![p] = new]
    /\ asks' = asks \cup {[op |-> "authorize", topic |-> t, map |-> p, handler |-> p, ok |-> TRUE] :
                             t \in new}
    /\ IF new = {} THEN Persist(en) ELSE UNCHANGED stored
    /\ UNCHANGED held

\* The topics of an UNSUBSCRIBE that do not call back at once.
\* Mutant: a topic without entry never does.
AwaitedAll(T) == T
Awaited(T) == T \cap Subscribed

\* An UNSUBSCRIBE packet; the topics of F fail.
Unsubscribe(p, T, F) ==
    /\ Arrives(p, "unsubscribe", 0, T)
    /\ left' = [left EXCEPT ![p] = Awaited(T)]
    /\ asks' = asks \cup Unsubscribes(T, F, entry, p)
    /\ held' = held \ Removed(T, F, entry)
    /\ IF Awaited(T) = {} THEN Persist(entry) ELSE UNCHANGED stored
    /\ UNCHANGED entry

-----------------------------------------------------------------------------
(* Answers *)

\* authorizeSubscribe fails.
AuthorizeError(a, F) ==
    /\ a \in asks /\ a.op = "authorize"
    /\ Fails(a.map, F, entry, asks \ {a}, held)
    /\ UNCHANGED <<clean, entry, kind, qos, observers>>

\* It denies, or another packet has subscribed the topic meanwhile.
\* Mutant: nobody looks for the entry again.
GrantedBlindly(t, verdict) == ~verdict
Granted(t, verdict) == ~verdict \/ entry[t] # None

AuthorizeDone(a, verdict) ==
    /\ a \in asks /\ a.op = "authorize"
    /\ Granted(a.topic, verdict)
    /\ asks' = asks \ {a}
    /\ Part(a.map, a.topic, entry)
    /\ UNCHANGED <<clean, entry, held, kind, qos, observers>>

\* It accepts a topic without entry: a handler is made and subscribed.
AuthorizeAccept(a, ok) ==
    /\ a \in asks /\ a.op = "authorize"
    /\ ~Granted(a.topic, TRUE)
    /\ entry' = [entry EXCEPT ![a.topic] = [qos |-> qos[a.map], handler |-> a.map]]
    /\ asks' = (asks \ {a}) \cup {[a EXCEPT !.op = "subscribe", !.ok = ok]}
    /\ held' = IF ok THEN held \cup {<<a.topic, a.map>>} ELSE held
    /\ UNCHANGED <<clean, state, packets, stored, observers>>

\* The ascoltatore answers a subscribe; when it failed the entry of the topic
\* is deleted.
SubscribeAnswer(a, F) ==
    LET en == IF a.ok THEN entry ELSE [entry EXCEPT ![a.topic] = None] IN
    /\ a \in asks /\ a.op = "subscribe"
    /\ entry' = en
    /\ IF a.ok
       THEN asks' = asks \ {a} /\ Part(a.map, a.topic, en) /\ UNCHANGED held
       ELSE Fails(a.map, F, en, asks \ {a}, held)
    /\ UNCHANGED <<clean, kind, qos, observers>>

\* Whether an unsubscribe that succeeded deletes the entry of its topic.
\* Mutant: never, as if only the handler mattered.
KeepsEntry == FALSE
Deletes == state = "open" \/ clean

\* The ascoltatore answers an unsubscribe of an UNSUBSCRIBE packet.
UnsubscribeAnswer(a, F) ==
    LET en == IF a.ok /\ Deletes THEN [entry EXCEPT ![a.topic] = None] ELSE entry IN
    /\ a \in asks /\ a.op = "unsubscribe" /\ a.map # 0
    /\ entry' = en
    /\ IF a.ok
       THEN asks' = asks \ {a} /\ Part(a.map, a.topic, en) /\ UNCHANGED held
       ELSE Fails(a.map, F, en, asks \ {a}, held)
    /\ UNCHANGED <<clean, kind, qos, observers>>

\* The first error or the last answer ends the close.
\* Mutant: only the last answer, if it is no error.
ClosedByLast(a) == a.ok /\ \A b \in asks \ {a} : b.map # 0
EndsClose(a) == ~a.ok \/ \A b \in asks \ {a} : b.map # 0

\* It answers an unsubscribe of the close.
CloseAnswer(a) ==
    /\ a \in asks /\ a.op = "unsubscribe" /\ a.map = 0
    /\ asks' = asks \ {a}
    /\ entry' = IF a.ok /\ Deletes THEN [entry EXCEPT ![a.topic] = None] ELSE entry
    /\ state' = IF EndsClose(a) THEN "closed" ELSE state
    /\ UNCHANGED <<clean, held, packets, stored, observers>>

\* The client is closed for a reason that is not here (ClientLifecycle).
Close(F) ==
    /\ state = "open"
    /\ Closed(F, entry, asks, held)
    /\ UNCHANGED <<clean, entry, packets, stored, observers>>

-----------------------------------------------------------------------------
\* A connection without a session, or one whose session has been restored.
Init ==
    /\ clean \in BOOLEAN
    /\ state = "open"
    /\ entry \in {e \in [Topics -> {None} \cup [qos: {0, 1}, handler: {0}]] :
                     clean => \A t \in Topics : e[t] = None}
    /\ held = {<<t, 0>> : t \in Subscribed}
    /\ asks = {}
    /\ kind = [p \in Packets |-> "none"]
    /\ qos = [p \in Packets |-> 0]
    /\ left = [p \in Packets |-> {}]
    /\ stored = [t \in Topics |-> IF entry[t] = None THEN None ELSE entry[t].qos]
    /\ orderly = TRUE
    /\ dropped = {}

Packet ==
    \/ \E p \in Packets, T \in SUBSET Topics \ {{}}, q \in 0 .. 2 : Subscribe(p, T, q)
    \/ \E p \in Packets, T \in SUBSET Topics \ {{}}, F \in SUBSET Topics : Unsubscribe(p, T, F)

Answer ==
    \E a \in asks :
       \/ \E F \in SUBSET Topics :
             AuthorizeError(a, F) \/ SubscribeAnswer(a, F) \/ UnsubscribeAnswer(a, F)
       \/ \E b \in BOOLEAN : AuthorizeDone(a, b) \/ AuthorizeAccept(a, b)
       \/ CloseAnswer(a)

Next == Packet \/ Answer \/ \E F \in SUBSET Topics : Close(F)

Spec == Init /\ [][Next]_vars

\* authorizeSubscribe and the ascoltatore answer; the questions of a client
\* are finite in number, so fairness to all answers together starves none.
FairSpec == Spec /\ WF_vars(Answer)

-----------------------------------------------------------------------------
(* Properties *)

\* The type invariant.
TypeOK ==
    /\ clean \in BOOLEAN
    /\ state \in {"open", "closing", "closed"}
    /\ entry \in [Topics -> {None} \cup Entries]
    /\ held \in SUBSET (Topics \X Maps)
    /\ asks \in SUBSET Asks
    /\ kind \in [Packets -> {"none", "subscribe", "unsubscribe"}]
    /\ qos \in [Packets -> {0, 1}]
    /\ left \in [Packets -> SUBSET Topics]
    /\ stored \in [Topics -> {None, 0, 1}]
    /\ orderly \in BOOLEAN
    /\ dropped \in SUBSET Topics

\* An open client is never deaf: the handler of each of its subscriptions is
\* in the ascoltatore, or an answer will come that deletes the entry or
\* closes the client, however SUBSCRIBEs, UNSUBSCRIBEs and failures overlap.
NoDeafEntry ==
    state = "open" =>
        \A t \in Subscribed :
            \/ <<t, entry[t].handler>> \in held
            \/ \E a \in asks : a.topic = t /\ a.handler = entry[t].handler
                               /\ (a.op = "unsubscribe" \/ ~a.ok)

\* A client that waits for its UNSUBACKs has no handler but those of its
\* subscriptions, so none that doubles its messages or survives an
\* UNSUBSCRIBE, although several SUBSCRIBEs of a topic may be authorized at
\* the same time (the second look at subscriptions in handleAuthorizeSubscribe).
NoStrayHandler ==
    orderly /\ state = "open" =>
        \A x \in held : entry[x[1]] # None /\ entry[x[1]].handler = x[2]

\* When every packet is answered, the session of an open client that is not
\* clean is stored as it is, in whatever order the answers came
\* (persistClient at the end of each packet, a session being one value).
StoredWhenQuiet ==
    state = "open" /\ ~clean /\ Quiet =>
        \A t \in Topics : stored[t] = IF entry[t] = None THEN None ELSE entry[t].qos

\* "should unsubscribe for real": after the UNSUBACK of an UNSUBSCRIBE that
\* the client sent when nothing else was outstanding, no handler is left.
UnsubscribedForReal ==
    state = "open" /\ Quiet => \A x \in held : x[1] \notin dropped

\* Nothing is forgotten: of each topic that a packet waits for, and of a close
\* that has not ended, a question is under way.  Whatever errors end maps and
\* whatever answers come late, only an answer that never comes holds them up.
AnswersAreComing ==
    /\ \A p \in Packets : \A t \in left[p] : \E a \in asks : a.map = p /\ a.topic = t
    /\ state = "closing" => \E a \in asks : a.map = 0

\* Every packet is answered, or the client is closed: no part of a map is
\* forgotten, for unknown, repeated, denied and failing topics.
EveryPacketAnswered ==
    \A p \in Packets : left[p] # {} ~> left[p] = {} \/ state = "closed"

\* A close ends, whatever unsubscribes fail and whatever packets wait.
CloseEnds == state = "closing" ~> state = "closed"
=============================================================================
