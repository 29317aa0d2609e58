------------------------- MODULE SubscriptionsProofs -------------------------
(***************************************************************************)
(* Proofs about Subscriptions, for every set of topics and every number of *)
(* packets: the type invariant, and what an open client knows of its       *)
(* handlers and of its stored session.                                     *)
(***************************************************************************)
EXTENDS Subscriptions, TLAPS

-----------------------------------------------------------------------------
(* The inductive invariant *)

\* What is asked, and on whose behalf: the handler of a SUBSCRIBE is known by
\* its packet, the close of the client only unsubscribes.
AsksKnown ==
    \A a \in asks :
       /\ a.op = "authorize" => a.ok
       /\ a.op # "unsubscribe" => a.map # 0 /\ a.handler = a.map
       /\ a.map # 0 => kind[a.map] = IF a.op = "unsubscribe" THEN "unsubscribe" ELSE "subscribe"

\* While the client is open, every question is that of a packet whose part for
\* that topic has not called back.
AsksAwaited ==
    state = "open" => \A a \in asks : a.map # 0 /\ a.topic \in left[a.map]

\* A packet has one question under way for each topic.
AsksUnique ==
    \A a, b \in asks : a.map # 0 /\ a.map = b.map /\ a.topic = b.topic => a = b

\* A client that waits for its UNSUBACKs has the questions of an UNSUBSCRIBE
\* alone, and the handlers it unsubscribes are gone.
AsksOrderly ==
    orderly /\ state = "open" =>
        \A a \in asks : a.op = "unsubscribe" =>
           /\ \A b \in asks : b.map = a.map
           /\ a.ok => \A x \in held : x[1] # a.topic

AsksOK == AsksKnown /\ AsksAwaited /\ AsksUnique

\* What holds of an open client.
OpenOK == AsksOrderly /\ NoDeafEntry /\ NoStrayHandler /\ StoredWhenQuiet

IInv == TypeOK /\ AsksOK /\ OpenOK

Tables == [Topics -> {None} \cup Entries]
Questions == SUBSET Asks
Handlers == SUBSET (Topics \X Maps)

-----------------------------------------------------------------------------
(* Types *)

\* The unsubscribes of unsubscribeMapTo are questions.
LEMMA UnsubscribesTyped ==
    ASSUME NEW T \in SUBSET Topics, NEW F, NEW en \in Tables, NEW m \in Maps
    PROVE  Unsubscribes(T, F, en, m) \in Questions
<1> SUFFICES ASSUME NEW t \in T, en[t] # None
    PROVE [op |-> "unsubscribe", topic |-> t, map |-> m, handler |-> en[t].handler,
           ok |-> t \notin F] \in Asks
  BY DEF Unsubscribes, Questions
<1>1. en[t] \in Entries
  BY DEF Tables
<1>2. en[t].handler \in Maps
  BY <1>1 DEF Entries
<1> QED
  BY <1>2 DEF Asks

\* Client.close leaves questions, handlers and a state of the client.
LEMMA ClosedTyped ==
    ASSUME TypeOK, NEW F, NEW en \in Tables, NEW as \in Questions, NEW hd \in Handlers,
           Closed(F, en, as, hd)
    PROVE  asks' \in Questions /\ held' \in Handlers /\ state' \in {"open", "closing", "closed"}
<1>1. CASE state # "open"
  BY <1>1 DEF Closed, TypeOK
<1>2. CASE state = "open"
  <2>1. Unsubscribes(Topics, F, en, 0) \in Questions
    BY UnsubscribesTyped, SubscriptionsAssumption DEF Maps
  <2>2. asks' = as \cup Unsubscribes(Topics, F, en, 0) /\ held' = hd \ Removed(Topics, F, en)
    BY <1>2 DEF Closed
  <2>3. state' \in {"closed", "closing"}
    BY <1>2 DEF Closed
  <2> QED
    BY <2>1, <2>2, <2>3 DEF Questions, Handlers
<1> QED
  BY <1>1, <1>2

\* So does the error of a map.
LEMMA FailsTyped ==
    ASSUME TypeOK, NEW p \in Packets, NEW F, NEW en \in Tables, NEW as \in Questions,
           NEW hd \in Handlers, Fails(p, F, en, as, hd)
    PROVE  /\ asks' \in Questions /\ held' \in Handlers /\ state' \in {"open", "closing", "closed"}
           /\ left' \in [Packets -> SUBSET Topics] /\ stored' \in [Topics -> {None, 0, 1}]
<1>1. left' \in [Packets -> SUBSET Topics] /\ stored' \in [Topics -> {None, 0, 1}]
  BY DEF Fails, TypeOK
<1>2. asks' \in Questions /\ held' \in Handlers /\ state' \in {"open", "closing", "closed"}
  <2>1. CASE left[p] = {}
    BY <2>1 DEF Fails, TypeOK
  <2>2. CASE left[p] # {}
    <3>1. Closed(F, en, as, hd)
      BY <2>2 DEF Fails
    <3> QED
      BY <3>1, ClosedTyped
  <2> QED
    BY <2>1, <2>2
<1> QED
  BY <1>1, <1>2

\* persistClient stores QoS values.
LEMMA PersistTyped ==
    ASSUME TypeOK, NEW en \in Tables, Persist(en)
    PROVE  stored' \in [Topics -> {None, 0, 1}]
<1>1. \A t \in Topics : en[t] # None => en[t].qos \in {0, 1}
  BY DEF Tables, Entries
<1> QED
  BY <1>1 DEF Persist, TypeOK

\* The end of a packet's part leaves parts, a state and QoS values.
LEMMA PartTyped ==
    ASSUME TypeOK, NEW p \in Packets, NEW t, NEW en \in Tables, Part(p, t, en)
    PROVE  /\ left' \in [Packets -> SUBSET Topics] /\ stored' \in [Topics -> {None, 0, 1}]
           /\ state' \in {"open", "closing", "closed"}
<1>1. left' \in [Packets -> SUBSET Topics] /\ state' \in {"open", "closing", "closed"}
  BY DEF Part, TypeOK
<1>2. stored' \in [Topics -> {None, 0, 1}]
  BY PersistTyped DEF Part, TypeOK
<1> QED
  BY <1>1, <1>2

\* A packet's arrival keeps the types of what it assigns.
LEMMA ArrivesTyped ==
    ASSUME TypeOK, NEW p \in Packets, NEW k \in {"subscribe", "unsubscribe"}, NEW q \in {0, 1},
           NEW T \in SUBSET Topics, Arrives(p, k, q, T)
    PROVE  /\ kind' \in [Packets -> {"none", "subscribe", "unsubscribe"}]
           /\ qos' \in [Packets -> {0, 1}]
           /\ orderly' \in BOOLEAN /\ dropped' \in SUBSET Topics
           /\ clean' \in BOOLEAN /\ state' \in {"open", "closing", "closed"}
<1>1. orderly' \in BOOLEAN
  BY DEF Arrives, Observe
<1>2. dropped' \in SUBSET Topics
  BY DEF Arrives, Observe, TypeOK
<1> QED
  BY <1>1, <1>2 DEF Arrives, TypeOK

\* The tables that the actions write are tables.
LEMMA TablesWritten ==
    ASSUME TypeOK
    PROVE  /\ entry \in Tables
           /\ \A t \in Topics : [entry EXCEPT ![t] = None] \in Tables
           /\ \A t \in Topics, q \in {0, 1}, p \in Packets :
                 [entry EXCEPT ![t] = [qos |-> q, handler |-> p]] \in Tables
           /\ \A T \in SUBSET Topics, q \in {0, 1} :
                 [t \in Topics |-> IF t \in T /\ entry[t] # None
                                   THEN [entry[t] EXCEPT !.qos = q] ELSE entry[t]] \in Tables
<1>1. entry \in Tables
  BY DEF TypeOK, Tables
<1>2. \A t \in Topics : [entry EXCEPT ![t] = None] \in Tables
  BY <1>1 DEF Tables
<1>3. ASSUME NEW t \in Topics, NEW q \in {0, 1}, NEW p \in Packets
      PROVE [entry EXCEPT ![t] = [qos |-> q, handler |-> p]] \in Tables
  <2>1. [qos |-> q, handler |-> p] \in Entries
    BY SubscriptionsAssumption DEF Entries, Packets, Maps
  <2> QED
    BY <1>1, <2>1 DEF Tables
<1>4. ASSUME NEW T \in SUBSET Topics, NEW q \in {0, 1}
      PROVE [t \in Topics |-> IF t \in T /\ entry[t] # None
                              THEN [entry[t] EXCEPT !.qos = q] ELSE entry[t]] \in Tables
  <2>1. \A t \in Topics : entry[t] # None => [entry[t] EXCEPT !.qos = q] \in Entries
    BY <1>1 DEF Tables, Entries
  <2> QED
    BY <1>1, <2>1 DEF Tables
<1> QED
  BY <1>1, <1>2, <1>3, <1>4

\* A question that an action takes from asks is one.
LEMMA AskTyped ==
    ASSUME TypeOK, NEW a \in asks
    PROVE  /\ a.topic \in Topics /\ a.handler \in Maps /\ a.ok \in BOOLEAN
           /\ a.map \in Maps /\ (a.map # 0 => a.map \in Packets)
           /\ asks \in Questions /\ asks \ {a} \in Questions /\ held \in Handlers
<1>1. a \in Asks /\ asks \in Questions /\ asks \ {a} \in Questions /\ held \in Handlers
  BY DEF TypeOK, Questions, Handlers
<1>2. a.topic \in Topics /\ a.handler \in Maps /\ a.ok \in BOOLEAN /\ a.map \in Maps
  BY <1>1 DEF Asks
<1>3. a.map # 0 => a.map \in Packets
  BY <1>2, SubscriptionsAssumption DEF Maps, Packets
<1> QED
  BY <1>1, <1>2, <1>3

LEMMA PacketsAreMaps == Packets \subseteq Maps /\ 0 \in Maps /\ 0 \notin Packets
  BY SubscriptionsAssumption DEF Packets, Maps

\* Every action preserves the type invariant.
LEMMA SubscribeTyped ==
    ASSUME TypeOK, NEW p \in Packets, NEW T \in SUBSET Topics, NEW q \in 0 .. 2,
           Subscribe(p, T, q)
    PROVE  TypeOK'
<1> DEFINE en == [t \in Topics |-> IF t \in T /\ entry[t] # None
                                   THEN [entry[t] EXCEPT !.qos = AtMostOne(q)] ELSE entry[t]]
           new == T \ Subscribed
           au == {[op |-> "authorize", topic |-> t, map |-> p, handler |-> p, ok |-> TRUE] : t \in new}
<1>1. AtMostOne(q) \in {0, 1}
  BY DEF AtMostOne
<1>2. en \in Tables
  BY <1>1, TablesWritten
<1>3. Arrives(p, "subscribe", AtMostOne(q), T)
  BY DEF Subscribe
<1>4. /\ kind' \in [Packets -> {"none", "subscribe", "unsubscribe"}]
      /\ qos' \in [Packets -> {0, 1}]
      /\ orderly' \in BOOLEAN /\ dropped' \in SUBSET Topics
      /\ clean' \in BOOLEAN /\ state' \in {"open", "closing", "closed"}
  BY <1>1, <1>3, ArrivesTyped
<1>5. entry' \in [Topics -> {None} \cup Entries]
  BY <1>2 DEF Subscribe, Tables
<1>6. asks' \in SUBSET Asks
  <2>1. au \in SUBSET Asks
    <3> SUFFICES ASSUME NEW t \in new
        PROVE [op |-> "authorize", topic |-> t, map |-> p, handler |-> p, ok |-> TRUE] \in Asks
      OBVIOUS
    <3>1. p \in Maps /\ t \in Topics
      BY PacketsAreMaps
    <3> QED
      BY <3>1 DEF Asks
  <2>2. asks' = asks \cup au
    BY DEF Subscribe
  <2> QED
    BY <2>1, <2>2 DEF TypeOK
<1>7. held' \in SUBSET (Topics \X Maps)
  BY DEF Subscribe, TypeOK
<1>8. left' \in [Packets -> SUBSET Topics]
  BY DEF Subscribe, TypeOK
<1>9. stored' \in [Topics -> {None, 0, 1}]
  <2>1. Persist(en) \/ stored' = stored
    BY DEF Subscribe
  <2>2. CASE Persist(en)
    BY <1>2, <2>2, PersistTyped
  <2>3. CASE stored' = stored
    BY <2>3 DEF TypeOK
  <2> QED
    BY <2>1, <2>2, <2>3
<1> QED
  BY <1>4, <1>5, <1>6, <1>7, <1>8, <1>9 DEF TypeOK

LEMMA UnsubscribeTyped ==
    ASSUME TypeOK, NEW p \in Packets, NEW T \in SUBSET Topics, NEW F, Unsubscribe(p, T, F)
    PROVE  TypeOK'
<1>1. /\ kind' \in [Packets -> {"none", "subscribe", "unsubscribe"}]
      /\ qos' \in [Packets -> {0, 1}]
      /\ orderly' \in BOOLEAN /\ dropped' \in SUBSET Topics
      /\ clean' \in BOOLEAN /\ state' \in {"open", "closing", "closed"}
  <2>1. Arrives(p, "unsubscribe", 0, T)
    BY DEF Unsubscribe
  <2> QED
    BY <2>1, ArrivesTyped
<1>2. entry' \in [Topics -> {None} \cup Entries]
  BY DEF Unsubscribe, TypeOK
<1>3. asks' \in SUBSET Asks
  <2>1. entry \in Tables /\ p \in Maps
    BY TablesWritten, PacketsAreMaps
  <2>2. Unsubscribes(T, F, entry, p) \in Questions
    BY <2>1, UnsubscribesTyped
  <2> QED
    BY <2>2 DEF Unsubscribe, TypeOK, Questions
<1>4. held' \in SUBSET (Topics \X Maps)
  BY DEF Unsubscribe, TypeOK
<1>5. left' \in [Packets -> SUBSET Topics]
  BY DEF Unsubscribe, TypeOK, Awaited
<1>6. stored' \in [Topics -> {None, 0, 1}]
  <2>1. Persist(entry) \/ stored' = stored
    BY DEF Unsubscribe
  <2>2. CASE Persist(entry)
    BY <2>2, PersistTyped, TablesWritten
  <2>3. CASE stored' = stored
    BY <2>3 DEF TypeOK
  <2> QED
    BY <2>1, <2>2, <2>3
<1> QED
  BY <1>1, <1>2, <1>3, <1>4, <1>5, <1>6 DEF TypeOK

\* The map of a question that the close did not ask is a packet.
LEMMA AskOfPacket ==
    ASSUME TypeOK, AsksKnown, NEW a \in asks
    PROVE  a.op # "unsubscribe" \/ a.map # 0 => a.map \in Packets
BY AskTyped DEF AsksKnown

LEMMA AuthorizeErrorTyped ==
    ASSUME TypeOK, AsksKnown, NEW a \in asks, NEW F, AuthorizeError(a, F)
    PROVE  TypeOK'
<1>1. a.map \in Packets
  BY AskOfPacket DEF AuthorizeError
<1>2. Fails(a.map, F, entry, asks \ {a}, held)
  BY DEF AuthorizeError
<1>3. /\ asks' \in Questions /\ held' \in Handlers /\ state' \in {"open", "closing", "closed"}
      /\ left' \in [Packets -> SUBSET Topics] /\ stored' \in [Topics -> {None, 0, 1}]
  <2>1. entry \in Tables /\ asks \ {a} \in Questions /\ held \in Handlers
    BY AskTyped, TablesWritten
  <2> QED
    BY <1>1, <1>2, <2>1, FailsTyped
<1> QED
  BY <1>3 DEF AuthorizeError, observers, TypeOK, Questions, Handlers

LEMMA AuthorizeDoneTyped ==
    ASSUME TypeOK, AsksKnown, NEW a \in asks, NEW verdict, AuthorizeDone(a, verdict)
    PROVE  TypeOK'
<1>1. a.map \in Packets
  BY AskOfPacket DEF AuthorizeDone
<1>2. Part(a.map, a.topic, entry)
  BY DEF AuthorizeDone
<1>3. /\ left' \in [Packets -> SUBSET Topics] /\ stored' \in [Topics -> {None, 0, 1}]
      /\ state' \in {"open", "closing", "closed"}
  BY <1>1, <1>2, PartTyped, TablesWritten
<1> QED
  BY <1>3 DEF AuthorizeDone, observers, TypeOK

LEMMA AuthorizeAcceptTyped ==
    ASSUME TypeOK, AsksKnown, NEW a \in asks, NEW ok \in BOOLEAN, AuthorizeAccept(a, ok)
    PROVE  TypeOK'
<1>1. a.map \in Packets /\ a.topic \in Topics /\ a.map \in Maps
  BY AskOfPacket, AskTyped DEF AuthorizeAccept
<1>2. entry' \in [Topics -> {None} \cup Entries]
  <2>1. qos[a.map] \in {0, 1}
    BY <1>1 DEF TypeOK
  <2>2. [entry EXCEPT ![a.topic] = [qos |-> qos[a.map], handler |-> a.map]] \in Tables
    BY <1>1, <2>1, TablesWritten
  <2> QED
    BY <2>2 DEF AuthorizeAccept, Tables
<1>3. asks' \in SUBSET Asks
  <2>1. [a EXCEPT !.op = "subscribe", !.ok = ok] \in Asks
    BY DEF TypeOK, Asks
  <2> QED
    BY <2>1 DEF AuthorizeAccept, TypeOK
<1>4. held' \in SUBSET (Topics \X Maps)
  BY <1>1 DEF AuthorizeAccept, TypeOK
<1> QED
  BY <1>2, <1>3, <1>4 DEF AuthorizeAccept, packets, observers, TypeOK

LEMMA SubscribeAnswerTyped ==
    ASSUME TypeOK, AsksKnown, NEW a \in asks, NEW F, SubscribeAnswer(a, F)
    PROVE  TypeOK'
<1> DEFINE en == IF a.ok THEN entry ELSE [entry EXCEPT ![a.topic] = None]
<1>1. a.map \in Packets /\ a.topic \in Topics
  BY AskOfPacket, AskTyped DEF SubscribeAnswer
<1>2. en \in Tables /\ entry' = en
  BY <1>1, TablesWritten DEF SubscribeAnswer
<1>3. /\ asks' \in Questions /\ held' \in Handlers /\ state' \in {"open", "closing", "closed"}
      /\ left' \in [Packets -> SUBSET Topics] /\ stored' \in [Topics -> {None, 0, 1}]
  <2>1. CASE a.ok
    <3>1. Part(a.map, a.topic, en) /\ asks' = asks \ {a} /\ held' = held
      BY <2>1 DEF SubscribeAnswer
    <3> HIDE DEF en
    <3> QED
      BY <1>1, <1>2, <3>1, PartTyped, AskTyped
  <2>2. CASE ~a.ok
    <3>1. Fails(a.map, F, en, asks \ {a}, held)
      BY <2>2 DEF SubscribeAnswer
    <3> HIDE DEF en
    <3> QED
      BY <1>1, <1>2, <3>1, FailsTyped, AskTyped
  <2> QED
    BY <2>1, <2>2
<1>4. UNCHANGED <<clean, kind, qos, observers>>
  BY DEF SubscribeAnswer
<1> HIDE DEF en
<1> QED
  BY <1>2, <1>3, <1>4 DEF observers, TypeOK, Questions, Handlers, Tables

LEMMA UnsubscribeAnswerTyped ==
    ASSUME TypeOK, AsksKnown, NEW a \in asks, NEW F, UnsubscribeAnswer(a, F)
    PROVE  TypeOK'
<1> DEFINE en == IF a.ok /\ Deletes THEN [entry EXCEPT ![a.topic] = None] ELSE entry
<1>1. a.map \in Packets /\ a.topic \in Topics
  BY AskOfPacket, AskTyped DEF UnsubscribeAnswer
<1>2. en \in Tables /\ entry' = en
  BY <1>1, TablesWritten DEF UnsubscribeAnswer
<1>3. /\ asks' \in Questions /\ held' \in Handlers /\ state' \in {"open", "closing", "closed"}
      /\ left' \in [Packets -> SUBSET Topics] /\ stored' \in [Topics -> {None, 0, 1}]
  <2>1. CASE a.ok
    <3>1. Part(a.map, a.topic, en) /\ asks' = asks \ {a} /\ held' = held
      BY <2>1 DEF UnsubscribeAnswer
    <3> HIDE DEF en
    <3> QED
      BY <1>1, <1>2, <3>1, PartTyped, AskTyped
  <2>2. CASE ~a.ok
    <3>1. Fails(a.map, F, en, asks \ {a}, held)
      BY <2>2 DEF UnsubscribeAnswer
    <3> HIDE DEF en
    <3> QED
      BY <1>1, <1>2, <3>1, FailsTyped, AskTyped
  <2> QED
    BY <2>1, <2>2
<1>4. UNCHANGED <<clean, kind, qos, observers>>
  BY DEF UnsubscribeAnswer
<1> HIDE DEF en
<1> QED
  BY <1>2, <1>3, <1>4 DEF observers, TypeOK, Questions, Handlers, Tables

LEMMA CloseAnswerTyped ==
    ASSUME TypeOK, NEW a \in asks, CloseAnswer(a)
    PROVE  TypeOK'
<1>1. a.topic \in Topics
  BY AskTyped
<1>2. entry' \in Tables
  BY <1>1, TablesWritten DEF CloseAnswer
<1>3. state' \in {"open", "closing", "closed"}
  BY DEF CloseAnswer, TypeOK
<1>4. asks' \in SUBSET Asks
  BY DEF CloseAnswer, TypeOK
<1> QED
  BY <1>2, <1>3, <1>4 DEF CloseAnswer, packets, observers, TypeOK, Tables

LEMMA CloseTyped ==
    ASSUME TypeOK, NEW F, Close(F)
    PROVE  TypeOK'
<1>1. asks' \in Questions /\ held' \in Handlers /\ state' \in {"open", "closing", "closed"}
  <2>1. entry \in Tables /\ asks \in Questions /\ held \in Handlers
    BY DEF TypeOK, Tables, Questions, Handlers
  <2>2. Closed(F, entry, asks, held)
    BY DEF Close
  <2> QED
    BY <2>1, <2>2, ClosedTyped
<1> QED
  BY <1>1 DEF Close, packets, observers, TypeOK, Questions, Handlers

-----------------------------------------------------------------------------
(* Questions *)

\* The questions of a close.
OfClose(b) == b.op = "unsubscribe" /\ b.map = 0

LEMMA ClosedAsks ==
    ASSUME NEW F, NEW en, NEW as, NEW hd, Closed(F, en, as, hd)
    PROVE  /\ \A b \in asks' : b \in as \/ OfClose(b)
           /\ state' # "open"
<1>1. \A b \in Unsubscribes(Topics, F, en, 0) : OfClose(b)
  BY DEF Unsubscribes, OfClose
<1>2. CASE state = "open"
  <2>1. asks' = as \cup Unsubscribes(Topics, F, en, 0) /\ state' \in {"closed", "closing"}
    BY <1>2 DEF Closed
  <2> QED
    BY <1>1, <2>1
<1>3. CASE state # "open"
  BY <1>3 DEF Closed
<1> QED
  BY <1>2, <1>3

\* The error of a map always leaves a client that is not open.
LEMMA FailsAsks ==
    ASSUME AsksAwaited, NEW a \in asks, NEW F, NEW en, NEW as, NEW hd,
           Fails(a.map, F, en, as, hd)
    PROVE  /\ \A b \in asks' : b \in as \/ OfClose(b)
           /\ state' # "open"
<1>1. CASE left[a.map] = {}
  BY <1>1 DEF Fails, AsksAwaited
<1>2. CASE left[a.map] # {}
  <2>1. Closed(F, en, as, hd)
    BY <1>2 DEF Fails
  <2> QED
    BY <2>1, ClosedAsks
<1> QED
  BY <1>1, <1>2

\* A step that leaves the client closing or closed, with no question but those
\* it had and those of the close, preserves the invariant.
LEMMA NotOpenKeeps ==
    ASSUME AsksOK, state' # "open", kind' = kind, \A b \in asks' : b \in asks \/ OfClose(b)
    PROVE  AsksOK' /\ OpenOK'
<1>1. AsksKnown'
  BY DEF AsksOK, AsksKnown, OfClose
<1>2. AsksAwaited'
  BY DEF AsksAwaited
<1>3. AsksUnique'
  BY DEF AsksOK, AsksUnique, OfClose
<1>4. OpenOK'
  BY DEF OpenOK, AsksOrderly, NoDeafEntry, NoStrayHandler, StoredWhenQuiet
<1> QED
  BY <1>1, <1>2, <1>3, <1>4 DEF AsksOK

\* The end of a packet's part takes its only question about the topic.
LEMMA PartKeepsAsks ==
    ASSUME TypeOK, AsksOK, NEW a \in asks, a.map \in Packets, NEW en,
           asks' = asks \ {a}, Part(a.map, a.topic, en), kind' = kind
    PROVE  AsksOK'
<1>1. AsksKnown'
  BY DEF AsksOK, AsksKnown
<1>2. AsksUnique'
  BY DEF AsksOK, AsksUnique
<1>3. AsksAwaited'
  <2> SUFFICES ASSUME state = "open", NEW b \in asks, b # a
      PROVE b.map # 0 /\ b.topic \in left'[b.map]
    BY DEF AsksAwaited, Part
  <2>1. b.map # 0 /\ b.topic \in left[b.map]
    BY DEF AsksOK, AsksAwaited
  <2>2. b.map \in Packets
    BY <2>1, AskTyped
  <2>3. b.map # a.map \/ b.topic # a.topic
    BY <2>1 DEF AsksOK, AsksUnique
  <2>4. left'[b.map] = IF b.map = a.map THEN left[b.map] \ {a.topic} ELSE left[b.map]
    BY <2>2 DEF Part, TypeOK
  <2> QED
    BY <2>1, <2>3, <2>4
<1> QED
  BY <1>1, <1>2, <1>3 DEF AsksOK

\* If it is the last part of all packets, the session is stored.
LEMMA PartStores ==
    ASSUME TypeOK, AsksOK, NEW a \in asks, a.map \in Packets, NEW en \in Tables,
           Part(a.map, a.topic, en), entry' = en, clean' = clean
    PROVE  StoredWhenQuiet'
<1> SUFFICES ASSUME state = "open", ~clean, Quiet', NEW t \in Topics
    PROVE stored'[t] = IF en[t] = None THEN None ELSE en[t].qos
  BY DEF StoredWhenQuiet, Part
<1>1. a.topic \in left[a.map]
  BY DEF AsksOK, AsksAwaited
<1>2. left'[a.map] = {}
  BY DEF Quiet, Waiting
<1>3. left'[a.map] = left[a.map] \ {a.topic}
  BY DEF Part, TypeOK
<1>4. left[a.map] = {a.topic}
  BY <1>1, <1>2, <1>3
<1>5. Persist(en)
  BY <1>4 DEF Part
<1> QED
  BY <1>5 DEF Persist

\* A step that only takes questions keeps those of an orderly client.
LEMMA FewerAsksOrderly ==
    ASSUME AsksOrderly, asks' \subseteq asks, UNCHANGED <<held, state, orderly>>
    PROVE  AsksOrderly'
BY DEF AsksOrderly

-----------------------------------------------------------------------------
(* The answers *)

LEMMA AuthorizeErrorKeeps ==
    ASSUME IInv, NEW a \in asks, NEW F, AuthorizeError(a, F)
    PROVE  AsksOK' /\ OpenOK'
<1>1. Fails(a.map, F, entry, asks \ {a}, held) /\ kind' = kind
  BY DEF AuthorizeError
<1>2. (\A b \in asks' : b \in asks \ {a} \/ OfClose(b)) /\ state' # "open"
  BY <1>1, FailsAsks DEF IInv, AsksOK
<1> QED
  BY <1>1, <1>2, NotOpenKeeps DEF IInv

LEMMA AuthorizeDoneKeeps ==
    ASSUME IInv, NEW a \in asks, NEW verdict, AuthorizeDone(a, verdict)
    PROVE  AsksOK' /\ OpenOK'
<1>1. /\ a.op = "authorize" /\ asks' = asks \ {a} /\ Part(a.map, a.topic, entry)
      /\ UNCHANGED <<clean, entry, held, kind, qos, state, orderly>>
  BY DEF AuthorizeDone, Part, observers
<1>2. a.map \in Packets
  BY <1>1, AskOfPacket DEF IInv, AsksOK
<1>3. AsksOK'
  BY <1>1, <1>2, PartKeepsAsks DEF IInv
<1>4. AsksOrderly'
  BY <1>1, FewerAsksOrderly DEF IInv, OpenOK
<1>5. NoDeafEntry'
  <2>1. a.op # "unsubscribe" /\ a.ok
    BY <1>1 DEF IInv, AsksOK, AsksKnown
  <2>2. \A t \in Topics : entry'[t] = entry[t]
    BY <1>1
  <2> QED
    BY <1>1, <2>1, <2>2 DEF IInv, OpenOK, NoDeafEntry, Subscribed
<1>6. NoStrayHandler'
  BY <1>1 DEF IInv, OpenOK, NoStrayHandler
<1>7. StoredWhenQuiet'
  <2>1. entry \in Tables
    BY TablesWritten DEF IInv
  <2> QED
    BY <1>1, <1>2, <2>1, PartStores DEF IInv
<1> QED
  BY <1>3, <1>4, <1>5, <1>6, <1>7 DEF OpenOK

LEMMA AuthorizeAcceptKeeps ==
    ASSUME IInv, NEW a \in asks, NEW ok \in BOOLEAN, AuthorizeAccept(a, ok)
    PROVE  AsksOK' /\ OpenOK'
<1> DEFINE n == [a EXCEPT !.op = "subscribe", !.ok = ok]
<1>1. /\ a.op = "authorize" /\ entry[a.topic] = None
      /\ asks' = (asks \ {a}) \cup {n}
      /\ held' = IF ok THEN held \cup {<<a.topic, a.map>>} ELSE held
      /\ UNCHANGED <<clean, state, kind, left, stored, orderly>>
  BY DEF AuthorizeAccept, Granted, packets, observers
<1>2. a.map \in Packets /\ a.topic \in Topics /\ a.map # 0 /\ a.handler = a.map
  <2>1. a.map \in Packets /\ a.topic \in Topics
    BY <1>1, AskOfPacket, AskTyped DEF IInv, AsksOK
  <2> QED
    BY <1>1, <2>1 DEF IInv, AsksOK, AsksKnown
<1>3. /\ n.op = "subscribe" /\ n.ok = ok
      /\ n.map = a.map /\ n.topic = a.topic /\ n.handler = a.map
  <2>1. a \in Asks
    BY DEF IInv, TypeOK
  <2> QED
    BY <1>2, <2>1 DEF Asks
<1>4. /\ entry'[a.topic] = [qos |-> qos[a.map], handler |-> a.map]
      /\ \A t \in Topics \ {a.topic} : entry'[t] = entry[t]
  BY <1>2 DEF AuthorizeAccept, IInv, TypeOK
<1>5. entry'[a.topic] # None /\ entry'[a.topic].handler = a.map
  <2>1. qos[a.map] \in {0, 1} /\ a.map \in 0 .. MaxPackets
    BY <1>2, AskTyped DEF IInv, TypeOK, Maps
  <2>2. [qos |-> qos[a.map], handler |-> a.map] \in [qos: {0, 1}, handler: 0 .. MaxPackets]
    BY <2>1
  <2> QED
    BY <1>4, <2>2, SubscriptionsAssumption
<1> HIDE DEF n
<1>6. AsksOK'
  <2>1. AsksKnown'
    BY <1>1, <1>2, <1>3 DEF IInv, AsksOK, AsksKnown
  <2>2. AsksAwaited'
    BY <1>1, <1>2, <1>3 DEF IInv, AsksOK, AsksAwaited
  <2>3. AsksUnique'
    BY <1>1, <1>2, <1>3 DEF IInv, AsksOK, AsksUnique
  <2> QED
    BY <2>1, <2>2, <2>3 DEF AsksOK
<1>7. CASE state # "open"
  BY <1>1, <1>7, <1>6 DEF OpenOK, AsksOrderly, NoDeafEntry, NoStrayHandler, StoredWhenQuiet
<1>8. CASE state = "open"
  <2>1. ASSUME orderly, NEW u \in asks, u.op = "unsubscribe"
        PROVE FALSE
    <3>1. u.map # 0 /\ u.map = a.map
      BY <1>8, <2>1 DEF IInv, AsksOK, AsksAwaited, OpenOK, AsksOrderly
    <3>2. kind[u.map] = "unsubscribe" /\ kind[a.map] = "subscribe"
      BY <1>1, <1>2, <2>1, <3>1 DEF IInv, AsksOK, AsksKnown
    <3> QED
      BY <3>1, <3>2
  <2>2. AsksOrderly'
    BY <1>1, <1>3, <2>1 DEF AsksOrderly
  <2>3. NoDeafEntry'
    <3> SUFFICES ASSUME NEW t \in Topics, entry'[t] # None
        PROVE \/ <<t, entry'[t].handler>> \in held'
              \/ \E b \in asks' : b.topic = t /\ b.handler = entry'[t].handler
                                  /\ (b.op = "unsubscribe" \/ ~b.ok)
      BY DEF NoDeafEntry, Subscribed
    <3>1. CASE t = a.topic
      BY <1>1, <1>3, <1>5, <3>1
    <3>2. CASE t # a.topic
      <4>1. entry[t] = entry'[t]
        BY <1>4, <3>2
      <4>2. \/ <<t, entry[t].handler>> \in held
            \/ \E b \in asks : b.topic = t /\ b.handler = entry[t].handler
                               /\ (b.op = "unsubscribe" \/ ~b.ok)
        BY <1>8, <4>1 DEF IInv, OpenOK, NoDeafEntry, Subscribed
      <4> QED
        BY <1>1, <3>2, <4>1, <4>2
    <3> QED
      BY <3>1, <3>2
  <2>4. NoStrayHandler'
    <3> SUFFICES ASSUME orderly, NEW x \in held'
        PROVE entry'[x[1]] # None /\ entry'[x[1]].handler = x[2]
      BY <1>1 DEF NoStrayHandler
    <3>1. CASE x \in held
      <4>1. entry[x[1]] # None /\ entry[x[1]].handler = x[2] /\ x[1] \in Topics
        BY <1>8, <3>1 DEF IInv, TypeOK, OpenOK, NoStrayHandler
      <4> QED
        BY <1>1, <1>4, <4>1
    <3>2. CASE x = <<a.topic, a.map>>
      BY <1>5, <3>2
    <3> QED
      BY <1>1, <3>1, <3>2
  <2>5. StoredWhenQuiet'
    <3>1. a.topic \in left'[a.map]
      BY <1>1, <1>8 DEF IInv, AsksOK, AsksAwaited
    <3> QED
      BY <1>2, <3>1 DEF StoredWhenQuiet, Quiet, Waiting
  <2> QED
    BY <1>6, <2>2, <2>3, <2>4, <2>5 DEF OpenOK
<1> QED
  BY <1>7, <1>8

LEMMA SubscribeAnswerKeeps ==
    ASSUME IInv, NEW a \in asks, NEW F, SubscribeAnswer(a, F)
    PROVE  AsksOK' /\ OpenOK'
<1>1. CASE ~a.ok
  <2>1. Fails(a.map, F, [entry EXCEPT ![a.topic] = None], asks \ {a}, held) /\ kind' = kind
    BY <1>1 DEF SubscribeAnswer
  <2>2. (\A b \in asks' : b \in asks \ {a} \/ OfClose(b)) /\ state' # "open"
    BY <2>1, FailsAsks DEF IInv, AsksOK
  <2> QED
    BY <2>1, <2>2, NotOpenKeeps DEF IInv
<1>2. CASE a.ok
  <2>1. /\ a.op = "subscribe" /\ asks' = asks \ {a} /\ Part(a.map, a.topic, entry)
        /\ UNCHANGED <<clean, entry, held, kind, qos, state, orderly>>
    BY <1>2 DEF SubscribeAnswer, Part, observers
  <2>2. a.map \in Packets
    BY <2>1, AskOfPacket DEF IInv, AsksOK
  <2>3. AsksOK'
    BY <2>1, <2>2, PartKeepsAsks DEF IInv
  <2>4. AsksOrderly'
    BY <2>1, FewerAsksOrderly DEF IInv, OpenOK
  <2>5. NoDeafEntry'
    <3>1. \A t \in Topics : entry'[t] = entry[t]
      BY <2>1
    <3> QED
      BY <1>2, <2>1, <3>1 DEF IInv, OpenOK, NoDeafEntry, Subscribed
  <2>6. NoStrayHandler'
    BY <2>1 DEF IInv, OpenOK, NoStrayHandler
  <2>7. StoredWhenQuiet'
    <3>1. entry \in Tables
      BY TablesWritten DEF IInv
    <3> QED
      BY <2>1, <2>2, <3>1, PartStores DEF IInv
  <2> QED
    BY <2>3, <2>4, <2>5, <2>6, <2>7 DEF OpenOK
<1> QED
  BY <1>1, <1>2 DEF IInv

LEMMA UnsubscribeAnswerKeeps ==
    ASSUME IInv, NEW a \in asks, NEW F, UnsubscribeAnswer(a, F)
    PROVE  AsksOK' /\ OpenOK'
<1> DEFINE en == IF a.ok /\ Deletes THEN [entry EXCEPT ![a.topic] = None] ELSE entry
<1>1. CASE ~a.ok
  <2>1. Fails(a.map, F, en, asks \ {a}, held) /\ kind' = kind
    BY <1>1 DEF UnsubscribeAnswer
  <2>2. (\A b \in asks' : b \in asks \ {a} \/ OfClose(b)) /\ state' # "open"
    BY <2>1, FailsAsks DEF IInv, AsksOK
  <2> QED
    BY <2>1, <2>2, NotOpenKeeps DEF IInv
<1>2. CASE a.ok /\ state # "open"
  <2>1. asks' = asks \ {a} /\ kind' = kind /\ state' = state
    BY <1>2 DEF UnsubscribeAnswer, Part
  <2> QED
    BY <1>2, <2>1, NotOpenKeeps DEF IInv
<1>3. CASE a.ok /\ state = "open"
  <2>1. /\ a.op = "unsubscribe" /\ a.map # 0 /\ asks' = asks \ {a}
        /\ Part(a.map, a.topic, en)
        /\ UNCHANGED <<clean, held, kind, qos, state, orderly>>
    BY <1>3 DEF UnsubscribeAnswer, Part, observers
  <2>2. en = [entry EXCEPT ![a.topic] = None] /\ entry' = en
    BY <1>3 DEF UnsubscribeAnswer, Deletes
  <2>3. a.map \in Packets /\ a.topic \in Topics
    BY <2>1, AskOfPacket, AskTyped DEF IInv, AsksOK
  <2>4. en \in Tables
    BY <2>2, <2>3, TablesWritten DEF IInv
  <2>5. entry'[a.topic] = None /\ \A t \in Topics \ {a.topic} : entry'[t] = entry[t]
    BY <2>2, <2>3 DEF IInv, TypeOK
  <2> HIDE DEF en
  <2>6. AsksOK'
    BY <2>1, <2>3, PartKeepsAsks DEF IInv
  <2>7. AsksOrderly'
    BY <2>1, FewerAsksOrderly DEF IInv, OpenOK
  <2>8. NoDeafEntry'
    BY <1>3, <2>1, <2>5 DEF IInv, OpenOK, NoDeafEntry, Subscribed
  <2>9. NoStrayHandler'
    <3> SUFFICES ASSUME orderly, NEW x \in held
        PROVE entry'[x[1]] # None /\ entry'[x[1]].handler = x[2]
      BY <2>1 DEF NoStrayHandler
    <3>1. x[1] # a.topic
      BY <1>3, <2>1 DEF IInv, OpenOK, AsksOrderly
    <3>2. entry[x[1]] # None /\ entry[x[1]].handler = x[2] /\ x[1] \in Topics
      BY <1>3 DEF IInv, TypeOK, OpenOK, NoStrayHandler
    <3> QED
      BY <2>5, <3>1, <3>2
  <2>10. StoredWhenQuiet'
    BY <2>1, <2>2, <2>3, <2>4, PartStores DEF IInv
  <2> QED
    BY <2>6, <2>7, <2>8, <2>9, <2>10 DEF OpenOK
<1> QED
  BY <1>1, <1>2, <1>3

LEMMA CloseAnswerKeeps ==
    ASSUME IInv, NEW a \in asks, CloseAnswer(a)
    PROVE  AsksOK' /\ OpenOK'
<1>1. state # "open"
  BY DEF CloseAnswer, IInv, AsksOK, AsksAwaited
<1>2. asks' = asks \ {a} /\ kind' = kind /\ state' # "open"
  BY <1>1 DEF CloseAnswer, packets
<1> QED
  BY <1>2, NotOpenKeeps DEF IInv

LEMMA CloseKeeps ==
    ASSUME IInv, NEW F, Close(F)
    PROVE  AsksOK' /\ OpenOK'
<1>1. Closed(F, entry, asks, held) /\ kind' = kind
  BY DEF Close, packets
<1>2. (\A b \in asks' : b \in asks \/ OfClose(b)) /\ state' # "open"
  BY <1>1, ClosedAsks
<1> QED
  BY <1>1, <1>2, NotOpenKeeps DEF IInv

-----------------------------------------------------------------------------
(* The packets *)

\* A packet that arrives has no question yet and nothing of it is awaited by
\* one; an orderly client sends it when no UNSUBSCRIBE is under way.
LEMMA ArrivalFresh ==
    ASSUME IInv, NEW p \in Packets, NEW k \in {"subscribe", "unsubscribe"}, NEW q, NEW T,
           Arrives(p, k, q, T)
    PROVE  /\ \A b \in asks : b.map # p
           /\ kind' = [kind EXCEPT ![p] = k]
           /\ p # 0
           /\ orderly' => orderly
           /\ orderly' /\ state = "open" =>
                 \A b \in asks : k = "subscribe" /\ b.op # "unsubscribe"
<1>1. kind[p] = "none" /\ kind' = [kind EXCEPT ![p] = k] /\ p # 0
  BY PacketsAreMaps DEF Arrives
<1>2. \A b \in asks : b.map # p
  BY <1>1 DEF IInv, AsksOK, AsksKnown
<1>3. orderly' => orderly /\ \A r \in Waiting : k = "subscribe" /\ kind[r] = "subscribe"
  BY DEF Arrives, Observe
<1>4. ASSUME orderly', state = "open", NEW b \in asks
      PROVE k = "subscribe" /\ b.op # "unsubscribe"
  <2>1. b.map # 0 /\ b.topic \in left[b.map]
    BY <1>4 DEF IInv, AsksOK, AsksAwaited
  <2>2. b.map \in Waiting
    BY <2>1, AskTyped DEF IInv, Waiting
  <2>3. k = "subscribe" /\ kind[b.map] = "subscribe"
    BY <1>3, <1>4, <2>2
  <2> QED
    BY <2>1, <2>3 DEF IInv, AsksOK, AsksKnown
<1> QED
  BY <1>1, <1>2, <1>3, <1>4

\* Questions N about the awaited topics L of a packet that arrives.
AsksOf(p, k, L, N) ==
    /\ \A n \in N : /\ n.map = p /\ n.topic \in L
                    /\ k = "subscribe" => n.op = "authorize" /\ n.ok /\ n.handler = p
                    /\ k = "unsubscribe" => n.op = "unsubscribe"
    /\ \A n, o \in N : n.topic = o.topic => n = o

LEMMA ArrivalKeepsAsks ==
    ASSUME IInv, NEW p \in Packets, NEW k \in {"subscribe", "unsubscribe"}, NEW q, NEW T,
           Arrives(p, k, q, T), NEW N, NEW L, asks' = asks \cup N,
           left' = [left EXCEPT ![p] = L], AsksOf(p, k, L, N)
    PROVE  AsksOK'
<1>1. (\A b \in asks : b.map # p) /\ kind' = [kind EXCEPT ![p] = k] /\ p # 0
  BY ArrivalFresh
<1>2. \A r \in Packets : kind'[r] = IF r = p THEN k ELSE kind[r]
  BY <1>1 DEF IInv, TypeOK
<1>3. \A r \in Packets : left'[r] = IF r = p THEN L ELSE left[r]
  BY DEF IInv, TypeOK
<1>4. \A b \in asks : b.map # 0 => b.map \in Packets
  BY AskTyped DEF IInv
<1>5. state' = state
  BY DEF Arrives
<1>6. AsksKnown'
  BY <1>1, <1>2, <1>4 DEF AsksOf, IInv, AsksOK, AsksKnown
<1>7. AsksAwaited'
  BY <1>1, <1>3, <1>4, <1>5 DEF AsksOf, IInv, AsksOK, AsksAwaited
<1>8. AsksUnique'
  BY <1>1 DEF AsksOf, IInv, AsksOK, AsksUnique
<1> QED
  BY <1>6, <1>7, <1>8 DEF AsksOK

LEMMA SubscribeKeeps ==
    ASSUME IInv, NEW p \in Packets, NEW T \in SUBSET Topics, NEW q \in 0 .. 2,
           Subscribe(p, T, q)
    PROVE  AsksOK' /\ OpenOK'
<1> DEFINE new == T \ Subscribed
           N == {[op |-> "authorize", topic |-> t, map |-> p, handler |-> p, ok |-> TRUE] : t \in new}
<1>1. /\ Arrives(p, "subscribe", AtMostOne(q), T)
      /\ left' = [left EXCEPT ![p] = new] /\ asks' = asks \cup N
      /\ IF new = {} THEN Persist(entry') ELSE UNCHANGED stored
      /\ UNCHANGED <<clean, state, held>>
  BY DEF Subscribe, Arrives
<1>2. \A t \in Topics : /\ entry'[t] = None <=> entry[t] = None
                        /\ entry[t] # None => entry'[t].handler = entry[t].handler
  <2>1. AtMostOne(q) \in {0, 1}
    BY DEF AtMostOne
  <2>2. ASSUME NEW t \in Topics, entry[t] # None
        PROVE [entry[t] EXCEPT !.qos = AtMostOne(q)] # None
              /\ [entry[t] EXCEPT !.qos = AtMostOne(q)].handler = entry[t].handler
    <3>1. entry[t] \in Entries
      BY <2>2 DEF IInv, TypeOK
    <3>2. [entry[t] EXCEPT !.qos = AtMostOne(q)] \in Entries
          /\ [entry[t] EXCEPT !.qos = AtMostOne(q)].handler = entry[t].handler
      BY <2>1, <3>1 DEF Entries
    <3> QED
      BY <3>2, SubscriptionsAssumption DEF Entries, Maps
  <2>3. \A t \in Topics : entry'[t] = IF t \in T /\ entry[t] # None
                                      THEN [entry[t] EXCEPT !.qos = AtMostOne(q)] ELSE entry[t]
    BY DEF Subscribe
  <2> QED
    BY <2>2, <2>3
<1>3. \A n \in N : n.map = p /\ n.topic \in new /\ n.op = "authorize" /\ n.ok /\ n.handler = p
  OBVIOUS
<1>4. AsksOf(p, "subscribe", new, N)
  <2>1. \A n \in N : n = [op |-> "authorize", topic |-> n.topic, map |-> p, handler |-> p, ok |-> TRUE]
    OBVIOUS
  <2> HIDE DEF N
  <2> QED
    BY <1>3, <2>1 DEF AsksOf
<1> HIDE DEF N
<1>5. AsksOK'
  <2> HIDE DEF new
  <2> QED
    BY <1>1, <1>4, ArrivalKeepsAsks
<1>6. /\ orderly' => orderly
      /\ orderly' /\ state = "open" => \A b \in asks : b.op # "unsubscribe"
  BY <1>1, ArrivalFresh
<1>7. AsksOrderly'
  BY <1>1, <1>3, <1>6 DEF AsksOrderly
<1>8. NoDeafEntry'
  BY <1>1, <1>2 DEF IInv, OpenOK, NoDeafEntry, Subscribed
<1>9. NoStrayHandler'
  <2> SUFFICES ASSUME orderly', state = "open", NEW x \in held
      PROVE entry'[x[1]] # None /\ entry'[x[1]].handler = x[2]
    BY <1>1 DEF NoStrayHandler
  <2>1. entry[x[1]] # None /\ entry[x[1]].handler = x[2] /\ x[1] \in Topics
    BY <1>6 DEF IInv, TypeOK, OpenOK, NoStrayHandler
  <2> QED
    BY <1>2, <2>1
<1>10. StoredWhenQuiet'
  <2> SUFFICES ASSUME Quiet', ~clean, NEW t \in Topics
      PROVE stored'[t] = IF entry'[t] = None THEN None ELSE entry'[t].qos
    BY <1>1 DEF StoredWhenQuiet
  <2>1. left'[p] = {}
    BY DEF Quiet, Waiting
  <2>2. Persist(entry')
    BY <1>1, <2>1 DEF IInv, TypeOK
  <2> QED
    BY <2>2 DEF Persist
<1> QED
  BY <1>5, <1>7, <1>8, <1>9, <1>10 DEF OpenOK

LEMMA UnsubscribeKeeps ==
    ASSUME IInv, NEW p \in Packets, NEW T \in SUBSET Topics, NEW F \in SUBSET Topics,
           Unsubscribe(p, T, F)
    PROVE  AsksOK' /\ OpenOK'
<1> DEFINE N == Unsubscribes(T, F, entry, p)
<1>1. /\ Arrives(p, "unsubscribe", 0, T)
      /\ left' = [left EXCEPT ![p] = Awaited(T)] /\ asks' = asks \cup N
      /\ held' = held \ Removed(T, F, entry)
      /\ IF Awaited(T) = {} THEN Persist(entry) ELSE UNCHANGED stored
      /\ UNCHANGED <<clean, state, entry>>
  BY DEF Unsubscribe, Arrives
<1>2. \A n \in N : /\ n.map = p /\ n.topic \in Awaited(T) /\ n.op = "unsubscribe"
                   /\ n.handler = entry[n.topic].handler
                   /\ n.ok => n.topic \notin F
  <2> SUFFICES ASSUME NEW n \in N
      PROVE /\ n.map = p /\ n.topic \in Awaited(T) /\ n.op = "unsubscribe"
            /\ n.handler = entry[n.topic].handler
            /\ n.ok => n.topic \notin F
    OBVIOUS
  <2>1. PICK t \in T : /\ entry[t] # None
                       /\ n = [op |-> "unsubscribe", topic |-> t, map |-> p,
                               handler |-> entry[t].handler, ok |-> t \notin F]
    BY DEF Unsubscribes
  <2>2. /\ n.map = p /\ n.topic = t /\ n.op = "unsubscribe" /\ n.handler = entry[t].handler
    BY <2>1
  <2>3. n.ok = (t \notin F)
    BY <2>1
  <2> QED
    BY <2>1, <2>2, <2>3 DEF Awaited, Subscribed
<1>3. AsksOf(p, "unsubscribe", Awaited(T), N)
  <2>1. \A n \in N : n = [op |-> "unsubscribe", topic |-> n.topic, map |-> p,
                          handler |-> entry[n.topic].handler, ok |-> n.topic \notin F]
    BY DEF Unsubscribes
  <2> HIDE DEF N
  <2> QED
    BY <1>2, <2>1 DEF AsksOf
<1>4. \A t \in Awaited(T) : \E n \in N : n.topic = t /\ n.op = "unsubscribe" /\ n.handler = entry[t].handler
  <2> SUFFICES ASSUME NEW t \in Awaited(T)
      PROVE \E n \in N : n.topic = t /\ n.op = "unsubscribe" /\ n.handler = entry[t].handler
    OBVIOUS
  <2>1. [op |-> "unsubscribe", topic |-> t, map |-> p, handler |-> entry[t].handler,
         ok |-> t \notin F] \in N
    BY DEF Unsubscribes, Awaited, Subscribed
  <2> QED
    BY <2>1
<1>5. /\ \A x \in held : x \notin Removed(T, F, entry) => x \in held'
      /\ held' \subseteq held
      /\ \A t \in Awaited(T) \ F : <<t, entry[t].handler>> \notin held'
      /\ \A x \in Removed(T, F, entry) : x[1] \in Awaited(T) /\ x[2] = entry[x[1]].handler
                                         /\ x = <<x[1], x[2]>>
  BY <1>1 DEF Removed, Awaited, Subscribed
<1> HIDE DEF N
<1>6. AsksOK'
  BY <1>1, <1>3, ArrivalKeepsAsks
<1>7. /\ orderly' => orderly
      /\ orderly' /\ state = "open" => asks = {}
  BY <1>1, ArrivalFresh
<1>8. AsksOrderly'
  <2> SUFFICES ASSUME orderly', state = "open", NEW n \in N
      PROVE /\ \A b \in N : b.map = n.map
            /\ n.ok => \A x \in held' : x[1] # n.topic
    BY <1>1, <1>7 DEF AsksOrderly
  <2>1. ASSUME n.ok, NEW x \in held', x[1] = n.topic
        PROVE FALSE
    <3>1. n.topic \in Awaited(T) \ F
      BY <1>2, <2>1
    <3>2. x \in held /\ entry[x[1]].handler = x[2] /\ x = <<x[1], x[2]>>
      BY <1>5, <1>7, <2>1 DEF IInv, TypeOK, OpenOK, NoStrayHandler
    <3> QED
      BY <1>5, <2>1, <3>1, <3>2
  <2> QED
    BY <1>2, <2>1
<1>9. NoDeafEntry'
  <2> SUFFICES ASSUME state = "open", NEW t \in Subscribed
      PROVE \/ <<t, entry[t].handler>> \in held'
            \/ \E b \in asks' : b.topic = t /\ b.handler = entry[t].handler
                                /\ (b.op = "unsubscribe" \/ ~b.ok)
    BY <1>1 DEF NoDeafEntry, Subscribed
  <2>1. CASE t \in Awaited(T)
    BY <1>1, <1>4, <2>1
  <2>2. CASE t \notin Awaited(T)
    <3>1. <<t, entry[t].handler>> \notin Removed(T, F, entry)
      BY <1>5, <2>2
    <3>2. \/ <<t, entry[t].handler>> \in held
          \/ \E b \in asks : b.topic = t /\ b.handler = entry[t].handler
                             /\ (b.op = "unsubscribe" \/ ~b.ok)
      BY DEF IInv, OpenOK, NoDeafEntry
    <3> QED
      BY <1>1, <1>5, <3>1, <3>2
  <2> QED
    BY <2>1, <2>2
<1>10. NoStrayHandler'
  BY <1>1, <1>5, <1>7 DEF IInv, OpenOK, NoStrayHandler
<1>11. StoredWhenQuiet'
  <2> SUFFICES ASSUME Quiet', ~clean, NEW t \in Topics
      PROVE stored'[t] = IF entry[t] = None THEN None ELSE entry[t].qos
    BY <1>1 DEF StoredWhenQuiet
  <2>1. left'[p] = {}
    BY DEF Quiet, Waiting
  <2>2. Persist(entry)
    BY <1>1, <2>1 DEF IInv, TypeOK
  <2> QED
    BY <2>2 DEF Persist
<1> QED
  BY <1>6, <1>8, <1>9, <1>10, <1>11 DEF OpenOK

-----------------------------------------------------------------------------
(* Nothing is forgotten *)

\* A client begins to close only with a question of the close.
ClosesAsking == state' = "closing" => state = "closing" \/ \E b \in asks' : b.map = 0

LEMMA ClosedAsking ==
    ASSUME NEW F, NEW en, NEW as, NEW hd, Closed(F, en, as, hd)
    PROVE  as \subseteq asks' /\ ClosesAsking
<1>1. CASE state # "open"
  BY <1>1 DEF Closed, ClosesAsking
<1>2. CASE state = "open"
  <2> DEFINE un == Unsubscribes(Topics, F, en, 0)
  <2>1. asks' = as \cup un /\ state' = IF un = {} THEN "closed" ELSE "closing"
    BY <1>2 DEF Closed
  <2>2. \A b \in un : b.map = 0
    BY DEF Unsubscribes
  <2> HIDE DEF un
  <2> QED  BY <2>1, <2>2 DEF ClosesAsking
<1> QED  BY <1>1, <1>2

LEMMA FailsAsking ==
    ASSUME NEW p, NEW F, NEW en, NEW as, NEW hd, Fails(p, F, en, as, hd)
    PROVE  left' = [left EXCEPT ![p] = {}] /\ as \subseteq asks' /\ ClosesAsking
<1>1. CASE left[p] = {}
  BY <1>1 DEF Fails, ClosesAsking
<1>2. CASE left[p] # {}
  BY <1>2, ClosedAsking DEF Fails
<1> QED  BY <1>1, <1>2

\* With the answer of a question its topic is not waited for any more, or the
\* question that takes its place is about the same one.
LEMMA AnsweredKeeps ==
    ASSUME IInv, AnswersAreComing, NEW a \in asks, a.map \in Packets,
           asks \ {a} \subseteq asks', ClosesAsking,
           \/ \E L \in SUBSET (left[a.map] \ {a.topic}) : left' = [left EXCEPT ![a.map] = L]
           \/ left' = left /\ \E b \in asks' : b.map = a.map /\ b.topic = a.topic
    PROVE  AnswersAreComing'
<1>1. ASSUME NEW p \in Packets, NEW t \in left'[p]
      PROVE  \E b \in asks' : b.map = p /\ b.topic = t
  <2>1. t \in left[p] /\ (p = a.map /\ t = a.topic => \E b \in asks' : b.map = a.map /\ b.topic = a.topic)
    BY <1>1 DEF IInv, TypeOK
  <2>2. PICK b \in asks : b.map = p /\ b.topic = t
    BY <2>1 DEF AnswersAreComing
  <2> QED  BY <2>1, <2>2
<1>2. ASSUME state' = "closing" PROVE \E b \in asks' : b.map = 0
  BY <1>2, PacketsAreMaps DEF ClosesAsking, AnswersAreComing
<1> QED  BY <1>1, <1>2 DEF AnswersAreComing

\* A packet that arrives asks about all the topics that it waits for.
LEMMA ArrivalAsking ==
    ASSUME IInv, AnswersAreComing, NEW p \in Packets, NEW L, left' = [left EXCEPT ![p] = L],
           asks \subseteq asks', \A t \in L : \E b \in asks' : b.map = p /\ b.topic = t, state' = state
    PROVE  AnswersAreComing'
<1>1. \A r \in Packets : left'[r] = IF r = p THEN L ELSE left[r]
  BY DEF IInv, TypeOK
<1>2. ASSUME NEW r \in Packets, NEW t \in left'[r] PROVE \E b \in asks' : b.map = r /\ b.topic = t
  <2>1. CASE r = p
    BY <1>1, <1>2, <2>1
  <2>2. CASE r # p
    BY <1>1, <1>2, <2>2 DEF AnswersAreComing
  <2> QED  BY <2>1, <2>2
<1>3. state' = "closing" => \E b \in asks' : b.map = 0
  BY DEF AnswersAreComing
<1> QED  BY <1>2, <1>3 DEF AnswersAreComing

LEMMA AnswersKept == IInv /\ AnswersAreComing /\ [Next]_vars => AnswersAreComing'
<1> SUFFICES ASSUME IInv, AnswersAreComing, [Next]_vars PROVE AnswersAreComing'
  OBVIOUS
<1>0. \A a \in asks : a.op # "unsubscribe" \/ a.map # 0 => a.map \in Packets
  BY AskOfPacket DEF IInv, AsksOK
<1>1. ASSUME NEW p \in Packets, NEW T \in SUBSET Topics, NEW q, Subscribe(p, T, q) PROVE AnswersAreComing'
  <2> DEFINE new == T \ Subscribed
             N == {[op |-> "authorize", topic |-> t, map |-> p, handler |-> p, ok |-> TRUE] : t \in new}
  <2>1. left' = [left EXCEPT ![p] = new] /\ asks' = asks \cup N /\ state' = state
    BY <1>1 DEF Subscribe, Arrives
  <2>2. ASSUME NEW t \in new PROVE \E b \in N : b.map = p /\ b.topic = t
    <3>1. [op |-> "authorize", topic |-> t, map |-> p, handler |-> p, ok |-> TRUE] \in N
      BY <2>2
    <3> QED  BY <3>1
  <2> HIDE DEF new, N
  <2> QED  BY <2>1, <2>2, ArrivalAsking
<1>2. ASSUME NEW p \in Packets, NEW T \in SUBSET Topics, NEW F, Unsubscribe(p, T, F) PROVE AnswersAreComing'
  <2> DEFINE N == Unsubscribes(T, F, entry, p)
  <2>1. left' = [left EXCEPT ![p] = Awaited(T)] /\ asks' = asks \cup N /\ state' = state
    BY <1>2 DEF Unsubscribe, Arrives
  <2>2. ASSUME NEW t \in Awaited(T) PROVE \E b \in N : b.map = p /\ b.topic = t
    <3>1. [op |-> "unsubscribe", topic |-> t, map |-> p, handler |-> entry[t].handler, ok |-> t \notin F] \in N
      BY <2>2 DEF Unsubscribes, Awaited, Subscribed
    <3> QED  BY <3>1
  <2> HIDE DEF N
  <2> QED  BY <2>1, <2>2, ArrivalAsking
<1>3. ASSUME NEW a \in asks, NEW F, NEW en, a.map \in Packets, Fails(a.map, F, en, asks \ {a}, held)
      PROVE  AnswersAreComing'
  BY <1>3, FailsAsking, AnsweredKeeps
<1>4. ASSUME NEW a \in asks, NEW en, a.map \in Packets, asks' = asks \ {a}, Part(a.map, a.topic, en)
      PROVE  AnswersAreComing'
  <2>1. left' = [left EXCEPT ![a.map] = left[a.map] \ {a.topic}] /\ ClosesAsking
    BY <1>4 DEF Part, ClosesAsking
  <2> QED  BY <1>4, <2>1, AnsweredKeeps
<1>5. ASSUME NEW a \in asks, NEW F, AuthorizeError(a, F) \/ SubscribeAnswer(a, F) \/ UnsubscribeAnswer(a, F)
      PROVE  AnswersAreComing'
  <2>1. a.map \in Packets
    BY <1>0, <1>5 DEF AuthorizeError, SubscribeAnswer, UnsubscribeAnswer
  <2>2. \/ \E en : Fails(a.map, F, en, asks \ {a}, held)
        \/ asks' = asks \ {a} /\ \E en : Part(a.map, a.topic, en)
    BY <1>5 DEF AuthorizeError, SubscribeAnswer, UnsubscribeAnswer
  <2> QED  BY <1>3, <1>4, <2>1, <2>2
<1>6. ASSUME NEW a \in asks, NEW verdict, AuthorizeDone(a, verdict) PROVE AnswersAreComing'
  BY <1>0, <1>4, <1>6 DEF AuthorizeDone
<1>7. ASSUME NEW a \in asks, NEW ok \in BOOLEAN, AuthorizeAccept(a, ok) PROVE AnswersAreComing'
  <2> DEFINE n == [a EXCEPT !.op = "subscribe", !.ok = ok]
  <2>1. a.map \in Packets
    BY <1>0, <1>7 DEF AuthorizeAccept
  <2>2. n.map = a.map /\ n.topic = a.topic
    BY DEF IInv, TypeOK, Asks
  <2>3. asks' = (asks \ {a}) \cup {n} /\ left' = left /\ ClosesAsking
    BY <1>7 DEF AuthorizeAccept, packets, ClosesAsking
  <2> HIDE DEF n
  <2> QED  BY <2>1, <2>2, <2>3, AnsweredKeeps
<1>8. ASSUME NEW a \in asks, CloseAnswer(a) PROVE AnswersAreComing'
  <2>1. asks' = asks \ {a} /\ left' = left /\ a.map = 0
    BY <1>8 DEF CloseAnswer, packets
  <2>2. \A p \in Packets : \A t \in left'[p] : \E b \in asks' : b.map = p /\ b.topic = t
    BY <2>1, PacketsAreMaps DEF AnswersAreComing
  <2>3. ASSUME state' = "closing" PROVE \E b \in asks' : b.map = 0
    BY <1>8, <2>1, <2>3 DEF CloseAnswer, EndsClose
  <2> QED  BY <2>2, <2>3 DEF AnswersAreComing
<1>9. ASSUME NEW F, Close(F) PROVE AnswersAreComing'
  <2>1. asks \subseteq asks' /\ ClosesAsking /\ left' = left
    BY <1>9, ClosedAsking DEF Close, packets
  <2> QED  BY <2>1 DEF AnswersAreComing, ClosesAsking
<1>10. CASE UNCHANGED vars
  BY <1>10 DEF vars, packets, AnswersAreComing
<1> QED
  BY <1>1, <1>2, <1>5, <1>6, <1>7, <1>8, <1>9, <1>10 DEF Next, Packet, Answer

-----------------------------------------------------------------------------
(* The theorems *)

LEMMA InitInv == Init => IInv
<1> SUFFICES ASSUME Init
    PROVE  IInv
  OBVIOUS
<1>1. /\ clean \in BOOLEAN /\ state = "open" /\ asks = {} /\ orderly = TRUE /\ dropped = {}
      /\ entry \in [Topics -> {None} \cup [qos: {0, 1}, handler: {0}]]
      /\ held = {<<t, 0>> : t \in Subscribed}
      /\ stored = [t \in Topics |-> IF entry[t] = None THEN None ELSE entry[t].qos]
  BY DEF Init
<1>2. TypeOK
  <2>1. [qos: {0, 1}, handler: {0}] \subseteq Entries
    BY PacketsAreMaps DEF Entries
  <2>2. entry \in [Topics -> {None} \cup Entries]
    BY <1>1, <2>1
  <2>3. held \in SUBSET (Topics \X Maps)
    BY <1>1, PacketsAreMaps DEF Subscribed
  <2>4. stored \in [Topics -> {None, 0, 1}]
    BY <1>1
  <2>5. /\ kind \in [Packets -> {"none", "subscribe", "unsubscribe"}]
        /\ qos \in [Packets -> {0, 1}] /\ left \in [Packets -> SUBSET Topics]
    BY DEF Init
  <2> QED
    BY <1>1, <2>2, <2>3, <2>4, <2>5 DEF TypeOK
<1>3. AsksOK /\ AsksOrderly
  BY <1>1 DEF AsksOK, AsksKnown, AsksAwaited, AsksUnique, AsksOrderly
<1>4. NoDeafEntry
  <2>1. \A t \in Subscribed : entry[t].handler = 0
    BY <1>1 DEF Subscribed
  <2> QED
    BY <1>1, <2>1 DEF NoDeafEntry
<1>5. NoStrayHandler
  <2>1. \A t \in Subscribed : entry[t] # None /\ entry[t].handler = 0
    BY <1>1 DEF Subscribed
  <2> QED
    BY <1>1, <2>1 DEF NoStrayHandler
<1>6. StoredWhenQuiet
  BY <1>1 DEF StoredWhenQuiet
<1> QED
  BY <1>2, <1>3, <1>4, <1>5, <1>6 DEF IInv, OpenOK

LEMMA NextInv == IInv /\ [Next]_vars => IInv'
<1> SUFFICES ASSUME IInv, [Next]_vars
    PROVE  IInv'
  OBVIOUS
<1>0. TypeOK /\ AsksKnown
  BY DEF IInv, AsksOK
<1>1. ASSUME NEW p \in Packets, NEW T \in SUBSET Topics \ {{}}, NEW q \in 0 .. 2, Subscribe(p, T, q)
      PROVE IInv'
  BY <1>0, <1>1, SubscribeTyped, SubscribeKeeps DEF IInv
<1>2. ASSUME NEW p \in Packets, NEW T \in SUBSET Topics \ {{}}, NEW F \in SUBSET Topics,
             Unsubscribe(p, T, F)
      PROVE IInv'
  BY <1>0, <1>2, UnsubscribeTyped, UnsubscribeKeeps DEF IInv
<1>3. ASSUME NEW a \in asks, NEW F \in SUBSET Topics, AuthorizeError(a, F)
      PROVE IInv'
  BY <1>0, <1>3, AuthorizeErrorTyped, AuthorizeErrorKeeps DEF IInv
<1>4. ASSUME NEW a \in asks, NEW F \in SUBSET Topics, SubscribeAnswer(a, F)
      PROVE IInv'
  BY <1>0, <1>4, SubscribeAnswerTyped, SubscribeAnswerKeeps DEF IInv
<1>5. ASSUME NEW a \in asks, NEW F \in SUBSET Topics, UnsubscribeAnswer(a, F)
      PROVE IInv'
  BY <1>0, <1>5, UnsubscribeAnswerTyped, UnsubscribeAnswerKeeps DEF IInv
<1>6. ASSUME NEW a \in asks, NEW b \in BOOLEAN, AuthorizeDone(a, b)
      PROVE IInv'
  BY <1>0, <1>6, AuthorizeDoneTyped, AuthorizeDoneKeeps DEF IInv
<1>7. ASSUME NEW a \in asks, NEW b \in BOOLEAN, AuthorizeAccept(a, b)
      PROVE IInv'
  BY <1>0, <1>7, AuthorizeAcceptTyped, AuthorizeAcceptKeeps DEF IInv
<1>8. ASSUME NEW a \in asks, CloseAnswer(a)
      PROVE IInv'
  BY <1>0, <1>8, CloseAnswerTyped, CloseAnswerKeeps DEF IInv
<1>9. ASSUME NEW F \in SUBSET Topics, Close(F)
      PROVE IInv'
  BY <1>0, <1>9, CloseTyped, CloseKeeps DEF IInv
<1>10. CASE UNCHANGED vars
  BY <1>10 DEF vars, packets, observers, IInv, TypeOK, AsksOK, AsksKnown, AsksAwaited, AsksUnique,
     OpenOK, AsksOrderly, NoDeafEntry, NoStrayHandler, StoredWhenQuiet, Subscribed, Quiet, Waiting
<1> QED
  BY <1>1, <1>2, <1>3, <1>4, <1>5, <1>6, <1>7, <1>8, <1>9, <1>10 DEF Next, Packet, Answer

LEMMA Invariant == Spec => []IInv
<1> QED
  BY InitInv, NextInv, PTL DEF Spec

\* The type invariant holds, whatever the number of topics and packets
\* (Client.subscriptions and the questions of lib/client.js).
THEOREM TypesCorrect == Spec => []TypeOK
<1>1. IInv => TypeOK
  BY DEF IInv
<1> QED
  BY <1>1, Invariant, PTL

\* An open client is never deaf to one of its subscriptions, whatever
\* SUBSCRIBEs, UNSUBSCRIBEs and failures overlap (handleAuthorizeSubscribe and
\* unsubscribeMapTo).
THEOREM NeverDeaf == Spec => []NoDeafEntry
<1>1. IInv => NoDeafEntry
  BY DEF IInv, OpenOK
<1> QED
  BY <1>1, Invariant, PTL

\* A client that waits for its UNSUBACKs has no handler but those of its
\* subscriptions (handleAuthorizeSubscribe looks for the entry again).
THEOREM OneHandlerPerSubscription == Spec => []NoStrayHandler
<1>1. IInv => NoStrayHandler
  BY DEF IInv, OpenOK
<1> QED
  BY <1>1, Invariant, PTL

\* When every packet is answered the session is stored as it is, in whatever
\* order the answers came (persistClient).
THEOREM SessionStored == Spec => []StoredWhenQuiet
<1>1. IInv => StoredWhenQuiet
  BY DEF IInv, OpenOK
<1> QED
  BY <1>1, Invariant, PTL

\* Of every topic that a packet waits for, and of a close that has not ended, a
\* question is under way, whatever errors and late answers there are
\* (steed.map and the closes it runs into).
THEOREM NothingForgotten == Spec => []AnswersAreComing
<1>1. Init => AnswersAreComing
  BY DEF Init, AnswersAreComing
<1> QED
  BY <1>1, AnswersKept, Invariant, PTL DEF Spec
=============================================================================
