--------------------------- MODULE DeliveryProofs ---------------------------
(* Proofs about Delivery, for any clients, filters, window and id range. *)
EXTENDS Delivery, FiniteSetTheorems, TLAPS

-----------------------------------------------------------------------------
(* The in-flight window *)

\* The window, with the finiteness that counting it needs.
WindowInv ==
    /\ IsFiniteSet(pend)
    /\ CounterCoversOutstanding
    /\ WindowRespected

\* Sets of message ids and of held packets are finite, so they can be counted.
LEMMA IdsFinite == ASSUME NEW I \in SUBSET Ids PROVE IsFiniteSet(I) /\ Cardinality(I) \in Nat
<1>1. IsFiniteSet(Ids)
  BY DeliveryAssumption, FS_Interval DEF Ids
<1> QED
  BY <1>1, FS_Subset, FS_CardinalityType

LEMMA HeldFinite ==
    ASSUME IsFiniteSet(pend), NEW c
    PROVE  IsFiniteSet(Held(c)) /\ Cardinality(Held(c)) \in Nat
<1>1. Held(c) \in SUBSET pend
  BY DEF Held
<1> QED
  BY <1>1, FS_Subset, FS_CardinalityType

LEMMA OutstandingNat ==
    ASSUME TypeOK, IsFiniteSet(pend), NEW c \in Clients
    PROVE  /\ Outstanding(c) \in Nat
           /\ Cardinality(inflight[c]) \in Nat
           /\ Cardinality(Held(c)) \in Nat
<1>1. inflight[c] \in SUBSET Ids
  BY DEF TypeOK
<1>2. Cardinality(inflight[c]) \in Nat /\ Cardinality(Held(c)) \in Nat
  BY <1>1, IdsFinite, HeldFinite
<1> QED
  BY <1>2 DEF Outstanding

\* Adding one element adds at most one.
LEMMA AddOne ==
    ASSUME NEW S, IsFiniteSet(S), NEW x
    PROVE  /\ IsFiniteSet(S \cup {x})
           /\ Cardinality(S) \in Nat
           /\ Cardinality(S \cup {x}) \in Nat
           /\ Cardinality(S \cup {x}) <= Cardinality(S) + 1
<1>1. Cardinality(S) \in Nat
  BY FS_CardinalityType
<1> QED
  BY <1>1, FS_AddElement

\* forward raises the counter before it hands the packet on, and hands it on
\* only below the limit: the window holds after it.
LEMMA ForwardWindow ==
    ASSUME TypeOK, WindowInv, NEW c \in Clients, NEW t, NEW f \in Filters,
           NEW q \in 0 .. 2, NEW p, NEW stamp, Forward(c, t, f, q, p, stamp)
    PROVE  WindowInv'
<1> DEFINE x == [to |-> c, sub |-> f, pub |-> p, id |-> nextId[c], qos |-> q]
<1>1. /\ inflight' = inflight
      /\ pend' = IF Goes(c, t, f, q) THEN pend \cup {x} ELSE pend
      /\ counter' = [counter EXCEPT ![c] = Counted(c, q)]
  BY DEF Forward
<1>2. IsFiniteSet(pend')
  BY <1>1, AddOne DEF WindowInv
<1>3. \A d \in Clients : counter'[d] = IF d = c THEN Counted(c, q) ELSE counter[d]
  BY <1>1 DEF TypeOK
<1>4. /\ \A d \in Clients : counter[d] \in Nat
      /\ Counted(c, q) \in Nat /\ Counted(c, q) >= counter[c]
      /\ q = 1 => Counted(c, q) = counter[c] + 1
  <2>1. \A d \in Clients : counter[d] \in Nat
    BY DEF TypeOK
  <2>2. counter[c] \in Nat
    BY <2>1
  <2> QED
    BY <2>1, <2>2 DEF Counted
<1>5. ASSUME NEW d \in Clients
      PROVE  /\ Outstanding(d)' \in Nat
             /\ Outstanding(d)' <= Outstanding(d) + 1
             /\ Outstanding(d)' # Outstanding(d) => d = c /\ q = 1 /\ Goes(c, t, f, q)
  <2>1. Held(d)' = IF Goes(c, t, f, q) /\ d = c /\ q = 1 THEN Held(d) \cup {x} ELSE Held(d)
    BY <1>1 DEF Held
  <2>2. Outstanding(d)' = Cardinality(inflight[d]) + Cardinality(Held(d)')
    BY <1>1 DEF Outstanding
  <2>3. /\ Cardinality(inflight[d]) \in Nat /\ Cardinality(Held(d)) \in Nat
        /\ IsFiniteSet(Held(d))
    BY OutstandingNat, HeldFinite DEF WindowInv
  <2>4. /\ Cardinality(Held(d) \cup {x}) \in Nat
        /\ Cardinality(Held(d) \cup {x}) <= Cardinality(Held(d)) + 1
    BY <2>3, AddOne
  <2>5. Outstanding(d) = Cardinality(inflight[d]) + Cardinality(Held(d))
    BY DEF Outstanding
  <2> HIDE DEF x
  <2> QED
    BY <2>1, <2>2, <2>3, <2>4, <2>5
<1>6. \A d \in Clients : Outstanding(d) \in Nat
  BY OutstandingNat DEF WindowInv
<1>7. Goes(c, t, f, q) => Counted(c, q) < MaxInflight /\ state[c] = "open"
  BY <1>4, DeliveryAssumption DEF Goes, Overflows
<1>8. CounterCoversOutstanding'
  <2> SUFFICES ASSUME NEW d \in Clients PROVE counter'[d] >= Outstanding(d)'
    BY DEF CounterCoversOutstanding
  <2>1. counter[d] >= Outstanding(d)
    BY DEF WindowInv, CounterCoversOutstanding
  <2> QED
    BY <1>3, <1>4, <1>5, <1>6, <2>1
<1>9. WindowRespected'
  <2> SUFFICES ASSUME NEW d \in Clients
               PROVE  /\ Outstanding(d)' < MaxInflight
                      /\ state'[d] = "open" => counter'[d] < MaxInflight
    BY DEF WindowRespected
  <2>1. /\ counter[d] >= Outstanding(d) /\ Outstanding(d) < MaxInflight
        /\ state[d] = "open" => counter[d] < MaxInflight
    BY DEF WindowInv, CounterCoversOutstanding, WindowRespected
  <2>2. Outstanding(d)' < MaxInflight
    BY <1>4, <1>5, <1>6, <1>7, <2>1, DeliveryAssumption
  <2>3. state'[d] = "open" => state[d] = "open" /\ (d = c => Counted(c, q) < MaxInflight)
    <3>1. CASE Overflows(c, Counted(c, q))
      BY <3>1 DEF Forward, TypeOK
    <3>2. CASE ~Overflows(c, Counted(c, q))
      <4>1. state' = state
        BY <3>2 DEF Forward
      <4>2. state[c] = "open" => ~(Counted(c, q) >= MaxInflight)
        BY <3>2 DEF Overflows
      <4>3. Counted(c, q) \in Nat /\ MaxInflight \in Nat
        BY <1>4, DeliveryAssumption
      <4> QED
        BY <4>1, <4>2, <4>3
    <3> QED
      BY <3>1, <3>2
  <2> QED
    BY <1>3, <1>4, <2>1, <2>2, <2>3
<1> QED
  BY <1>2, <1>8, <1>9 DEF WindowInv

\* Whatever becomes of a held packet, it leaves the window or stays in it once.
LEMMA AnswerWindow ==
    ASSUME TypeOK, WindowInv, NEW x \in pend, DoForward(x) \/ DoForwardFail(x)
    PROVE  WindowInv'
<1>1. /\ pend' = pend \ {x} /\ counter' = counter /\ state' = state
      /\ x \in Packets
      /\ \/ inflight' = inflight
         \/ x.qos = 1 /\ inflight' = [inflight EXCEPT ![x.to] = inflight[x.to] \cup {x.id}]
  BY DEF DoForward, DoForwardFail, TypeOK
<1>2. IsFiniteSet(pend')
  BY <1>1, FS_RemoveElement DEF WindowInv
<1>3. ASSUME NEW d \in Clients
      PROVE  Outstanding(d)' \in Nat /\ Outstanding(d)' <= Outstanding(d)
  <2>1. Held(d)' = IF d = x.to /\ x.qos = 1 THEN Held(d) \ {x} ELSE Held(d)
    BY <1>1 DEF Held
  <2>2. /\ IsFiniteSet(Held(d)) /\ Cardinality(Held(d)) \in Nat
        /\ IsFiniteSet(inflight[d]) /\ Cardinality(inflight[d]) \in Nat
    BY HeldFinite, IdsFinite DEF WindowInv, TypeOK
  <2>3. Outstanding(d) = Cardinality(inflight[d]) + Cardinality(Held(d))
    BY DEF Outstanding
  <2>4. Outstanding(d)' = Cardinality(inflight'[d]) + Cardinality(Held(d)')
    BY DEF Outstanding
  <2>5. CASE d = x.to /\ x.qos = 1
    <3>1. Cardinality(Held(d)') = Cardinality(Held(d)) - 1
          /\ Cardinality(Held(d)') \in Nat
      <4>1. x \in Held(d)
        BY <2>5 DEF Held
      <4>2. Held(d)' = Held(d) \ {x}
        BY <2>1, <2>5
      <4>3. Cardinality(Held(d) \ {x}) = Cardinality(Held(d)) - 1
        BY <2>2, <4>1, FS_RemoveElement
      <4>4. Cardinality(Held(d) \ {x}) \in Nat
        BY <2>2, FS_RemoveElement, FS_CardinalityType
      <4> QED
        BY <4>2, <4>3, <4>4
    <3>2. inflight'[d] = inflight[d] \/ inflight'[d] = inflight[d] \cup {x.id}
      BY <1>1, <2>5 DEF TypeOK
    <3>3. /\ Cardinality(inflight'[d]) \in Nat
          /\ Cardinality(inflight'[d]) <= Cardinality(inflight[d]) + 1
      <4>1. /\ Cardinality(inflight[d] \cup {x.id}) \in Nat
            /\ Cardinality(inflight[d] \cup {x.id}) <= Cardinality(inflight[d]) + 1
        BY <2>2, AddOne
      <4>2. CASE inflight'[d] = inflight[d]
        BY <2>2, <4>2
      <4>3. CASE inflight'[d] = inflight[d] \cup {x.id}
        BY <4>1, <4>3
      <4> QED
        BY <3>2, <4>2, <4>3
    <3> QED
      BY <2>2, <2>3, <2>4, <3>1, <3>3
  <2>6. CASE ~(d = x.to /\ x.qos = 1)
    <3>1. inflight'[d] = inflight[d] /\ Held(d)' = Held(d)
      BY <1>1, <2>1, <2>6 DEF TypeOK
    <3> QED
      BY <2>2, <2>3, <2>4, <3>1
  <2> QED
    BY <2>5, <2>6
<1>4. \A d \in Clients : counter[d] \in Nat /\ Outstanding(d) \in Nat
  BY OutstandingNat DEF WindowInv, TypeOK
<1>5. CounterCoversOutstanding' /\ WindowRespected'
  BY <1>1, <1>3, <1>4, DeliveryAssumption
     DEF WindowInv, CounterCoversOutstanding, WindowRespected
<1> QED
  BY <1>2, <1>5 DEF WindowInv

\* A PUBACK frees the place of a packet that is in flight, and no other: the
\* counter stays a natural number that covers the window.
LEMMA PubackWindow ==
    ASSUME TypeOK, WindowInv, NEW c \in Clients, NEW i \in Ids, Puback(c, i)
    PROVE  WindowInv' /\ counter' \in [Clients -> Nat]
<1>1. /\ i \in inflight[c] /\ pend' = pend /\ state' = state
      /\ counter' = [counter EXCEPT ![c] = counter[c] - 1]
      /\ inflight' = [inflight EXCEPT ![c] = inflight[c] \ {i}]
  BY DEF Puback
<1>2. \A d \in Clients : /\ counter'[d] = IF d = c THEN counter[c] - 1 ELSE counter[d]
                         /\ inflight'[d] = IF d = c THEN inflight[c] \ {i} ELSE inflight[d]
  BY <1>1 DEF TypeOK
<1>3. \A d \in Clients : /\ Held(d)' = Held(d)
                         /\ Outstanding(d)' = Cardinality(inflight'[d]) + Cardinality(Held(d)')
                         /\ Outstanding(d) = Cardinality(inflight[d]) + Cardinality(Held(d))
  BY <1>1 DEF Held, Outstanding
<1>4. /\ Cardinality(inflight[c] \ {i}) = Cardinality(inflight[c]) - 1
      /\ Cardinality(inflight[c] \ {i}) \in Nat
  <2>1. IsFiniteSet(inflight[c])
    BY IdsFinite DEF TypeOK
  <2> QED
    BY <1>1, <2>1, FS_RemoveElement, FS_CardinalityType
<1>5. \A d \in Clients : /\ counter[d] \in Nat /\ Outstanding(d) \in Nat
                         /\ Cardinality(Held(d)) \in Nat
                         /\ Cardinality(inflight[d]) \in Nat
  BY OutstandingNat DEF WindowInv, TypeOK
<1>6. \A d \in Clients : Outstanding(d)' = IF d = c THEN Outstanding(c) - 1 ELSE Outstanding(d)
  BY <1>2, <1>3, <1>4, <1>5
<1>7. Outstanding(c) >= 1
  BY <1>3, <1>4, <1>5
<1>8. \A d \in Clients : counter[d] >= Outstanding(d)
  BY DEF WindowInv, CounterCoversOutstanding
<1>9. counter[c] - 1 \in Nat
  BY <1>5, <1>7, <1>8
<1>10. counter' \in [Clients -> Nat]
  BY <1>1, <1>9 DEF TypeOK
<1>11. CounterCoversOutstanding' /\ WindowRespected'
  BY <1>1, <1>2, <1>5, <1>6, <1>8, DeliveryAssumption
     DEF WindowInv, CounterCoversOutstanding, WindowRespected
<1> QED
  BY <1>1, <1>10, <1>11 DEF WindowInv

-----------------------------------------------------------------------------
(* De-duplication *)

\* Stamps are handed out in order, by clients that remember the last of theirs.
StampsOrdered ==
    /\ \A c \in Clients : lastDedup[c] < dedupId
    /\ cur.stamp < dedupId

\* A publication is stamped by the first client that it is handed to.
HandedIffStamped == (cur.handed = {}) <=> (cur.stamp = NoStamp)

\* While it is being delivered, only clients it was handed to reach its stamp.
ReachedWereHanded ==
    ~Idle /\ cur.stamp # NoStamp =>
        \A c \in Clients : cur.stamp <= lastDedup[c] => \E g \in Filters : <<c, g>> \in cur.handed

\* s is the subscription whose client stamped the publication.
Stamper(s) ==
    /\ \A g \in Filters : <<s[1], g>> \in cur.handed => g = s[2]
    /\ ~Idle => cur.stamp <= lastDedup[s[1]]
StamperKnown == cur.handed # {} => \E s \in cur.handed : Stamper(s)

DedupInv == StampsOrdered /\ HandedIffStamped /\ ReachedWereHanded /\ StamperKnown

\* Only a publication that was numbered has handlers to call.
Numbered == Idle \/ cur.pub > 0

DInv == TypeOK /\ WindowInv /\ Numbered /\ DedupInv /\ EveryMatchServed

-----------------------------------------------------------------------------
(* The type invariant *)

\* The variables that forward changes have their types.
ForwardedTyped ==
    /\ nextId \in [Clients -> Ids]
    /\ counter \in [Clients -> Nat]
    /\ inflight \in [Clients -> SUBSET Ids]
    /\ pend \in SUBSET Packets
    /\ state \in [Clients -> {"open", "closed"}]
    /\ cause \in [Clients -> {"none", "other", "too many inflight packets"}]
    /\ dedupId \in Nat
    /\ lastDedup \in [Clients -> Nat \cup {-1}]

LEMMA ForwardTyped ==
    ASSUME TypeOK, NEW c \in Clients, NEW t, NEW f \in Filters, NEW q \in 0 .. 2,
           NEW p \in 1 .. MaxPubs, NEW stamp, Forward(c, t, f, q, p, stamp)
    PROVE  ForwardedTyped'
<1>1. nextId' \in [Clients -> Ids]
  <2>1. nextId[c] \in Nat
    <3>1. nextId[c] \in Ids
      BY DEF TypeOK
    <3> QED
      BY <3>1 DEF Ids
  <2>2. (nextId[c] + 1) % IdRange \in Ids
    <3>1. IdRange \in Nat /\ IdRange > 0 /\ nextId[c] + 1 \in Nat
      BY <2>1, DeliveryAssumption
    <3>2. ASSUME NEW n \in Nat, NEW m \in Nat, m > 0
          PROVE  n % m \in 0 .. m - 1
      BY <3>2
    <3> QED
      BY <3>1, <3>2 DEF Ids
  <2>3. nextId' = [nextId EXCEPT ![c] = (nextId[c] + 1) % IdRange]
    BY DEF Forward
  <2> QED
    BY <2>2, <2>3 DEF TypeOK
<1>2. counter' \in [Clients -> Nat]
  <2>1. counter' = [counter EXCEPT ![c] = Counted(c, q)]
    BY DEF Forward
  <2>2. counter \in [Clients -> Nat] /\ counter[c] \in Nat
    BY DEF TypeOK
  <2>3. Counted(c, q) \in Nat
    BY <2>2 DEF Counted
  <2> QED
    BY <2>1, <2>2, <2>3
<1>3. inflight' \in [Clients -> SUBSET Ids]
  BY DEF Forward, TypeOK
<1>4. pend' \in SUBSET Packets
  <2>1. [to |-> c, sub |-> f, pub |-> p, id |-> nextId[c], qos |-> q] \in Packets
    BY DEF Packets, TypeOK
  <2>2. pend \in SUBSET Packets
    BY DEF TypeOK
  <2> QED
    BY <2>1, <2>2 DEF Forward
<1>5. state' \in [Clients -> {"open", "closed"}]
  BY DEF Forward, TypeOK
<1>6. cause' \in [Clients -> {"none", "other", "too many inflight packets"}]
  BY DEF Forward, TypeOK
<1>7. dedupId' \in Nat /\ lastDedup' \in [Clients -> Nat \cup {-1}]
  <2>1. CASE Goes(c, t, f, q) /\ stamp = NoStamp
    <3>1. dedupId' = dedupId + 1 /\ lastDedup' = [lastDedup EXCEPT ![c] = dedupId]
      BY <2>1 DEF Forward, Stamp
    <3>2. dedupId \in Nat /\ lastDedup \in [Clients -> Nat \cup {-1}]
      BY DEF TypeOK
    <3> QED
      BY <3>1, <3>2
  <2>2. CASE ~(Goes(c, t, f, q) /\ stamp = NoStamp)
    BY <2>2 DEF Forward, Stamp, TypeOK
  <2> QED
    BY <2>1, <2>2
<1> QED
  BY <1>1, <1>2, <1>3, <1>4, <1>5, <1>6, <1>7 DEF ForwardedTyped

\* The handler called by Deliver is a subscription with a QoS.
LEMMA HandlerTyped ==
    ASSUME TypeOK, NEW c, NEW f, <<c, f>> \in cur.todo
    PROVE  <<c, f>> \in Subscribed /\ Qos[<<c, f>>] \in 0 .. 2
<1>1. <<c, f>> \in Subscribed
  BY DEF TypeOK
<1> QED
  BY <1>1, DeliveryAssumption

\* Everything about the delivery of one publication to one handler, field by
\* field.
DeliverFields(c, f) ==
    /\ ~Seen(c)
    /\ cur'.pub = cur.pub /\ cur'.topic = cur.topic
    /\ cur'.todo = cur.todo \ {<<c, f>>}
    /\ cur'.stamp = IF Goes(c, cur.topic, f, Qos[<<c, f>>]) /\ cur.stamp = NoStamp
                    THEN dedupId ELSE cur.stamp
    /\ cur'.handed = IF Goes(c, cur.topic, f, Qos[<<c, f>>])
                     THEN cur.handed \cup {<<c, f>>} ELSE cur.handed
    /\ Forward(c, cur.topic, f, Qos[<<c, f>>], cur.pub, cur.stamp)

\* A handler is skipped by the de-duplication.
Duplicate(c, f) ==
    /\ Seen(c)
    /\ cur'.pub = cur.pub /\ cur'.topic = cur.topic
    /\ cur'.todo = cur.todo \ {<<c, f>>}
    /\ cur'.stamp = cur.stamp /\ cur'.handed = cur.handed
    /\ UNCHANGED <<dedupId, lastDedup, nextId, counter, inflight, pend, state, cause>>

LEMMA DeliverCases ==
    ASSUME TypeOK, NEW c \in Clients, NEW f \in Filters, Deliver(c, f)
    PROVE  /\ Duplicate(c, f) \/ DeliverFields(c, f)
           /\ <<c, f>> \in cur.todo /\ pubs' = pubs
           /\ cur' \in [pub: 0 .. MaxPubs, topic: Topics, stamp: Nat \cup {NoStamp},
                        handed: SUBSET Subscribed, todo: SUBSET Subscribed]
<1>1. <<c, f>> \in cur.todo /\ pubs' = pubs /\ <<c, f>> \in Subscribed
  BY HandlerTyped DEF Deliver
<1>2. cur \in [pub: 0 .. MaxPubs, topic: Topics, stamp: Nat \cup {NoStamp},
               handed: SUBSET Subscribed, todo: SUBSET Subscribed]
      /\ dedupId \in Nat
  BY DEF TypeOK
<1>3. CASE Seen(c)
  <2>1. /\ cur' = [cur EXCEPT !.todo = cur.todo \ {<<c, f>>}]
        /\ UNCHANGED <<dedupId, lastDedup, nextId, counter, inflight, pend, state, cause>>
    BY <1>3 DEF Deliver
  <2> QED
    BY <1>1, <1>2, <1>3, <2>1 DEF Duplicate
<1>4. CASE ~Seen(c)
  <2> DEFINE goes == Goes(c, cur.topic, f, Qos[<<c, f>>])
  <2>1. /\ cur' = [cur EXCEPT
              !.todo = cur.todo \ {<<c, f>>},
              !.stamp = IF goes /\ cur.stamp = NoStamp THEN dedupId ELSE cur.stamp,
              !.handed = IF goes THEN cur.handed \cup {<<c, f>>} ELSE cur.handed]
        /\ Forward(c, cur.topic, f, Qos[<<c, f>>], cur.pub, cur.stamp)
    BY <1>4 DEF Deliver
  <2> HIDE DEF goes
  <2>2. /\ cur'.pub = cur.pub /\ cur'.topic = cur.topic
        /\ cur'.todo = cur.todo \ {<<c, f>>}
        /\ cur'.stamp = IF goes /\ cur.stamp = NoStamp THEN dedupId ELSE cur.stamp
        /\ cur'.handed = IF goes THEN cur.handed \cup {<<c, f>>} ELSE cur.handed
    BY <1>2, <2>1
  <2>3. cur' \in [pub: 0 .. MaxPubs, topic: Topics, stamp: Nat \cup {NoStamp},
                  handed: SUBSET Subscribed, todo: SUBSET Subscribed]
    BY <1>1, <1>2, <2>1
  <2> QED
    BY <1>1, <1>4, <2>1, <2>2, <2>3 DEF DeliverFields, goes
<1> QED
  BY <1>3, <1>4
\* The actions that call no handler and take no stamp, and open no client.
QuietStep ==
    /\ UNCHANGED <<cur, dedupId, lastDedup>>
    /\ \A c \in Clients : state'[c] = "open" => state[c] = "open"

LEMMA AnswerTyped ==
    ASSUME TypeOK, NEW x \in pend, DoForward(x) \/ DoForwardFail(x)
    PROVE  TypeOK' /\ QuietStep
<1>1. /\ pend' = pend \ {x} /\ x \in Packets
      /\ UNCHANGED <<cur, pubs, dedupId, lastDedup, nextId, counter, state, cause>>
  BY DEF DoForward, DoForwardFail, TypeOK
<1>2. inflight' \in [Clients -> SUBSET Ids]
  <2>1. x.to \in Clients /\ x.id \in Ids
    BY <1>1 DEF Packets
  <2>2. \/ inflight' = inflight
        \/ inflight' = [inflight EXCEPT ![x.to] = inflight[x.to] \cup {x.id}]
    BY DEF DoForward, DoForwardFail
  <2>3. inflight \in [Clients -> SUBSET Ids] /\ inflight[x.to] \cup {x.id} \in SUBSET Ids
    BY <2>1 DEF TypeOK
  <2>4. CASE inflight' = inflight
    BY <2>3, <2>4
  <2>5. CASE inflight' = [inflight EXCEPT ![x.to] = inflight[x.to] \cup {x.id}]
    BY <2>3, <2>5
  <2> QED
    BY <2>2, <2>4, <2>5
<1> QED
  BY <1>1, <1>2 DEF TypeOK, QuietStep

LEMMA PubackTyped ==
    ASSUME TypeOK, WindowInv, NEW c \in Clients, NEW i \in Ids, Puback(c, i)
    PROVE  TypeOK' /\ QuietStep
<1>1. /\ inflight' = [inflight EXCEPT ![c] = inflight[c] \ {i}]
      /\ UNCHANGED <<cur, pubs, dedupId, lastDedup, nextId, pend, state, cause>>
  BY DEF Puback
<1>2. counter' \in [Clients -> Nat]
  BY PubackWindow
<1>3. inflight' \in [Clients -> SUBSET Ids]
  <2>1. inflight \in [Clients -> SUBSET Ids] /\ inflight[c] \ {i} \in SUBSET Ids
    BY DEF TypeOK
  <2> QED
    BY <1>1, <2>1
<1> QED
  BY <1>1, <1>2, <1>3 DEF TypeOK, QuietStep

LEMMA CloseTyped ==
    ASSUME TypeOK, NEW c \in Clients, CloseClient(c)
    PROVE  TypeOK' /\ QuietStep
<1>1. /\ state' = [state EXCEPT ![c] = "closed"]
      /\ cause' = [cause EXCEPT ![c] = "other"]
      /\ UNCHANGED <<cur, pubs, dedupId, lastDedup, nextId, counter, inflight, pend>>
  BY DEF CloseClient
<1>2. state' \in [Clients -> {"open", "closed"}]
  BY <1>1 DEF TypeOK
<1>3. cause' \in [Clients -> {"none", "other", "too many inflight packets"}]
  BY <1>1 DEF TypeOK
<1>4. \A d \in Clients : state'[d] = "open" => state[d] = "open"
  BY <1>1 DEF TypeOK
<1> QED
  BY <1>1, <1>2, <1>3, <1>4 DEF TypeOK, QuietStep

LEMMA PublishTyped ==
    ASSUME TypeOK, NEW t \in Topics, Publish(t)
    PROVE  TypeOK' /\ Numbered'
<1>1. /\ pubs < MaxPubs /\ pubs' = pubs + 1
      /\ cur' = [pub |-> pubs + 1, topic |-> t, stamp |-> NoStamp, handed |-> {},
                 todo |-> {s \in Subscribed : <<t, s[2]>> \in Matches}]
      /\ UNCHANGED <<dedupId, lastDedup, nextId, counter, inflight, pend, state, cause>>
  BY DEF Publish
<1>2. pubs \in 0 .. MaxPubs /\ MaxPubs \in Nat
  BY DeliveryAssumption DEF TypeOK
<1>3. pubs + 1 \in 0 .. MaxPubs /\ pubs + 1 > 0
  BY <1>1, <1>2
<1>4. cur' \in [pub: 0 .. MaxPubs, topic: Topics, stamp: Nat \cup {NoStamp},
                handed: SUBSET Subscribed, todo: SUBSET Subscribed]
  BY <1>1, <1>3
<1> QED
  BY <1>1, <1>3, <1>4 DEF TypeOK, Numbered

LEMMA DeliverTyped ==
    ASSUME TypeOK, Numbered, NEW c \in Clients, NEW f \in Filters, Deliver(c, f)
    PROVE  TypeOK' /\ Numbered'
<1>1. <<c, f>> \in cur.todo /\ pubs' = pubs /\ Qos[<<c, f>>] \in 0 .. 2
  BY DeliverCases, HandlerTyped
<1>2. cur' \in [pub: 0 .. MaxPubs, topic: Topics, stamp: Nat \cup {NoStamp},
                handed: SUBSET Subscribed, todo: SUBSET Subscribed]
  BY DeliverCases
<1>3. cur.pub > 0 /\ cur.pub \in 1 .. MaxPubs
  <2>1. cur.pub > 0
    BY <1>1 DEF Numbered, Idle
  <2>2. cur.pub \in 0 .. MaxPubs
    BY DEF TypeOK
  <2>3. MaxPubs \in Nat
    BY DeliveryAssumption
  <2> QED
    BY <2>1, <2>2, <2>3
<1>4. CASE Duplicate(c, f)
  BY <1>1, <1>2, <1>3, <1>4 DEF Duplicate, TypeOK, Numbered
<1>5. CASE DeliverFields(c, f)
  <2>1. Forward(c, cur.topic, f, Qos[<<c, f>>], cur.pub, cur.stamp) /\ cur'.pub = cur.pub
    BY <1>5 DEF DeliverFields
  <2>2. Numbered'
    BY <1>3, <2>1 DEF Numbered
  <2>3. ForwardedTyped'
    BY <1>1, <1>3, <2>1, ForwardTyped
  <2> QED
    BY <1>1, <1>2, <2>2, <2>3 DEF TypeOK, ForwardedTyped
<1> QED
  BY <1>4, <1>5, DeliverCases

LEMMA StoredTyped ==
    ASSUME TypeOK, NEW c \in Clients, NEW t \in Topics, NEW f \in Filters, NEW q \in 0 .. 2,
           ForwardStored(c, t, f, q)
    PROVE  TypeOK'
<1>1. /\ pubs < MaxPubs /\ pubs' = pubs + 1 /\ cur' = cur
      /\ Forward(c, t, f, q, pubs + 1, NoStamp)
  BY DEF ForwardStored
<1>2. pubs \in 0 .. MaxPubs /\ MaxPubs \in Nat
  BY DeliveryAssumption DEF TypeOK
<1>3. pubs + 1 \in 1 .. MaxPubs
  BY <1>1, <1>2
<1>4. ForwardedTyped'
  BY <1>1, <1>3, ForwardTyped
<1>5. pubs' \in 0 .. MaxPubs
  BY <1>1, <1>2
<1> QED
  BY <1>1, <1>4, <1>5 DEF TypeOK, ForwardedTyped

-----------------------------------------------------------------------------
(* Steps of the de-duplication *)

LEMMA QuietDedup ==
    ASSUME DedupInv, EveryMatchServed, Numbered, QuietStep
    PROVE  DedupInv' /\ EveryMatchServed' /\ Numbered'
<1>1. DedupInv' /\ Numbered'
  BY DEF DedupInv, StampsOrdered, HandedIffStamped, ReachedWereHanded, StamperKnown, Stamper,
         QuietStep, Idle, Numbered
<1>2. EveryMatchServed'
  BY DEF EveryMatchServed, QuietStep
<1> QED
  BY <1>1, <1>2

\* A publication starts with no stamp, and with every matching handler to call.
LEMMA PublishDedup ==
    ASSUME TypeOK, DedupInv, NEW t \in Topics, Publish(t)
    PROVE  DedupInv' /\ EveryMatchServed'
<1>1. /\ cur'.stamp = NoStamp /\ cur'.handed = {} /\ cur'.topic = t
      /\ cur'.todo = {s \in Subscribed : <<t, s[2]>> \in Matches}
      /\ UNCHANGED <<dedupId, lastDedup>>
  BY DEF Publish
<1>2. dedupId \in Nat
  BY DEF TypeOK
<1>3. DedupInv'
  BY <1>1, <1>2
     DEF DedupInv, StampsOrdered, HandedIffStamped, ReachedWereHanded, StamperKnown, NoStamp
<1>4. EveryMatchServed'
  BY <1>1 DEF EveryMatchServed
<1> QED
  BY <1>3, <1>4

\* What forward does with the stamp, and to a client it does not serve.
LEMMA ForwardStamps ==
    ASSUME TypeOK, NEW c \in Clients, NEW t, NEW f \in Filters, NEW q, NEW p, NEW stamp,
           Forward(c, t, f, q, p, stamp)
    PROVE  /\ IF Goes(c, t, f, q) /\ stamp = NoStamp
              THEN /\ dedupId' = dedupId + 1
                   /\ \A d \in Clients : lastDedup'[d] = IF d = c THEN dedupId ELSE lastDedup[d]
              ELSE dedupId' = dedupId /\ lastDedup' = lastDedup
           /\ \A d \in Clients : state'[d] = "open" => state[d] = "open"
           /\ ~Goes(c, t, f, q) /\ state'[c] = "open" => SkipsSys(t, f)
<1>1. CASE Goes(c, t, f, q) /\ stamp = NoStamp
  BY <1>1 DEF Forward, Stamp, TypeOK, Goes
<1>2. CASE ~(Goes(c, t, f, q) /\ stamp = NoStamp)
  BY <1>2 DEF Forward, Stamp, TypeOK, Goes
<1> QED
  BY <1>1, <1>2
\* One handler more: the first client to take the publication stamps it, and
\* is never handed it again; any other client may be.
LEMMA DeliverDedup ==
    ASSUME TypeOK, DedupInv, EveryMatchServed,
           NEW c \in Clients, NEW f \in Filters, Deliver(c, f)
    PROVE  DedupInv' /\ EveryMatchServed'
<1>1. <<c, f>> \in cur.todo /\ ~Idle
  BY DeliverCases DEF Idle
<1>2. /\ dedupId \in Nat /\ \A d \in Clients : lastDedup[d] \in Nat \cup {-1}
      /\ cur.stamp \in Nat \cup {NoStamp} /\ cur.handed \subseteq Clients \X Filters
  BY DeliveryAssumption DEF TypeOK
<1>3. CASE Duplicate(c, f)
  <2>1. /\ cur'.handed = cur.handed /\ cur'.stamp = cur.stamp
        /\ dedupId' = dedupId /\ lastDedup' = lastDedup
    BY <1>3 DEF Duplicate
  <2>2. DedupInv'
    BY <1>1, <2>1 DEF DedupInv, StampsOrdered, HandedIffStamped, ReachedWereHanded,
                      StamperKnown, Stamper
  <2>3. \E g \in Filters : <<c, g>> \in cur.handed
    BY <1>1, <1>3 DEF DedupInv, ReachedWereHanded, Duplicate, Seen
  <2>4. EveryMatchServed'
    BY <1>3, <2>3 DEF EveryMatchServed, Duplicate
  <2> QED
    BY <2>2, <2>4
<1>4. CASE DeliverFields(c, f)
  <2> DEFINE goes == Goes(c, cur.topic, f, Qos[<<c, f>>])
  <2>1. Forward(c, cur.topic, f, Qos[<<c, f>>], cur.pub, cur.stamp)
    BY <1>4 DEF DeliverFields
  <2>2. /\ IF goes /\ cur.stamp = NoStamp
           THEN /\ dedupId' = dedupId + 1
                /\ \A d \in Clients : lastDedup'[d] = IF d = c THEN dedupId ELSE lastDedup[d]
           ELSE dedupId' = dedupId /\ lastDedup' = lastDedup
        /\ \A d \in Clients : state'[d] = "open" => state[d] = "open"
        /\ ~goes /\ state'[c] = "open" => SkipsSys(cur.topic, f)
    BY <2>1, ForwardStamps
  <2>3. /\ ~Seen(c)
        /\ cur'.topic = cur.topic /\ cur'.pub = cur.pub
        /\ cur'.todo = cur.todo \ {<<c, f>>}
        /\ cur'.stamp = IF goes /\ cur.stamp = NoStamp THEN dedupId ELSE cur.stamp
        /\ cur'.handed = IF goes THEN cur.handed \cup {<<c, f>>} ELSE cur.handed
    BY <1>4 DEF DeliverFields
  <2> HIDE DEF goes
  <2>4. EveryMatchServed'
    BY <2>2, <2>3 DEF EveryMatchServed
  <2>5. ASSUME ~goes PROVE DedupInv'
    <3>1. /\ cur'.handed = cur.handed /\ cur'.stamp = cur.stamp
          /\ dedupId' = dedupId /\ lastDedup' = lastDedup
      BY <2>2, <2>3, <2>5
    <3> QED
      BY <1>1, <3>1 DEF DedupInv, StampsOrdered, HandedIffStamped, ReachedWereHanded,
                        StamperKnown, Stamper
  <2>6. ASSUME goes, cur.stamp = NoStamp PROVE DedupInv'
    <3>1. /\ cur'.handed = {<<c, f>>} /\ cur'.stamp = dedupId /\ dedupId' = dedupId + 1
          /\ \A d \in Clients : lastDedup'[d] = IF d = c THEN dedupId ELSE lastDedup[d]
      BY <2>2, <2>3, <2>6 DEF DedupInv, HandedIffStamped
    <3>2. \A d \in Clients : lastDedup[d] < dedupId
      BY DEF DedupInv, StampsOrdered
    <3>3. \A d \in Clients : cur'.stamp <= lastDedup'[d] => d = c
      BY <1>2, <3>1, <3>2
    <3>4. StampsOrdered'
      BY <1>2, <3>1, <3>2 DEF StampsOrdered
    <3>5. HandedIffStamped'
      <4>1. cur'.stamp # NoStamp
        BY <1>2, <3>1 DEF NoStamp
      <4>2. cur'.handed # {}
        BY <3>1
      <4> QED
        BY <4>1, <4>2 DEF HandedIffStamped
    <3>6. ReachedWereHanded'
      BY <3>1, <3>3 DEF ReachedWereHanded
    <3>7. cur'.stamp <= lastDedup'[c]
      BY <1>2, <3>1
    <3>8. StamperKnown'
      BY <3>1, <3>7 DEF StamperKnown, Stamper
    <3> QED
      BY <3>4, <3>5, <3>6, <3>8 DEF DedupInv
  <2>7. ASSUME goes, cur.stamp # NoStamp PROVE DedupInv'
    <3>1. /\ cur'.handed = cur.handed \cup {<<c, f>>} /\ cur'.stamp = cur.stamp
          /\ dedupId' = dedupId /\ lastDedup' = lastDedup
      BY <2>2, <2>3, <2>7
    <3>2. PICK s \in cur.handed : Stamper(s)
      BY <2>7 DEF DedupInv, HandedIffStamped, StamperKnown
    <3>3. s[1] # c
      BY <1>1, <2>3, <2>7, <3>2 DEF Stamper, Seen
    <3>4. Stamper(s)'
      <4>1. \A g \in Filters : <<s[1], g>> \in cur'.handed => <<s[1], g>> \in cur.handed
        BY <3>1, <3>3
      <4>2. cur.stamp <= lastDedup[s[1]]
        BY <1>1, <3>2 DEF Stamper
      <4>3. \A g \in Filters : <<s[1], g>> \in cur.handed => g = s[2]
        BY <3>2 DEF Stamper
      <4> QED
        BY <3>1, <4>1, <4>2, <4>3 DEF Stamper
    <3>5. StamperKnown'
      BY <3>1, <3>4 DEF StamperKnown
    <3>6. StampsOrdered' /\ HandedIffStamped' /\ ReachedWereHanded'
      BY <1>1, <2>7, <3>1
         DEF DedupInv, StampsOrdered, HandedIffStamped, ReachedWereHanded
    <3> QED
      BY <3>5, <3>6 DEF DedupInv
  <2> QED
    BY <2>4, <2>5, <2>6, <2>7
<1> QED
  BY <1>3, <1>4, DeliverCases

\* A stored packet is stamped on its own, between publications.
LEMMA StoredDedup ==
    ASSUME TypeOK, DedupInv, EveryMatchServed, NEW c \in Clients, NEW t \in Topics,
           NEW f \in Filters, NEW q \in 0 .. 2, ForwardStored(c, t, f, q)
    PROVE  DedupInv' /\ EveryMatchServed'
<1>1. /\ Idle /\ cur' = cur
      /\ Forward(c, t, f, q, pubs + 1, NoStamp)
  BY DEF ForwardStored
<1>2. /\ dedupId \in Nat /\ \A d \in Clients : lastDedup[d] \in Nat \cup {-1}
      /\ cur.stamp \in Nat \cup {NoStamp}
  BY DEF TypeOK
<1>3. /\ \/ dedupId' = dedupId /\ lastDedup' = lastDedup
         \/ /\ dedupId' = dedupId + 1
            /\ \A d \in Clients : lastDedup'[d] = IF d = c THEN dedupId ELSE lastDedup[d]
      /\ \A d \in Clients : state'[d] = "open" => state[d] = "open"
  BY <1>1, ForwardStamps
<1>4. StampsOrdered'
  <2>1. /\ \A d \in Clients : lastDedup[d] < dedupId
        /\ cur.stamp < dedupId
    BY DEF DedupInv, StampsOrdered
  <2>2. CASE dedupId' = dedupId /\ lastDedup' = lastDedup
    BY <1>1, <2>1, <2>2 DEF StampsOrdered
  <2>3. CASE /\ dedupId' = dedupId + 1
             /\ \A d \in Clients : lastDedup'[d] = IF d = c THEN dedupId ELSE lastDedup[d]
    BY <1>1, <1>2, <2>1, <2>3 DEF NoStamp, StampsOrdered
  <2> QED
    BY <1>3, <2>2, <2>3
<1>5. DedupInv'
  BY <1>1, <1>4 DEF DedupInv, HandedIffStamped, ReachedWereHanded, StamperKnown, Stamper, Idle
<1>6. EveryMatchServed'
  BY <1>1, <1>3 DEF EveryMatchServed
<1> QED
  BY <1>5, <1>6

-----------------------------------------------------------------------------
(* The inductive invariant and the theorems *)

LEMMA DInit == Init => DInv
<1> SUFFICES ASSUME Init PROVE DInv
  OBVIOUS
<1>1. TypeOK
  <2>1. 1 % IdRange \in Ids
    <3>1. IdRange \in Nat /\ IdRange > 0
      BY DeliveryAssumption
    <3>2. ASSUME NEW m \in Nat, m > 0 PROVE 1 % m \in 0 .. m - 1
      BY <3>2
    <3> QED
      BY <3>1, <3>2 DEF Ids
  <2> QED
    BY <2>1, DeliveryAssumption DEF Init, TypeOK
<1>2. WindowInv
  <2>1. IsFiniteSet(pend)
    BY FS_EmptySet DEF Init
  <2>2. \A c \in Clients : Outstanding(c) = 0
    <3> SUFFICES ASSUME NEW c \in Clients PROVE Outstanding(c) = 0
      OBVIOUS
    <3>1. inflight[c] = {} /\ Held(c) = {}
      BY DEF Init, Held
    <3>2. Cardinality({}) = 0
      BY FS_EmptySet
    <3> QED
      BY <3>1, <3>2 DEF Outstanding
  <2> QED
    BY <2>1, <2>2, DeliveryAssumption
       DEF Init, WindowInv, CounterCoversOutstanding, WindowRespected
<1>3. DedupInv
  BY DEF Init, DedupInv, StampsOrdered, HandedIffStamped, ReachedWereHanded, StamperKnown,
         Idle, NoStamp
<1>4. Numbered /\ EveryMatchServed
  BY DEF Init, Numbered, Idle, EveryMatchServed
<1> QED
  BY <1>1, <1>2, <1>3, <1>4 DEF DInv

LEMMA DStep == DInv /\ [Next]_vars => DInv'
<1> SUFFICES ASSUME DInv, [Next]_vars PROVE DInv'
  OBVIOUS
<1> USE DEF DInv
<1>1. ASSUME NEW t \in Topics, Publish(t) PROVE DInv'
  <2>1. WindowInv'
    BY <1>1 DEF Publish, WindowInv, CounterCoversOutstanding, WindowRespected, Outstanding, Held
  <2> QED
    BY <1>1, <2>1, PublishTyped, PublishDedup
<1>2. ASSUME NEW c \in Clients, NEW f \in Filters, Deliver(c, f) PROVE DInv'
  <2>1. WindowInv'
    <3>1. Qos[<<c, f>>] \in 0 .. 2
      BY <1>2, DeliverCases, HandlerTyped
    <3>2. CASE Duplicate(c, f)
      BY <3>2 DEF Duplicate, WindowInv, CounterCoversOutstanding, WindowRespected,
                  Outstanding, Held
    <3>3. CASE DeliverFields(c, f)
      <4>1. Forward(c, cur.topic, f, Qos[<<c, f>>], cur.pub, cur.stamp)
        BY <3>3 DEF DeliverFields
      <4> QED
        BY <3>1, <4>1, ForwardWindow
    <3> QED
      BY <1>2, <3>2, <3>3, DeliverCases
  <2> QED
    BY <1>2, <2>1, DeliverTyped, DeliverDedup
<1>3. ASSUME NEW c \in Clients, NEW t \in Topics, NEW f \in Filters, NEW q \in 0 .. 2,
             ForwardStored(c, t, f, q)
      PROVE  DInv'
  <2>1. Forward(c, t, f, q, pubs + 1, NoStamp) /\ cur' = cur
    BY <1>3 DEF ForwardStored
  <2>2. WindowInv'
    BY <2>1, ForwardWindow
  <2>3. Numbered'
    BY <2>1 DEF Numbered, Idle
  <2> QED
    BY <1>3, <2>2, <2>3, StoredTyped, StoredDedup
<1>4. ASSUME NEW x \in pend, DoForward(x) \/ DoForwardFail(x) PROVE DInv'
  BY <1>4, AnswerWindow, AnswerTyped, QuietDedup
<1>5. ASSUME NEW c \in Clients, NEW i \in Ids, Puback(c, i) PROVE DInv'
  BY <1>5, PubackWindow, PubackTyped, QuietDedup
<1>6. ASSUME NEW c \in Clients, CloseClient(c) PROVE DInv'
  <2>1. pend' = pend /\ inflight' = inflight /\ counter' = counter
    BY <1>6 DEF CloseClient
  <2>2. TypeOK' /\ QuietStep
    BY <1>6, CloseTyped
  <2>3. WindowInv'
    BY <2>1, <2>2
       DEF QuietStep, WindowInv, CounterCoversOutstanding, WindowRespected, Outstanding, Held
  <2> QED
    BY <2>2, <2>3, QuietDedup
<1>7. CASE UNCHANGED vars
  BY <1>7 DEF vars, TypeOK, WindowInv, CounterCoversOutstanding, WindowRespected,
              Outstanding, Held, Numbered, Idle, DedupInv, StampsOrdered,
              HandedIffStamped, ReachedWereHanded, StamperKnown, Stamper, EveryMatchServed
<1> QED
  BY <1>1, <1>2, <1>3, <1>4, <1>5, <1>6, <1>7 DEF Next

LEMMA DInvariant == Spec => []DInv
  BY DInit, DStep, PTL DEF Spec

\* Message ids stay in the range of a uint16, the in-flight counter never goes
\* negative, and every other variable keeps its type (client.js).
THEOREM DeliveryTypeCorrect == Spec => []TypeOK
<1>1. DInv => TypeOK
  BY DEF DInv
<1> QED
  BY <1>1, DInvariant, PTL

\* inflightCounter covers every packet sent and not acknowledged or still held.
THEOREM CounterCovers == Spec => []CounterCoversOutstanding
<1>1. DInv => CounterCoversOutstanding
  BY DEF DInv, WindowInv
<1> QED
  BY <1>1, DInvariant, PTL

\* No client is ever owed maxInflightMessages packets, and an open client has
\* room for one more.
THEOREM WindowHolds == Spec => []WindowRespected
<1>1. DInv => WindowRespected
  BY DEF DInv, WindowInv
<1> QED
  BY <1>1, DInvariant, PTL

\* De-duplication never drops the only copy of a publication.
THEOREM NoMatchDropped == Spec => []EveryMatchServed
<1>1. DInv => EveryMatchServed
  BY DEF DInv
<1> QED
  BY <1>1, DInvariant, PTL

\* The client that stamps a publication is handed it once.
THEOREM StamperServedOnce == Spec => []FirstReceiverOnce
<1>1. DInv => FirstReceiverOnce
  BY DEF DInv, DedupInv, StamperKnown, Stamper, FirstReceiverOnce
<1> QED
  BY <1>1, DInvariant, PTL
=============================================================================
