------------------------ MODULE ClientLifecycleProofs ------------------------
(* Proofs about ClientLifecycle, for any sets of connections, ids and topics. *)
EXTENDS ClientLifecycle, FiniteSetTheorems, TLAPS

-----------------------------------------------------------------------------
(* Type correctness *)

ClosingTypeOK ==
    /\ close \in [Conns -> {"open", "closing", "closed"}]
    /\ reason \in [Conns -> Reasons]
    /\ waiter \in [Conns -> Conns \cup {None, Server}]
    /\ unsubbing \in [Conns -> SUBSET Topics]
    /\ clients \in [Keys -> Conns \cup {None}]
    /\ connectedClients \in Int

\* The listeners of "clientDisconnected" keep the registry a partial map from
\* ids to connections and the counter an integer.
LEMMA CleanupType ==
    ASSUME TypeOK, NEW F \in SUBSET Conns, Cleanup(F)
    PROVE  /\ clients' \in [Keys -> Conns \cup {None}]
           /\ connectedClients' \in Int
<1>1. IsFiniteSet(F)
  BY LifecycleAssumption, FS_Subset
<1>2. Cardinality(F) \in Nat
  BY <1>1, FS_CardinalityType
<1> QED
  BY <1>2 DEF Cleanup, TypeOK

\* Client.close keeps the fields it writes in their types.
LEMMA CloseEffectType ==
    ASSUME TypeOK, NEW D \in SUBSET Conns, NEW S \in [Conns -> SUBSET Topics],
           NEW w \in Conns \cup {None, Server}, NEW why \in Reasons,
           CloseEffect(D, S, w, why)
    PROVE  ClosingTypeOK'
<1> DEFINE F == {c \in ToClose(D) : S[c] = {}}
<1>1. F \in SUBSET Conns
  BY DEF ToClose
<1>2. Cleanup(F)
  BY DEF CloseEffect
<1>3. clients' \in [Keys -> Conns \cup {None}] /\ connectedClients' \in Int
  <2> HIDE DEF F
  <2> QED BY <1>1, <1>2, CleanupType
<1>4. close' \in [Conns -> {"open", "closing", "closed"}]
  BY DEF CloseEffect, TypeOK
<1>5. reason' \in [Conns -> Reasons]
  BY DEF CloseEffect, TypeOK
<1>6. waiter' \in [Conns -> Conns \cup {None, Server}]
  BY DEF CloseEffect, TypeOK
<1>7. unsubbing' \in [Conns -> SUBSET Topics]
  BY DEF CloseEffect, TypeOK
<1> QED
  BY <1>3, <1>4, <1>5, <1>6, <1>7 DEF ClosingTypeOK

LEMMA NonDisconnectCloseType ==
    ASSUME TypeOK, NEW c \in Conns, NEW why \in Reasons, NonDisconnectClose(c, why)
    PROVE  ClosingTypeOK' /\ willDue' \in [Conns -> Nat] /\ willDone' \in [Conns -> Nat]
<1>1. ClosingTypeOK'
  BY CloseEffectType DEF NonDisconnectClose, TypeOK
<1>2. willDue' \in [Conns -> Nat] /\ willDone' \in [Conns -> Nat]
  BY DEF NonDisconnectClose, TypeOK
<1> QED
  BY <1>1, <1>2

LEMMA AnnounceType ==
    ASSUME TypeOK, NEW c \in Conns, Announce(c)
    PROVE  ClosingTypeOK' /\ phase' \in [Conns -> Phases]
BY DEF Announce, TypeOK, ClosingTypeOK, Phases

LEMMA TypeInit == Init => TypeOK
BY LifecycleAssumption DEF Init, TypeOK, NoOpts, Keys, Phases, Reasons, Abnormal

LEMMA TypeStep == TypeOK /\ [Next]_vars => TypeOK'
<1> SUFFICES ASSUME TypeOK, [Next]_vars PROVE TypeOK'
  OBVIOUS
<1> USE DEF session, wills, closing, ClosingTypeOK
<1>1. ASSUME NEW c \in Conns, NEW k \in Ids \cup {None}, NEW p \in Profiles, Connect(c, k, p)
      PROVE  TypeOK'
  <2>1. opts' \in [Conns -> [clean: BOOLEAN, will: BOOLEAN, ka: BOOLEAN]]
    <3>1. p \in [clean: BOOLEAN, will: BOOLEAN, ka: BOOLEAN]
      BY LifecycleAssumption
    <3> QED
      BY <1>1, <3>1 DEF Connect, TypeOK
  <2>2. ClientId(c, k) \in Keys
    BY DEF ClientId, Keys
  <2>3. key' \in [Conns -> Keys]
    BY <1>1, <2>2 DEF Connect, TypeOK
  <2>5. phase' \in [Conns -> Phases]
    BY <1>1 DEF Connect, TypeOK, Phases
  <2>4. up' \in [Conns -> BOOLEAN]
    BY <1>1 DEF Connect, TypeOK
  <2> QED
    BY <1>1, <2>1, <2>3, <2>4, <2>5 DEF Connect, TypeOK
<1>2. ASSUME NEW c \in Conns, NEW t \in Topics, Subscribe(c, t) PROVE TypeOK'
  <2>1. stored' \in [Keys -> SUBSET Topics]
    BY <1>2 DEF Subscribe, PersistClient, TypeOK
  <2>2. subs' \in [Conns -> SUBSET Topics]
    BY <1>2 DEF Subscribe, TypeOK
  <2>3. subscribing' \in [Conns -> SUBSET Topics]
    BY <1>2 DEF Subscribe, TypeOK
  <2> QED
    BY <1>2, <2>1, <2>2, <2>3 DEF Subscribe, TypeOK
<1>3. ASSUME NEW c \in Conns, NEW t \in Topics, NEW err \in BOOLEAN,
             SubscribeCallback(c, t, err)
      PROVE  TypeOK'
  <2>1. CASE err
    <3>1. subs' \in [Conns -> SUBSET Topics]
      <4>1. subs' = [subs EXCEPT ![c] = @ \ {t}]
        BY <1>3, <2>1 DEF SubscribeCallback
      <4> QED
        BY <4>1 DEF TypeOK
    <3>4. subscribing' \in [Conns -> SUBSET Topics]
      <4>1. subscribing' = [subscribing EXCEPT ![c] = @ \ {t}]
        BY <1>3 DEF SubscribeCallback
      <4> QED
        BY <4>1 DEF TypeOK
    <3>2. ClosingTypeOK'
      BY <1>3, <2>1, <3>1, CloseEffectType DEF SubscribeCallback, Reasons
    <3>3. UNCHANGED <<phase, key, opts, up, restoring, willDue, willDone, stored, server>>
      BY <1>3, <2>1 DEF SubscribeCallback
    <3> QED
      BY <3>1, <3>2, <3>3, <3>4 DEF TypeOK
  <2>2. CASE ~err
    BY <1>3, <2>2 DEF SubscribeCallback, PersistClient, TypeOK
  <2> QED
    BY <2>1, <2>2
<1>4. ASSUME NEW c \in Conns, Disconnect(c) PROVE TypeOK'
  <2>1. ClosingTypeOK'
    BY <1>4, CloseEffectType DEF Disconnect, Reasons, TypeOK
  <2> QED
    BY <1>4, <2>1 DEF Disconnect, TypeOK
<1>5. ASSUME NEW c \in Conns, NetClose(c) PROVE TypeOK'
  <2>1. CASE Listening(c)
    <3>1. ClosingTypeOK' /\ willDue' \in [Conns -> Nat] /\ willDone' \in [Conns -> Nat]
      BY <1>5, <2>1, NonDisconnectCloseType DEF NetClose, Reasons, Abnormal
    <3> QED
      BY <1>5, <3>1 DEF NetClose, TypeOK
  <2>2. CASE ~Listening(c)
    BY <1>5, <2>2 DEF NetClose, TypeOK
  <2> QED
    BY <2>1, <2>2
<1>6. ASSUME NEW c \in Conns, ClientError(c) PROVE TypeOK'
  <2>1. ClosingTypeOK' /\ willDue' \in [Conns -> Nat] /\ willDone' \in [Conns -> Nat]
    BY <1>6, NonDisconnectCloseType DEF ClientError, Reasons, Abnormal
  <2> QED
    BY <1>6, <2>1 DEF ClientError, TypeOK
<1>7. ASSUME NEW c \in Conns, AuthDeny(c) PROVE TypeOK'
  BY <1>7 DEF AuthDeny, TypeOK, Phases
<1>8. ASSUME NEW c \in Conns, AuthAccept(c) PROVE TypeOK'
  <2>1. ClosingTypeOK'
    <3>1. Holder(c) \in SUBSET Conns
      BY DEF Holder
    <3> QED
      BY <1>8, <3>1, CloseEffectType DEF AuthAccept, Reasons, TypeOK
  <2> QED
    BY <1>8, <2>1 DEF AuthAccept, TypeOK, Phases
<1>9. ASSUME NEW c \in Conns, LookupDone(c) PROVE TypeOK'
  <2> DEFINE found == IF opts[c].clean THEN {} ELSE stored[key[c]]
  <2>1. found \in SUBSET Topics
    BY DEF TypeOK
  <2>2. /\ subs' \in [Conns -> SUBSET Topics]
        /\ restoring' \in [Conns -> SUBSET Topics]
        /\ stored' \in [Keys -> SUBSET Topics]
    BY <1>9, <2>1 DEF LookupDone, TypeOK
  <2>3. ClosingTypeOK' /\ phase' \in [Conns -> Phases]
    <3>1. CASE found \subseteq subs[c]
      BY <1>9, <3>1, AnnounceType DEF LookupDone
    <3>2. CASE ~(found \subseteq subs[c])
      BY <1>9, <3>2 DEF LookupDone, TypeOK, Phases
    <3> QED
      BY <3>1, <3>2
  <2> QED
    BY <1>9, <2>2, <2>3 DEF LookupDone, TypeOK
<1>10. ASSUME NEW c \in Conns, LookupFail(c) PROVE TypeOK'
  <2>1. ClosingTypeOK' /\ willDue' \in [Conns -> Nat] /\ willDone' \in [Conns -> Nat]
    BY <1>10, NonDisconnectCloseType DEF LookupFail, Reasons, Abnormal
  <2> QED
    BY <1>10, <2>1 DEF LookupFail, TypeOK, Phases
<1>11. ASSUME NEW c \in Conns, NEW t \in Topics, NEW err \in BOOLEAN,
              RestoreCallback(c, t, err)
       PROVE  TypeOK'
  <2>1. subs' \in [Conns -> SUBSET Topics] /\ restoring' \in [Conns -> SUBSET Topics]
    BY <1>11 DEF RestoreCallback, TypeOK
  <2>2. ClosingTypeOK' /\ phase' \in [Conns -> Phases]
    <3>1. CASE phase[c] = "restore" /\ (err \/ restoring[c] = {t})
      BY <1>11, <3>1, AnnounceType DEF RestoreCallback
    <3>2. CASE ~(phase[c] = "restore" /\ (err \/ restoring[c] = {t}))
      BY <1>11, <3>2 DEF RestoreCallback, TypeOK
    <3> QED
      BY <3>1, <3>2
  <2> QED
    BY <1>11, <2>1, <2>2 DEF RestoreCallback, TypeOK
<1>12. ASSUME NEW c \in Conns, NEW t \in Topics, NEW err \in BOOLEAN,
              UnsubCallback(c, t, err)
       PROVE  TypeOK'
  <2>1. unsubbing' \in [Conns -> SUBSET Topics] /\ subs' \in [Conns -> SUBSET Topics]
    BY <1>12 DEF UnsubCallback, TypeOK
  <2>2. CASE EndsClose(c, t, err)
    <3>1. clients' \in [Keys -> Conns \cup {None}] /\ connectedClients' \in Int
      BY <1>12, <2>2, CleanupType DEF UnsubCallback
    <3>2. close' \in [Conns -> {"open", "closing", "closed"}]
      BY <1>12, <2>2 DEF UnsubCallback, TypeOK
    <3>3. phase' \in [Conns -> Phases]
      BY <1>12, <2>2 DEF UnsubCallback, Resumed, TypeOK, Phases
    <3> QED
      BY <1>12, <2>1, <3>1, <3>2, <3>3 DEF UnsubCallback, TypeOK
  <2>3. CASE ~EndsClose(c, t, err)
    BY <1>12, <2>1, <2>3 DEF UnsubCallback, TypeOK
  <2> QED
    BY <2>2, <2>3
<1>13. ASSUME NEW c \in Conns, PublishWill(c) PROVE TypeOK'
  BY <1>13 DEF PublishWill, TypeOK
<1>14. ASSUME NEW c \in Conns, KeepaliveTimeout(c) PROVE TypeOK'
  <2>1. ClosingTypeOK' /\ willDue' \in [Conns -> Nat] /\ willDone' \in [Conns -> Nat]
    BY <1>14, NonDisconnectCloseType DEF KeepaliveTimeout, Reasons, Abnormal
  <2> QED
    BY <1>14, <2>1 DEF KeepaliveTimeout, TypeOK
<1>15. ASSUME NEW k \in Keys, Kick(k) PROVE TypeOK'
  <2>1. ClosingTypeOK'
    <3>1. {clients[k]} \in SUBSET Conns
      BY <1>15 DEF Kick, TypeOK
    <3> QED
      BY <1>15, <3>1, CloseEffectType DEF Kick, Reasons, TypeOK
  <2> QED
    BY <1>15, <2>1 DEF Kick, TypeOK
<1>16. ASSUME ServerClose PROVE TypeOK'
  <2>1. ClosingTypeOK'
    <3>1. Registered \in SUBSET Conns
      BY DEF Registered
    <3> QED
      BY <1>16, <3>1, CloseEffectType DEF ServerClose, Reasons, TypeOK
  <2> QED
    BY <1>16, <2>1 DEF ServerClose, TypeOK
<1>17. ASSUME ServerFinish PROVE TypeOK'
  BY <1>17 DEF ServerFinish, TypeOK
<1>18. CASE UNCHANGED vars
  BY <1>18 DEF vars, TypeOK
<1> QED
  BY <1>1, <1>2, <1>3, <1>4, <1>5, <1>6, <1>7, <1>8, <1>9, <1>10, <1>11, <1>12,
     <1>13, <1>14, <1>15, <1>16, <1>17, <1>18 DEF Next, Peer, Callback

\* Type correctness: every field of Client, Server and Stats keeps its type
\* in every reachable state.
THEOREM TypeCorrect == Spec => []TypeOK
BY TypeInit, TypeStep, PTL DEF Spec

-----------------------------------------------------------------------------
(* The inductive invariant *)

\* Before completeConnection nothing closes a client and no SUBSCRIBE is heard.
Early == {"idle", "auth", "takeover", "refused"}
EarlyIsOpen ==
    \A c \in Conns : phase[c] \in Early => close[c] = "open" /\ subscribing[c] = {}

\* server.clients holds announced clients only, each under its own id.
RegistrySound ==
    \A k \in Keys, c \in Conns : clients[k] = c => phase[c] = "live" /\ key[c] = k

ReasonIffNotOpen == \A c \in Conns : close[c] = "open" <=> reason[c] = "none"

\* d is closing and will resume c.
Resumes(d, c) == close[d] = "closing" /\ waiter[d] = c

TakeoverInv ==
    /\ \A c \in Conns : phase[c] = "takeover" => \E d \in Conns : Resumes(d, c)
    /\ \A c, d \in Conns : Resumes(d, c) => phase[c] = "takeover" /\ key[d] = key[c]
    /\ \A c, d, e \in Conns : Resumes(d, c) /\ Resumes(e, c) => d = e

CloseInv ==
    /\ EarlyIsOpen
    /\ RegistrySound
    /\ ReasonIffNotOpen
    /\ TakeoverInv
    /\ ClosingHasPending

IInv == TypeOK /\ CloseInv /\ WillExactlyOnLoss

NotEarly(D) == \A c \in D : phase[c] \notin Early

\* What a step that only closes clients may do besides.
QuietStep ==
    /\ key' = key
    /\ \A c \in Conns : subscribing'[c] \subseteq subscribing[c]
    /\ \A c \in Conns : phase'[c] = phase[c]
                        \/ (phase[c] = "lookup" /\ phase'[c] = "failed")

\* A close that resumes no connection keeps CloseInv, whoever is closed, as
\* long as it is not a connection in the early phases.
LEMMA QuietClose ==
    ASSUME TypeOK, TypeOK', CloseInv,
           NEW D \in SUBSET Conns, NEW S \in [Conns -> SUBSET Topics],
           NEW w \in {None, Server}, NEW why \in Reasons \ {"none"},
           CloseEffect(D, S, w, why), NotEarly(D), QuietStep
    PROVE  CloseInv'
<1>1. /\ w \notin Conns
      /\ \A k \in Keys : clients'[k] \in {clients[k], None}
      /\ None \notin Conns
  BY LifecycleAssumption DEF CloseEffect, Cleanup, TypeOK
<1>2. \A c \in Conns : \/ UNCHANGED <<close[c], reason[c], waiter[c], unsubbing[c]>>
                       \/ /\ c \in D /\ close[c] = "open"
                          /\ close'[c] = (IF S[c] = {} THEN "closed" ELSE "closing")
                          /\ reason'[c] = why /\ waiter'[c] = w /\ unsubbing'[c] = S[c]
  BY DEF CloseEffect, ToClose, TypeOK
<1>3. EarlyIsOpen'
  <2> SUFFICES ASSUME NEW c \in Conns, phase'[c] \in Early
               PROVE  close'[c] = "open" /\ subscribing'[c] = {}
    BY DEF EarlyIsOpen
  <2>1. phase[c] = phase'[c]
    BY DEF Early, QuietStep
  <2> QED
    BY <1>2, <2>1 DEF CloseInv, EarlyIsOpen, NotEarly, QuietStep
<1>4. RegistrySound'
  BY <1>1 DEF CloseInv, RegistrySound, QuietStep
<1>5. ReasonIffNotOpen'
  BY <1>2 DEF CloseInv, ReasonIffNotOpen
<1>6. \A c, d \in Conns : Resumes(d, c)' <=> Resumes(d, c)
  BY <1>1, <1>2 DEF Resumes
<1>7. TakeoverInv'
  <2>1. \A c \in Conns : phase'[c] = "takeover" <=> phase[c] = "takeover"
    BY DEF QuietStep
  <2> QED
    BY <1>6, <2>1 DEF CloseInv, TakeoverInv, QuietStep
<1>8. ClosingHasPending'
  BY <1>2 DEF CloseInv, ClosingHasPending
<1> QED
  BY <1>3, <1>4, <1>5, <1>7, <1>8 DEF CloseInv

\* Announcing a client that was restoring keeps CloseInv.
LEMMA AnnounceInv ==
    ASSUME TypeOK, TypeOK', CloseInv, NEW c \in Conns, phase[c] \in {"lookup", "restore"},
           Announce(c), key' = key, subscribing' = subscribing
    PROVE  CloseInv'
<1>1. /\ phase'[c] = "live"
      /\ \A d \in Conns \ {c} : phase'[d] = phase[d]
      /\ UNCHANGED <<close, reason, waiter, unsubbing>>
  BY DEF Announce, TypeOK
<1>2. EarlyIsOpen'
  BY <1>1 DEF CloseInv, EarlyIsOpen, Early
<1>3. RegistrySound'
  <2>1. clients' = [clients EXCEPT ![key[c]] = c]
    BY DEF Announce
  <2>2. \A k \in Keys : clients'[k] = IF k = key[c] THEN c ELSE clients[k]
    BY <2>1 DEF TypeOK
  <2> QED
    BY <1>1, <2>2 DEF CloseInv, RegistrySound
<1>4. ReasonIffNotOpen' /\ ClosingHasPending'
  BY <1>1 DEF CloseInv, ReasonIffNotOpen, ClosingHasPending
<1>5. TakeoverInv'
  <2>1. \A d, e \in Conns : Resumes(d, e)' <=> Resumes(d, e)
    BY <1>1 DEF Resumes
  <2>2. \A d \in Conns : phase'[d] = "takeover" <=> phase[d] = "takeover"
    BY <1>1
  <2> QED
    BY <2>1, <2>2 DEF CloseInv, TakeoverInv
<1> QED
  BY <1>2, <1>3, <1>4, <1>5 DEF CloseInv

\* A newcomer that closes the registered client of its id keeps CloseInv: it
\* waits for that client alone, and no other close resumes it.
LEMMA AuthAcceptInv ==
    ASSUME TypeOK, TypeOK', CloseInv, NEW c \in Conns, AuthAccept(c)
    PROVE  CloseInv'
<1> DEFINE D == Holder(c)
<1>1. /\ phase[c] = "auth"
      /\ phase'[c] = IF CallsBackLater(D) THEN "takeover" ELSE "lookup"
      /\ \A x \in Conns \ {c} : phase'[x] = phase[x]
      /\ key' = key /\ subscribing' = subscribing
  BY DEF AuthAccept, TypeOK, session
<1>2. \A d \in D : d \in Conns /\ clients[key[c]] = d /\ phase[d] = "live" /\ key[d] = key[c]
  BY DEF Holder, CloseInv, RegistrySound, TypeOK
<1>3. c \notin D
  BY <1>1, <1>2
<1>4. \A x \in Conns : \/ UNCHANGED <<close[x], reason[x], waiter[x], unsubbing[x]>>
                       \/ /\ x \in D /\ close[x] = "open"
                          /\ close'[x] = (IF subs[x] = {} THEN "closed" ELSE "closing")
                          /\ reason'[x] = "new connection request"
                          /\ waiter'[x] = c /\ unsubbing'[x] = subs[x]
  BY DEF AuthAccept, CloseEffect, ToClose, TypeOK
<1>5. \A x \in D : close[x] = "open" =>
          /\ close'[x] = (IF subs[x] = {} THEN "closed" ELSE "closing")
          /\ waiter'[x] = c
  BY <1>2 DEF AuthAccept, CloseEffect, ToClose, TypeOK
<1>6. \A k \in Keys : clients'[k] \in {clients[k], None}
  BY DEF AuthAccept, CloseEffect, Cleanup, TypeOK
<1>7. EarlyIsOpen'
  <2> SUFFICES ASSUME NEW x \in Conns, phase'[x] \in Early
               PROVE  close'[x] = "open" /\ subscribing'[x] = {}
    BY DEF EarlyIsOpen
  <2>1. phase[x] \in Early
    BY <1>1 DEF Early
  <2>2. x \notin D
    BY <1>2, <2>1 DEF Early
  <2> QED
    BY <1>1, <1>4, <2>1, <2>2 DEF CloseInv, EarlyIsOpen
<1>8. RegistrySound'
  <2>1. \A k \in Keys, d \in Conns : clients'[k] = d => clients[k] = d
    BY <1>6, LifecycleAssumption
  <2>2. \A d \in Conns : phase[d] = "live" => phase'[d] = "live"
    BY <1>1
  <2> QED
    BY <1>1, <2>1, <2>2 DEF CloseInv, RegistrySound
<1>9. ReasonIffNotOpen'
  BY <1>4 DEF CloseInv, ReasonIffNotOpen
<1>10. ClosingHasPending'
  BY <1>4 DEF CloseInv, ClosingHasPending
<1>11. \A d \in Conns : ~Resumes(d, c)
  BY <1>1 DEF CloseInv, TakeoverInv
<1>12. \A d, e \in Conns : e # c => (Resumes(d, e)' <=> Resumes(d, e))
  <2> SUFFICES ASSUME NEW d \in Conns, NEW e \in Conns, e # c
               PROVE  Resumes(d, e)' <=> Resumes(d, e)
    OBVIOUS
  <2> QED
    BY <1>4 DEF Resumes
<1>13. \A d \in Conns : Resumes(d, c)' => d \in D /\ phase'[c] = "takeover"
  <2> SUFFICES ASSUME NEW d \in Conns, Resumes(d, c)'
               PROVE  d \in D /\ phase'[c] = "takeover"
    OBVIOUS
  <2>1. d \in D /\ close[d] = "open" /\ subs[d] # {}
    BY <1>4, <1>11 DEF Resumes
  <2> QED
    BY <1>1, <2>1 DEF CallsBackLater
<1>14. phase'[c] = "takeover" => \E d \in Conns : Resumes(d, c)'
  <2> SUFFICES ASSUME phase'[c] = "takeover" PROVE \E d \in Conns : Resumes(d, c)'
    OBVIOUS
  <2>1. PICK d \in D : close[d] = "open" /\ subs[d] # {}
    BY <1>1 DEF CallsBackLater
  <2> QED
    BY <1>2, <1>5, <2>1 DEF Resumes
<1>15. TakeoverInv'
  <2>1. \A x \in Conns : phase'[x] = "takeover" => \E d \in Conns : Resumes(d, x)'
    BY <1>1, <1>12, <1>14 DEF CloseInv, TakeoverInv
  <2>2. \A x, d \in Conns : Resumes(d, x)' => phase'[x] = "takeover" /\ key'[d] = key'[x]
    BY <1>1, <1>2, <1>12, <1>13 DEF CloseInv, TakeoverInv
  <2>3. \A x, d, e \in Conns : Resumes(d, x)' /\ Resumes(e, x)' => d = e
    <3> SUFFICES ASSUME NEW x \in Conns, NEW d \in Conns, NEW e \in Conns,
                        Resumes(d, x)', Resumes(e, x)'
                 PROVE  d = e
      OBVIOUS
    <3>1. CASE x = c
      BY <1>2, <1>13, <3>1
    <3>2. CASE x # c
      BY <1>12, <3>2 DEF CloseInv, TakeoverInv
    <3> QED
      BY <3>1, <3>2
  <2> QED
    BY <2>1, <2>2, <2>3 DEF TakeoverInv
<1> QED
  BY <1>7, <1>8, <1>9, <1>10, <1>15 DEF CloseInv

\* An unsubscribe of a close keeps CloseInv; when it ends the close, the
\* connection that it resumes is the one that waited for it.
LEMMA UnsubCallbackInv ==
    ASSUME TypeOK, TypeOK', CloseInv,
           NEW c \in Conns, NEW t \in Topics, NEW err \in BOOLEAN, UnsubCallback(c, t, err)
    PROVE  CloseInv'
<1>1. /\ key' = key /\ reason' = reason /\ waiter' = waiter /\ subscribing' = subscribing
      /\ \A x \in Conns \ {c} : unsubbing'[x] = unsubbing[x] /\ close'[x] = close[x]
      /\ unsubbing'[c] = unsubbing[c] \ {t}
  BY DEF UnsubCallback, TypeOK
<1>2. CASE EndsClose(c, t, err)
  <2> DEFINE w == waiter[c]
  <2>1. /\ close[c] = "closing" /\ close'[c] = "closed"
        /\ phase' = Resumed(c)
        /\ \A k \in Keys : clients'[k] \in {clients[k], None}
    BY <1>2 DEF UnsubCallback, EndsClose, Cleanup, TypeOK
  <2>2. \A x \in Conns : IF x = w THEN phase[x] = "takeover" /\ phase'[x] = "lookup"
                         ELSE phase'[x] = phase[x]
    BY <2>1 DEF Resumed, Resumes, CloseInv, TakeoverInv
  <2>3. EarlyIsOpen'
    <3>1. \A x \in Conns : phase'[x] \in Early => phase[x] \in Early
      BY <2>2 DEF Early
    <3> QED
      BY <1>1, <2>1, <3>1 DEF CloseInv, EarlyIsOpen
  <2>4. RegistrySound'
    <3>1. \A k \in Keys, x \in Conns : clients'[k] = x => clients[k] = x
      BY <2>1, LifecycleAssumption
    <3> QED
      BY <1>1, <2>2, <3>1 DEF CloseInv, RegistrySound
  <2>5. ReasonIffNotOpen' /\ ClosingHasPending'
    BY <1>1, <2>1 DEF CloseInv, ReasonIffNotOpen, ClosingHasPending
  <2>6. \A d, e \in Conns : Resumes(d, e)' <=> Resumes(d, e) /\ d # c
    BY <1>1, <2>1 DEF Resumes
  <2>7. TakeoverInv'
    <3>1. \A x \in Conns : phase'[x] = "takeover" => \E d \in Conns : Resumes(d, x)'
      <4> SUFFICES ASSUME NEW x \in Conns, phase'[x] = "takeover"
                   PROVE  \E d \in Conns : Resumes(d, x)'
        OBVIOUS
      <4>1. x # w /\ phase[x] = "takeover"
        BY <2>2
      <4>2. PICK d \in Conns : Resumes(d, x)
        BY <4>1 DEF CloseInv, TakeoverInv
      <4>3. d # c
        BY <4>1, <4>2 DEF Resumes
      <4> QED
        BY <2>6, <4>2, <4>3
    <3>2. \A x, d \in Conns : Resumes(d, x)' => phase'[x] = "takeover" /\ key'[d] = key'[x]
      <4> SUFFICES ASSUME NEW x \in Conns, NEW d \in Conns, Resumes(d, x)'
                   PROVE  phase'[x] = "takeover" /\ key'[d] = key'[x]
        OBVIOUS
      <4>1. Resumes(d, x) /\ d # c
        BY <2>6
      <4>2. x # w
        BY <2>1, <4>1 DEF Resumes, CloseInv, TakeoverInv
      <4> QED
        BY <1>1, <2>2, <4>1, <4>2 DEF CloseInv, TakeoverInv
    <3>3. \A x, d, e \in Conns : Resumes(d, x)' /\ Resumes(e, x)' => d = e
      BY <2>6 DEF CloseInv, TakeoverInv
    <3> QED
      BY <3>1, <3>2, <3>3 DEF TakeoverInv
  <2> QED
    BY <2>3, <2>4, <2>5, <2>7 DEF CloseInv
<1>3. CASE ~EndsClose(c, t, err)
  <2>1. UNCHANGED <<close, clients, phase>>
    BY <1>3 DEF UnsubCallback
  <2>2. EarlyIsOpen' /\ RegistrySound' /\ ReasonIffNotOpen'
    BY <1>1, <2>1 DEF CloseInv, EarlyIsOpen, RegistrySound, ReasonIffNotOpen
  <2>3. TakeoverInv'
    BY <1>1, <2>1 DEF CloseInv, TakeoverInv, Resumes
  <2>4. ClosingHasPending'
    BY <1>1, <1>3, <2>1 DEF CloseInv, ClosingHasPending, EndsClose
  <2> QED
    BY <2>2, <2>3, <2>4 DEF CloseInv
<1> QED
  BY <1>2, <1>3

-----------------------------------------------------------------------------
(* The step of the inductive invariant *)

\* Only a client that was open gets a will, and it gets it with its reason.
LEMMA NonDisconnectCloseWill ==
    ASSUME TypeOK, CloseInv, WillExactlyOnLoss, NEW c \in Conns, NEW why \in Abnormal,
           NonDisconnectClose(c, why), opts' = opts
    PROVE  WillExactlyOnLoss'
<1> SUFFICES ASSUME NEW x \in Conns
             PROVE  willDue'[x] + willDone'[x] =
                        IF opts[x].will /\ reason'[x] \in Abnormal THEN 1 ELSE 0
  BY DEF WillExactlyOnLoss
<1>1. /\ willDone'[x] = willDone[x] /\ willDue[x] \in Nat /\ willDone[x] \in Nat
      /\ willDue[x] + willDone[x] = IF opts[x].will /\ reason[x] \in Abnormal THEN 1 ELSE 0
  BY DEF NonDisconnectClose, WillExactlyOnLoss, TypeOK
<1>2. reason'[x] = IF x = c /\ close[c] = "open" THEN why ELSE reason[x]
  BY DEF NonDisconnectClose, CloseEffect, ToClose, TypeOK
<1>3. willDue'[x] =
        IF x = c THEN willDue[c] + (IF close[c] = "open" /\ opts[c].will THEN 1 ELSE 0)
        ELSE willDue[x]
  BY DEF NonDisconnectClose, TypeOK
<1>4. CASE x = c /\ close[c] = "open"
  <2>1. reason[x] \notin Abnormal
    BY <1>4 DEF CloseInv, ReasonIffNotOpen, Abnormal
  <2> QED
    BY <1>1, <1>2, <1>3, <1>4, <2>1
<1>5. CASE ~(x = c /\ close[c] = "open")
  BY <1>1, <1>2, <1>3, <1>5
<1> QED
  BY <1>4, <1>5

\* Any other close leaves the wills as they are.
LEMMA CloseEffectWill ==
    ASSUME TypeOK, CloseInv, WillExactlyOnLoss, NEW D \in SUBSET Conns,
           NEW S \in [Conns -> SUBSET Topics], NEW w, NEW why \in Reasons \ Abnormal,
           CloseEffect(D, S, w, why), UNCHANGED <<opts, willDue, willDone>>
    PROVE  WillExactlyOnLoss'
<1> SUFFICES ASSUME NEW x \in Conns
             PROVE  reason'[x] \in Abnormal <=> reason[x] \in Abnormal
  BY DEF WillExactlyOnLoss
<1>1. reason'[x] = IF x \in D /\ close[x] = "open" THEN why ELSE reason[x]
  BY DEF CloseEffect, ToClose, TypeOK
<1>2. close[x] = "open" => reason[x] \notin Abnormal
  BY DEF CloseInv, ReasonIffNotOpen, Abnormal
<1> QED
  BY <1>1, <1>2

LEMMA NonDisconnectStep ==
    ASSUME TypeOK, TypeOK', CloseInv, WillExactlyOnLoss,
           NEW c \in Conns, NEW why \in Abnormal, Completed(c),
           NonDisconnectClose(c, why), opts' = opts, QuietStep
    PROVE  CloseInv' /\ WillExactlyOnLoss'
<1>1. why \in Reasons \ {"none"}
  BY DEF Reasons, Abnormal
<1>2. CloseEffect({c}, subs, None, why)
  BY DEF NonDisconnectClose
<1>3. NotEarly({c})
  BY DEF Completed, Early, NotEarly
<1>4. subs \in [Conns -> SUBSET Topics]
  BY DEF TypeOK
<1>5. CloseInv'
  BY <1>1, <1>2, <1>3, <1>4, QuietClose
<1> QED
  BY <1>5, NonDisconnectCloseWill

LEMMA InvStep == IInv /\ [Next]_vars => IInv'
<1> SUFFICES ASSUME TypeOK, CloseInv, WillExactlyOnLoss, [Next]_vars, TypeOK'
             PROVE  CloseInv' /\ WillExactlyOnLoss'
  BY TypeStep DEF IInv
<1> USE DEF session, wills, closing
<1>1. ASSUME NEW c \in Conns, NEW k \in Ids \cup {None}, NEW p \in Profiles, Connect(c, k, p)
      PROVE  CloseInv' /\ WillExactlyOnLoss'
  <2>1. /\ phase[c] = "idle" /\ phase'[c] \in {"auth", "refused"}
        /\ \A x \in Conns \ {c} : UNCHANGED <<phase[x], key[x], opts[x]>>
        /\ UNCHANGED <<close, reason, waiter, unsubbing, clients, subscribing,
                       willDue, willDone>>
    BY <1>1 DEF Connect, TypeOK
  <2>2. close[c] = "open" /\ reason[c] = "none"
    BY <2>1 DEF CloseInv, EarlyIsOpen, ReasonIffNotOpen, Early
  <2>3. EarlyIsOpen' /\ RegistrySound' /\ ReasonIffNotOpen' /\ ClosingHasPending'
    BY <2>1 DEF CloseInv, EarlyIsOpen, RegistrySound, ReasonIffNotOpen, ClosingHasPending, Early
  <2>4. TakeoverInv'
    <3>1. \A d, x \in Conns : Resumes(d, x) => d # c /\ x # c
      BY <2>1, <2>2 DEF CloseInv, TakeoverInv, Resumes
    <3>2. \A d, x \in Conns : Resumes(d, x)' <=> Resumes(d, x)
      BY <2>1 DEF Resumes
    <3>3. \A x \in Conns : phase'[x] = "takeover" <=> phase[x] = "takeover"
      BY <2>1
    <3> QED
      BY <2>1, <3>1, <3>2, <3>3 DEF CloseInv, TakeoverInv
  <2>5. WillExactlyOnLoss'
    BY <2>1, <2>2 DEF WillExactlyOnLoss, Abnormal
  <2> QED
    BY <2>3, <2>4, <2>5 DEF CloseInv
<1>2. ASSUME NEW c \in Conns, NEW t \in Topics, Subscribe(c, t)
      PROVE  CloseInv' /\ WillExactlyOnLoss'
  <2>1. /\ phase[c] \notin Early
        /\ UNCHANGED <<phase, key, opts, close, reason, waiter, unsubbing, clients,
                       willDue, willDone>>
        /\ \A x \in Conns \ {c} : subscribing'[x] = subscribing[x]
    BY <1>2 DEF Subscribe, Listening, Completed, Early, TypeOK
  <2>2. EarlyIsOpen'
    BY <2>1 DEF CloseInv, EarlyIsOpen
  <2>3. RegistrySound' /\ ReasonIffNotOpen' /\ ClosingHasPending' /\ TakeoverInv'
    BY <2>1 DEF CloseInv, RegistrySound, ReasonIffNotOpen, ClosingHasPending, TakeoverInv,
                Resumes
  <2>4. WillExactlyOnLoss'
    BY <2>1 DEF WillExactlyOnLoss
  <2> QED
    BY <2>2, <2>3, <2>4 DEF CloseInv
<1>3. ASSUME NEW c \in Conns, NEW t \in Topics, NEW err \in BOOLEAN,
             SubscribeCallback(c, t, err)
      PROVE  CloseInv' /\ WillExactlyOnLoss'
  <2>1. /\ phase[c] \notin Early
        /\ \A x \in Conns : subscribing'[x] \subseteq subscribing[x]
        /\ UNCHANGED <<phase, key, opts, willDue, willDone>>
    BY <1>3 DEF SubscribeCallback, CloseInv, EarlyIsOpen, TypeOK
  <2>2. CASE err
    <3>1. CloseEffect({c}, subs', None, "subscribe error")
      BY <1>3, <2>2 DEF SubscribeCallback
    <3>2. subs' \in [Conns -> SUBSET Topics]
      BY DEF TypeOK
    <3>3. CloseInv'
      <4>1. NotEarly({c}) /\ QuietStep
        BY <2>1 DEF NotEarly, QuietStep
      <4>2. "subscribe error" \in Reasons \ {"none"}
        BY DEF Reasons
      <4> QED
        BY <3>1, <3>2, <4>1, <4>2, QuietClose DEF Reasons
    <3>4. WillExactlyOnLoss'
      BY <2>1, <3>1, <3>2, CloseEffectWill DEF Reasons, Abnormal
    <3> QED
      BY <3>3, <3>4
  <2>3. CASE ~err
    <3>1. UNCHANGED <<close, reason, waiter, unsubbing, clients>>
      BY <1>3, <2>3 DEF SubscribeCallback
    <3>2. EarlyIsOpen'
      BY <2>1, <3>1 DEF CloseInv, EarlyIsOpen
    <3>3. RegistrySound' /\ ReasonIffNotOpen' /\ ClosingHasPending' /\ TakeoverInv'
      BY <2>1, <3>1 DEF CloseInv, RegistrySound, ReasonIffNotOpen, ClosingHasPending,
                        TakeoverInv, Resumes
    <3>4. WillExactlyOnLoss'
      BY <2>1, <3>1 DEF WillExactlyOnLoss
    <3> QED
      BY <3>2, <3>3, <3>4 DEF CloseInv
  <2> QED
    BY <2>2, <2>3
<1>4. ASSUME NEW c \in Conns, Disconnect(c) PROVE CloseInv' /\ WillExactlyOnLoss'
  <2>1. /\ CloseEffect({c}, subs, None, "disconnect request")
        /\ NotEarly({c})
        /\ UNCHANGED <<phase, key, opts, subscribing, willDue, willDone>>
    BY <1>4 DEF Disconnect, Listening, Completed, Early, NotEarly
  <2>2. CloseInv'
    <3>1. /\ subs \in [Conns -> SUBSET Topics]
          /\ "disconnect request" \in Reasons \ {"none"}
          /\ QuietStep
      BY <2>1 DEF Reasons, TypeOK, QuietStep
    <3> QED
      BY <2>1, <3>1, QuietClose DEF Reasons
  <2> QED
    BY <2>1, <2>2, CloseEffectWill DEF Reasons, Abnormal, TypeOK
<1>5. ASSUME NEW c \in Conns, NetClose(c) PROVE CloseInv' /\ WillExactlyOnLoss'
  <2>1. CASE Listening(c)
    <3>1. /\ Completed(c) /\ NonDisconnectClose(c, "close") /\ opts' = opts
          /\ QuietStep /\ "close" \in Abnormal
      BY <1>5, <2>1 DEF NetClose, Listening, QuietStep, Abnormal
    <3> QED
      BY <3>1, NonDisconnectStep DEF Abnormal
  <2>2. CASE ~Listening(c)
    BY <1>5, <2>2 DEF NetClose, CloseInv, EarlyIsOpen, RegistrySound, ReasonIffNotOpen,
                      ClosingHasPending, TakeoverInv, Resumes, WillExactlyOnLoss
  <2> QED
    BY <2>1, <2>2
<1>6. ASSUME NEW c \in Conns, ClientError(c) PROVE CloseInv' /\ WillExactlyOnLoss'
  <2>1. /\ Completed(c) /\ NonDisconnectClose(c, "error") /\ opts' = opts
        /\ QuietStep /\ "error" \in Abnormal
    BY <1>6 DEF ClientError, Listening, QuietStep, Abnormal
  <2> QED
    BY <2>1, NonDisconnectStep DEF Abnormal
<1>7. ASSUME NEW c \in Conns, AuthDeny(c) PROVE CloseInv' /\ WillExactlyOnLoss'
  <2>1. /\ phase[c] = "auth" /\ phase'[c] = "refused"
        /\ \A x \in Conns \ {c} : phase'[x] = phase[x]
        /\ UNCHANGED <<key, opts, close, reason, waiter, unsubbing, clients, subscribing,
                       willDue, willDone>>
    BY <1>7 DEF AuthDeny, TypeOK
  <2>2. EarlyIsOpen' /\ RegistrySound' /\ ReasonIffNotOpen' /\ ClosingHasPending'
    BY <2>1 DEF CloseInv, EarlyIsOpen, RegistrySound, ReasonIffNotOpen, ClosingHasPending, Early
  <2>3. TakeoverInv'
    <3>1. \A d, x \in Conns : Resumes(d, x)' <=> Resumes(d, x)
      BY <2>1 DEF Resumes
    <3> QED
      BY <2>1, <3>1 DEF CloseInv, TakeoverInv
  <2>4. WillExactlyOnLoss'
    BY <2>1 DEF WillExactlyOnLoss
  <2> QED
    BY <2>2, <2>3, <2>4 DEF CloseInv
<1>8. ASSUME NEW c \in Conns, AuthAccept(c) PROVE CloseInv' /\ WillExactlyOnLoss'
  <2>1. CloseInv'
    BY <1>8, AuthAcceptInv
  <2>2. /\ Holder(c) \in SUBSET Conns
        /\ CloseEffect(Holder(c), subs, c, "new connection request")
        /\ UNCHANGED <<opts, willDue, willDone>>
    BY <1>8 DEF AuthAccept, Holder
  <2>3. WillExactlyOnLoss'
    BY <2>2, CloseEffectWill DEF Reasons, Abnormal, TypeOK
  <2> QED
    BY <2>1, <2>3
<1>9. ASSUME NEW c \in Conns, LookupDone(c) PROVE CloseInv' /\ WillExactlyOnLoss'
  <2>1. /\ phase[c] = "lookup"
        /\ UNCHANGED <<key, opts, subscribing, willDue, willDone>>
    BY <1>9 DEF LookupDone
  <2>2. CASE Announce(c)
    <3>1. CloseInv'
      BY <2>1, <2>2, AnnounceInv
    <3>2. WillExactlyOnLoss'
      BY <2>1, <2>2 DEF Announce, WillExactlyOnLoss
    <3> QED
      BY <3>1, <3>2
  <2>3. CASE ~Announce(c)
    <3>1. /\ phase'[c] = "restore"
          /\ \A x \in Conns \ {c} : phase'[x] = phase[x]
          /\ UNCHANGED <<close, reason, waiter, unsubbing, clients>>
      BY <1>9, <2>3 DEF LookupDone, TypeOK
    <3>2. EarlyIsOpen' /\ RegistrySound' /\ ReasonIffNotOpen' /\ ClosingHasPending'
      BY <2>1, <3>1 DEF CloseInv, EarlyIsOpen, RegistrySound, ReasonIffNotOpen,
                        ClosingHasPending, Early
    <3>3. TakeoverInv'
      <4>1. \A d, x \in Conns : Resumes(d, x)' <=> Resumes(d, x)
        BY <3>1 DEF Resumes
      <4> QED
        BY <2>1, <3>1, <4>1 DEF CloseInv, TakeoverInv
    <3>4. WillExactlyOnLoss'
      BY <2>1, <3>1 DEF WillExactlyOnLoss
    <3> QED
      BY <3>2, <3>3, <3>4 DEF CloseInv
  <2> QED
    BY <2>2, <2>3
<1>10. ASSUME NEW c \in Conns, LookupFail(c) PROVE CloseInv' /\ WillExactlyOnLoss'
  <2>1. \A x \in Conns : phase'[x] = phase[x] \/ (phase[x] = "lookup" /\ phase'[x] = "failed")
    <3>1. phase[c] = "lookup" /\ phase' = [phase EXCEPT ![c] = "failed"]
      BY <1>10 DEF LookupFail
    <3> QED
      BY <3>1 DEF TypeOK
  <2> QED
    <3>1. /\ Completed(c) /\ NonDisconnectClose(c, "error") /\ opts' = opts
          /\ QuietStep /\ "error" \in Abnormal
      BY <1>10, <2>1 DEF LookupFail, Completed, QuietStep, Abnormal
    <3> QED
      BY <3>1, NonDisconnectStep DEF Abnormal
<1>11. ASSUME NEW c \in Conns, NEW t \in Topics, NEW err \in BOOLEAN,
              RestoreCallback(c, t, err)
       PROVE  CloseInv' /\ WillExactlyOnLoss'
  <2>1. UNCHANGED <<key, opts, subscribing, willDue, willDone>>
    BY <1>11 DEF RestoreCallback
  <2>2. CASE phase[c] = "restore" /\ (err \/ restoring[c] = {t})
    <3>1. Announce(c)
      BY <1>11, <2>2 DEF RestoreCallback
    <3>2. CloseInv'
      BY <2>1, <2>2, <3>1, AnnounceInv
    <3>3. WillExactlyOnLoss'
      BY <2>1, <3>1 DEF Announce, WillExactlyOnLoss
    <3> QED
      BY <3>2, <3>3
  <2>3. CASE ~(phase[c] = "restore" /\ (err \/ restoring[c] = {t}))
    <3>1. UNCHANGED <<phase, close, reason, waiter, unsubbing, clients>>
      BY <1>11, <2>3 DEF RestoreCallback
    <3> QED
      BY <2>1, <3>1 DEF CloseInv, EarlyIsOpen, RegistrySound, ReasonIffNotOpen,
                        ClosingHasPending, TakeoverInv, Resumes, WillExactlyOnLoss
  <2> QED
    BY <2>2, <2>3
<1>12. ASSUME NEW c \in Conns, NEW t \in Topics, NEW err \in BOOLEAN,
              UnsubCallback(c, t, err)
       PROVE  CloseInv' /\ WillExactlyOnLoss'
  <2>1. CloseInv'
    BY <1>12, UnsubCallbackInv
  <2>2. WillExactlyOnLoss'
    BY <1>12 DEF UnsubCallback, WillExactlyOnLoss
  <2> QED
    BY <2>1, <2>2
<1>13. ASSUME NEW c \in Conns, PublishWill(c) PROVE CloseInv' /\ WillExactlyOnLoss'
  <2>1. CloseInv'
    BY <1>13 DEF PublishWill, CloseInv, EarlyIsOpen, RegistrySound, ReasonIffNotOpen,
                 ClosingHasPending, TakeoverInv, Resumes
  <2>2. WillExactlyOnLoss'
    BY <1>13 DEF PublishWill, WillExactlyOnLoss, TypeOK
  <2> QED
    BY <2>1, <2>2
<1>14. ASSUME NEW c \in Conns, KeepaliveTimeout(c) PROVE CloseInv' /\ WillExactlyOnLoss'
  <2>1. /\ Completed(c) /\ NonDisconnectClose(c, "keepalive timeout") /\ opts' = opts
        /\ QuietStep /\ "keepalive timeout" \in Abnormal
    BY <1>14 DEF KeepaliveTimeout, QuietStep, Abnormal
  <2> QED
    BY <2>1, NonDisconnectStep DEF Abnormal
<1>15. ASSUME NEW k \in Keys, Kick(k) PROVE CloseInv' /\ WillExactlyOnLoss'
  <2>1. /\ CloseEffect({clients[k]}, subs, None, "new connection request")
        /\ UNCHANGED <<phase, key, opts, subscribing, willDue, willDone>>
    BY <1>15 DEF Kick
  <2>2. {clients[k]} \in SUBSET Conns /\ NotEarly({clients[k]})
    <3>1. clients[k] \in Conns
      BY <1>15 DEF Kick, TypeOK
    <3>2. phase[clients[k]] = "live"
      BY <3>1 DEF CloseInv, RegistrySound
    <3> QED
      BY <3>1, <3>2 DEF Early, NotEarly
  <2>3. CloseInv'
    <3>1. /\ subs \in [Conns -> SUBSET Topics]
          /\ "new connection request" \in Reasons \ {"none"}
          /\ QuietStep
      BY <2>1 DEF Reasons, TypeOK, QuietStep
    <3> QED
      BY <2>1, <2>2, <3>1, QuietClose DEF Reasons
  <2> QED
    BY <2>1, <2>2, <2>3, CloseEffectWill DEF Reasons, Abnormal, TypeOK
<1>16. ASSUME ServerClose PROVE CloseInv' /\ WillExactlyOnLoss'
  <2>1. /\ CloseEffect(Registered, subs, Server, "server closed")
        /\ UNCHANGED <<phase, key, opts, subscribing, willDue, willDone>>
    BY <1>16 DEF ServerClose
  <2>2. Registered \in SUBSET Conns /\ NotEarly(Registered)
    BY DEF Registered, CloseInv, RegistrySound, Early, NotEarly
  <2>3. CloseInv'
    <3>1. /\ subs \in [Conns -> SUBSET Topics]
          /\ "server closed" \in Reasons \ {"none"}
          /\ QuietStep
      BY <2>1 DEF Reasons, TypeOK, QuietStep
    <3> QED
      BY <2>1, <2>2, <3>1, QuietClose DEF Reasons
  <2> QED
    BY <2>1, <2>2, <2>3, CloseEffectWill DEF Reasons, Abnormal, TypeOK
<1>17. CASE ServerFinish \/ UNCHANGED vars
  BY <1>17 DEF ServerFinish, vars, CloseInv, EarlyIsOpen, RegistrySound, ReasonIffNotOpen,
               ClosingHasPending, TakeoverInv, Resumes, WillExactlyOnLoss
<1> QED
  BY <1>1, <1>2, <1>3, <1>4, <1>5, <1>6, <1>7, <1>8, <1>9, <1>10, <1>11, <1>12,
     <1>13, <1>14, <1>15, <1>16, <1>17 DEF Next, Peer, Callback

LEMMA InvInit == Init => IInv
<1> SUFFICES ASSUME Init PROVE CloseInv /\ WillExactlyOnLoss
  BY TypeInit DEF IInv
<1>1. RegistrySound
  BY LifecycleAssumption DEF Init, RegistrySound
<1>2. EarlyIsOpen /\ ReasonIffNotOpen /\ ClosingHasPending /\ TakeoverInv
  BY DEF Init, EarlyIsOpen, ReasonIffNotOpen, ClosingHasPending, TakeoverInv, Resumes
<1>3. WillExactlyOnLoss
  BY DEF Init, WillExactlyOnLoss, NoOpts
<1> QED
  BY <1>1, <1>2, <1>3 DEF CloseInv

\* In every reachable state, for any number of connections, a last will has
\* gone out exactly once if its client was lost, and never otherwise.
THEOREM WillOnce == Spec => []WillExactlyOnLoss
<1>1. IInv => WillExactlyOnLoss
  BY DEF IInv
<1> QED
  BY InvInit, InvStep, <1>1, PTL DEF Spec

\* No connection that waits for a takeover is ever orphaned or resumed twice.
THEOREM TakeoverNeverOrphaned == Spec => []TakeoverHasACloser
<1>1. IInv => TakeoverHasACloser
  BY DEF IInv, CloseInv, TakeoverInv, Resumes, TakeoverHasACloser
<1> QED
  BY InvInit, InvStep, <1>1, PTL DEF Spec

\* A close in progress always has an unsubscribe whose answer will end it.
THEOREM CloseNeverStuck == Spec => []ClosingHasPending
<1>1. IInv => ClosingHasPending
  BY DEF IInv, CloseInv
<1> QED
  BY InvInit, InvStep, <1>1, PTL DEF Spec

-----------------------------------------------------------------------------
(* The counter of connected clients *)

Live == {c \in Conns : phase[c] = "live"}
Closed == {c \in Conns : close[c] = "closed"}

\* Every announced client was added once, every closed one was taken once.
StatsInv == connectedClients = Cardinality(Live) - Cardinality(Closed)

LEMMA ConnsFinite == ASSUME NEW F \in SUBSET Conns
                     PROVE  IsFiniteSet(F) /\ Cardinality(F) \in Nat
BY LifecycleAssumption, FS_Subset, FS_CardinalityType

\* Closing the clients of F, none of them closed before, takes each once.
LEMMA StatsCleanup ==
    ASSUME TypeOK, StatsInv, NEW F \in SUBSET Conns, Cleanup(F),
           F \cap Closed = {}, Closed' = Closed \cup F, Live' = Live
    PROVE  StatsInv'
<1>1. Closed \in SUBSET Conns /\ Live \in SUBSET Conns
  BY DEF Closed, Live
<1>2. /\ IsFiniteSet(F) /\ IsFiniteSet(Closed)
      /\ Cardinality(F) \in Nat /\ Cardinality(Closed) \in Nat /\ Cardinality(Live) \in Nat
  BY <1>1, ConnsFinite
<1>3. Cardinality(F \cap Closed) = 0
  BY FS_EmptySet
<1>4. Cardinality(Closed \cap F) = 0
  <2>1. Closed \cap F = F \cap Closed
    OBVIOUS
  <2> QED
    BY <1>3, <2>1
<1>5. Cardinality(Closed \cup F) = Cardinality(Closed) + Cardinality(F)
  <2>1. Cardinality(Closed \cup F) =
            Cardinality(Closed) + Cardinality(F) - Cardinality(Closed \cap F)
    BY <1>2, FS_Union
  <2> QED
    BY <1>2, <1>4, <2>1
<1>6. connectedClients' = connectedClients - Cardinality(F)
  BY DEF Cleanup
<1>7. StatsInv' <=> connectedClients' = Cardinality(Live') - Cardinality(Closed')
  BY DEF StatsInv
<1> QED
  BY <1>2, <1>5, <1>6, <1>7 DEF StatsInv

LEMMA StatsClose ==
    ASSUME TypeOK, StatsInv, NEW D \in SUBSET Conns, NEW S, NEW w, NEW why,
           CloseEffect(D, S, w, why), Live' = Live
    PROVE  StatsInv'
<1> DEFINE F == {c \in ToClose(D) : S[c] = {}}
<1>1. F \in SUBSET Conns /\ F \cap Closed = {}
  BY DEF ToClose, Closed
<1>2. Cleanup(F)
  BY DEF CloseEffect
<1>3. Closed' = Closed \cup F
  <2>1. close' = [c \in Conns |-> IF c \notin ToClose(D) THEN close[c]
                                  ELSE IF S[c] = {} THEN "closed" ELSE "closing"]
    BY DEF CloseEffect
  <2>2. \A c \in Conns : close'[c] = "closed" <=> close[c] = "closed" \/ c \in F
    BY <2>1 DEF ToClose
  <2> QED
    BY <1>1, <2>2 DEF Closed
<1> QED
  <2> HIDE DEF F
  <2> QED BY <1>1, <1>2, <1>3, StatsCleanup

LEMMA StatsAnnounce ==
    ASSUME TypeOK, StatsInv, NEW c \in Conns, phase[c] # "live", Announce(c)
    PROVE  StatsInv'
<1>1. /\ connectedClients' = connectedClients + 1
      /\ Closed' = Closed
      /\ Live' = Live \cup {c} /\ c \notin Live
  <2>1. \A x \in Conns : phase'[x] = IF x = c THEN "live" ELSE phase[x]
    BY DEF Announce, TypeOK
  <2>2. Live' = Live \cup {c}
    BY <2>1 DEF Live
  <2> QED
    BY <2>2 DEF Announce, Live, Closed
<1>2. /\ Live \in SUBSET Conns /\ Closed \in SUBSET Conns
  BY DEF Live, Closed
<1>3. IsFiniteSet(Live) /\ Cardinality(Live) \in Nat /\ Cardinality(Closed) \in Nat
  BY <1>2, ConnsFinite
<1>4. Cardinality(Live \cup {c}) = Cardinality(Live) + 1
  BY <1>1, <1>3, FS_AddElement
<1> QED
  BY <1>1, <1>3, <1>4 DEF StatsInv

\* A step that changes neither set and not the counter.
LEMMA StatsSame ==
    ASSUME StatsInv, Live' = Live, Closed' = Closed, connectedClients' = connectedClients
    PROVE  StatsInv'
BY DEF StatsInv

LEMMA StatsStep == IInv /\ StatsInv /\ [Next]_vars => StatsInv'
<1> SUFFICES ASSUME TypeOK, CloseInv, StatsInv, [Next]_vars PROVE StatsInv'
  BY DEF IInv
<1> USE DEF session, wills, closing
<1>1. ASSUME NEW c \in Conns, NEW k \in Ids \cup {None}, NEW p \in Profiles, Connect(c, k, p)
      PROVE  StatsInv'
  BY <1>1, StatsSame DEF Connect, Live, Closed, TypeOK
<1>2. ASSUME NEW c \in Conns, NEW t \in Topics, Subscribe(c, t) PROVE StatsInv'
  BY <1>2, StatsSame DEF Subscribe, Live, Closed
<1>3. ASSUME NEW c \in Conns, NEW t \in Topics, NEW err \in BOOLEAN,
             SubscribeCallback(c, t, err)
      PROVE  StatsInv'
  <2>1. Live' = Live
    BY <1>3 DEF SubscribeCallback, Live
  <2>2. CASE err
    <3>1. CloseEffect({c}, subs', None, "subscribe error")
      BY <1>3, <2>2 DEF SubscribeCallback
    <3> QED
      BY <2>1, <3>1, StatsClose
  <2>3. CASE ~err
    BY <1>3, <2>1, <2>3, StatsSame DEF SubscribeCallback, Closed
  <2> QED
    BY <2>2, <2>3
<1>4. ASSUME NEW c \in Conns, Disconnect(c) PROVE StatsInv'
  BY <1>4, StatsClose DEF Disconnect, Live
<1>5. ASSUME NEW c \in Conns, NetClose(c) PROVE StatsInv'
  <2>1. CASE Listening(c)
    BY <1>5, <2>1, StatsClose DEF NetClose, NonDisconnectClose, Live
  <2>2. CASE ~Listening(c)
    BY <1>5, <2>2, StatsSame DEF NetClose, Live, Closed
  <2> QED
    BY <2>1, <2>2
<1>6. ASSUME NEW c \in Conns, ClientError(c) PROVE StatsInv'
  BY <1>6, StatsClose DEF ClientError, NonDisconnectClose, Live
<1>7. ASSUME NEW c \in Conns, AuthDeny(c) PROVE StatsInv'
  BY <1>7, StatsSame DEF AuthDeny, Live, Closed, TypeOK
<1>8. ASSUME NEW c \in Conns, AuthAccept(c) PROVE StatsInv'
  <2>1. Live' = Live
    BY <1>8 DEF AuthAccept, Live, TypeOK
  <2>2. Holder(c) \in SUBSET Conns
    BY DEF Holder
  <2>3. CloseEffect(Holder(c), subs, c, "new connection request")
    BY <1>8 DEF AuthAccept
  <2> QED
    BY <2>1, <2>2, <2>3, StatsClose
<1>9. ASSUME NEW c \in Conns, LookupDone(c) PROVE StatsInv'
  <2>1. phase[c] = "lookup"
    BY <1>9 DEF LookupDone
  <2>2. CASE Announce(c)
    BY <2>1, <2>2, StatsAnnounce
  <2>3. CASE ~Announce(c)
    BY <1>9, <2>1, <2>3, StatsSame DEF LookupDone, Live, Closed, TypeOK
  <2> QED
    BY <2>2, <2>3
<1>10. ASSUME NEW c \in Conns, LookupFail(c) PROVE StatsInv'
  <2>1. Live' = Live
    BY <1>10 DEF LookupFail, Live, TypeOK
  <2>2. CloseEffect({c}, subs, None, "error")
    BY <1>10 DEF LookupFail, NonDisconnectClose
  <2> QED
    BY <2>1, <2>2, StatsClose
<1>11. ASSUME NEW c \in Conns, NEW t \in Topics, NEW err \in BOOLEAN,
              RestoreCallback(c, t, err)
       PROVE  StatsInv'
  <2>1. CASE phase[c] = "restore" /\ (err \/ restoring[c] = {t})
    BY <1>11, <2>1, StatsAnnounce DEF RestoreCallback
  <2>2. CASE ~(phase[c] = "restore" /\ (err \/ restoring[c] = {t}))
    BY <1>11, <2>2, StatsSame DEF RestoreCallback, Live, Closed
  <2> QED
    BY <2>1, <2>2
<1>12. ASSUME NEW c \in Conns, NEW t \in Topics, NEW err \in BOOLEAN,
              UnsubCallback(c, t, err)
       PROVE  StatsInv'
  <2>1. CASE EndsClose(c, t, err)
    <3>1. /\ close[c] = "closing" /\ close' = [close EXCEPT ![c] = "closed"]
          /\ Cleanup({c}) /\ phase' = Resumed(c)
      BY <1>12, <2>1 DEF UnsubCallback, EndsClose
    <3>2. Live' = Live
      <4>1. \A x \in Conns : x = waiter[c] => phase[x] = "takeover"
        BY <3>1 DEF CloseInv, TakeoverInv, Resumes
      <4> QED
        BY <3>1, <4>1 DEF Resumed, Live
    <3>3. {c} \cap Closed = {} /\ Closed' = Closed \cup {c}
      BY <3>1 DEF Closed, TypeOK
    <3> QED
      BY <3>1, <3>2, <3>3, StatsCleanup
  <2>2. CASE ~EndsClose(c, t, err)
    BY <1>12, <2>2, StatsSame DEF UnsubCallback, Live, Closed
  <2> QED
    BY <2>1, <2>2
<1>13. ASSUME NEW c \in Conns, PublishWill(c) PROVE StatsInv'
  BY <1>13, StatsSame DEF PublishWill, Live, Closed
<1>14. ASSUME NEW c \in Conns, KeepaliveTimeout(c) PROVE StatsInv'
  BY <1>14, StatsClose DEF KeepaliveTimeout, NonDisconnectClose, Live
<1>15. ASSUME NEW k \in Keys, Kick(k) PROVE StatsInv'
  <2>1. {clients[k]} \in SUBSET Conns
    BY <1>15 DEF Kick, TypeOK
  <2> QED
    BY <1>15, <2>1, StatsClose DEF Kick, Live
<1>16. ASSUME ServerClose PROVE StatsInv'
  <2>1. Registered \in SUBSET Conns
    BY DEF Registered
  <2> QED
    BY <1>16, <2>1, StatsClose DEF ServerClose, Live
<1>17. CASE ServerFinish \/ UNCHANGED vars
  BY <1>17, StatsSame DEF ServerFinish, vars, Live, Closed
<1> QED
  BY <1>1, <1>2, <1>3, <1>4, <1>5, <1>6, <1>7, <1>8, <1>9, <1>10, <1>11, <1>12,
     <1>13, <1>14, <1>15, <1>16, <1>17 DEF Next, Peer, Callback

\* Whoever is live and closed counts in both sets.
LEMMA StatsDriftFromInv == StatsInv => StatsDrift
<1> DEFINE L == {c \in Conns : phase[c] = "live" /\ close[c] # "closed"}
           N == {c \in Conns : phase[c] # "live" /\ close[c] = "closed"}
           B == Live \cap Closed
<1>1. L = Live \ Closed /\ N = Closed \ Live /\ Closed \cap Live = B
  BY DEF Live, Closed
<1>2. Live \in SUBSET Conns /\ Closed \in SUBSET Conns /\ B \in SUBSET Conns
  BY DEF Live, Closed
<1>3. /\ IsFiniteSet(Live) /\ IsFiniteSet(Closed)
      /\ Cardinality(Live) \in Nat /\ Cardinality(Closed) \in Nat /\ Cardinality(B) \in Nat
  BY <1>2, ConnsFinite
<1>4. Cardinality(Live \ Closed) = Cardinality(Live) - Cardinality(B)
  BY <1>3, FS_Difference
<1>5. Cardinality(Closed \ Live) = Cardinality(Closed) - Cardinality(Closed \cap Live)
  BY <1>3, FS_Difference
<1>6. Cardinality(Closed \cap Live) = Cardinality(B)
  BY <1>1
<1>7. Cardinality(L) = Cardinality(Live) - Cardinality(B)
  BY <1>1, <1>4
<1>8. Cardinality(N) = Cardinality(Closed) - Cardinality(B)
  BY <1>1, <1>5, <1>6
<1>9. StatsDrift <=> connectedClients = Cardinality(L) - Cardinality(N)
  BY DEF StatsDrift
<1> HIDE DEF L, N, B
<1> QED
  BY <1>3, <1>7, <1>8, <1>9 DEF StatsInv

LEMMA StatsInit == Init => StatsInv
<1> SUFFICES ASSUME Init PROVE StatsInv
  OBVIOUS
<1>1. Live = {} /\ Closed = {} /\ connectedClients = 0
  BY DEF Init, Live, Closed
<1> QED
  BY <1>1, FS_EmptySet DEF StatsInv

\* The counter of stats.js drifts by the clients closed before they were
\* announced, and by nothing else, however many clients come and go.
THEOREM StatsDriftBound == Spec => []StatsDrift
<1>1. Init => IInv /\ StatsInv
  BY InvInit, StatsInit
<1>2. IInv /\ StatsInv /\ [Next]_vars => (IInv /\ StatsInv)'
  BY InvStep, StatsStep
<1> QED
  BY <1>1, <1>2, StatsDriftFromInv, PTL DEF Spec

-----------------------------------------------------------------------------
(* The takeover *)

\* A connection leaves the handshake only with the client of its id gone.
Evicts ==
    \A c \in Conns :
        phase[c] \in {"auth", "takeover"} /\ phase'[c] = "lookup" =>
            \A d \in Conns : clients'[key[c]] = d => close'[d] # "open"

\* The step that lets a newcomer go on closes the registered client of its
\* id, or ends the close of that client.
THEOREM TakeoverEvicts == Spec => NewcomerEvictsRegistered
<1>1. ASSUME IInv, [Next]_vars PROVE [Evicts]_vars
  <2> SUFFICES ASSUME Next, NEW c \in Conns, phase[c] \in {"auth", "takeover"},
                      phase'[c] = "lookup", NEW d \in Conns, clients'[key[c]] = d
               PROVE  close'[d] # "open"
    BY <1>1 DEF Evicts
  <2> USE <1>1 DEF IInv, session, wills, closing
  <2>1. CASE AuthAccept(c)
    <3>1. clients[key[c]] = d
      BY <2>1, LifecycleAssumption DEF AuthAccept, CloseEffect, Cleanup, TypeOK
    <3>2. d \in Holder(c)
      BY <3>1 DEF Holder
    <3> QED
      BY <2>1, <3>2 DEF AuthAccept, CloseEffect, ToClose, TypeOK
  <2>2. ASSUME NEW x \in Conns, NEW t \in Topics, NEW err \in BOOLEAN,
               UnsubCallback(x, t, err)
        PROVE  FALSE
    <3>1. /\ close[x] = "closing" /\ Cleanup({x}) /\ phase' = Resumed(x)
      BY <2>2 DEF UnsubCallback, EndsClose
    <3>2. waiter[x] = c
      BY <3>1 DEF Resumed
    <3>3. key[x] = key[c]
      BY <3>1, <3>2 DEF Resumes, CloseInv, TakeoverInv
    <3>4. clients'[key[c]] = None
      BY <3>1, <3>3 DEF Cleanup, TypeOK
    <3> QED
      BY <3>4, LifecycleAssumption
  <2>3. phase[c] # "lookup"
    OBVIOUS
  <2>4. ASSUME NEW x \in Conns, x # c \/ ~AuthAccept(x),
               \/ \E k \in Ids \cup {None}, p \in Profiles : Connect(x, k, p)
               \/ AuthDeny(x) \/ AuthAccept(x) \/ LookupDone(x) \/ LookupFail(x)
               \/ \E t \in Topics, err \in BOOLEAN : RestoreCallback(x, t, err)
        PROVE  FALSE
    <3>1. CASE AuthAccept(x)
      BY <2>3, <2>4, <3>1 DEF AuthAccept, TypeOK
    <3>2. CASE \/ \E k \in Ids \cup {None}, p \in Profiles : Connect(x, k, p)
               \/ AuthDeny(x) \/ LookupFail(x)
      BY <2>3, <3>2 DEF Connect, AuthDeny, LookupFail, TypeOK
    <3>3. CASE \/ LookupDone(x)
               \/ \E t \in Topics, err \in BOOLEAN : RestoreCallback(x, t, err)
      BY <2>3, <3>3 DEF LookupDone, RestoreCallback, Announce, TypeOK
    <3> QED
      BY <2>4, <3>1, <3>2, <3>3
  <2>5. ASSUME phase' = phase PROVE FALSE
    BY <2>3, <2>5
  <2>6. ASSUME NEW x \in Conns,
               \/ \E t \in Topics : Subscribe(x, t)
               \/ \E t \in Topics, err \in BOOLEAN : SubscribeCallback(x, t, err)
               \/ Disconnect(x) \/ NetClose(x) \/ ClientError(x)
               \/ PublishWill(x) \/ KeepaliveTimeout(x)
        PROVE  FALSE
    BY <2>5, <2>6 DEF Subscribe, SubscribeCallback, Disconnect, NetClose, ClientError,
                      PublishWill, KeepaliveTimeout
  <2>7. ASSUME (\E k \in Keys : Kick(k)) \/ ServerClose \/ ServerFinish PROVE FALSE
    BY <2>5, <2>7 DEF Kick, ServerClose, ServerFinish
  <2> QED
    BY <2>1, <2>2, <2>4, <2>6, <2>7 DEF Next, Peer, Callback
<1>2. Spec => [][Evicts]_vars
  BY InvInit, InvStep, <1>1, PTL DEF Spec
<1> QED
  BY <1>2 DEF Evicts, NewcomerEvictsRegistered

-----------------------------------------------------------------------------
(* The handover of a client id *)

Waiting == {"idle", "auth", "refused"}

\* What the mapping makes of a state.
Reading ==
    /\ conn \in [Conns -> Takeover!States]
    /\ \A c \in Conns : phase[c] \in Waiting => conn[c] = "idle"
    /\ \A c \in Conns : phase[c] = "takeover" => conn[c] = "waiting"
    /\ \A c \in Conns : phase[c] \notin Early => Completed(c) /\ conn[c] = close[c]
    /\ \A c, d \in Conns : d \in awaits[c] <=> Resumes(d, c)
    /\ \A c \in Conns : c \in announced <=> phase[c] = "live"
    /\ Registered \subseteq Conns
    /\ \A c \in Conns : c \in Registered <=> clients[key[c]] = c

LEMMA Mapped == IInv => Reading
<1> SUFFICES ASSUME IInv PROVE Reading
  OBVIOUS
<1> USE DEF IInv
<1>1. /\ \A c \in Conns : phase[c] \in Waiting => conn[c] = "idle"
      /\ \A c \in Conns : phase[c] = "takeover" => conn[c] = "waiting"
  BY DEF conn, Waiting
<1>2. \A c \in Conns : phase[c] \notin Early => Completed(c) /\ conn[c] = close[c]
  BY DEF conn, Early, Completed, TypeOK, Phases
<1>3. \A c \in Conns : conn[c] \in Takeover!States
  <2> SUFFICES ASSUME NEW c \in Conns PROVE conn[c] \in Takeover!States
    OBVIOUS
  <2>1. CASE phase[c] \in Early
    BY <1>1, <2>1 DEF Early, Waiting, Takeover!States
  <2>2. CASE phase[c] \notin Early
    BY <1>2, <2>2 DEF Takeover!States, TypeOK
  <2> QED
    BY <2>1, <2>2
<1>4. conn \in [Conns -> Takeover!States]
  BY <1>3 DEF conn
<1>5. \A c, d \in Conns : d \in awaits[c] <=> Resumes(d, c)
  BY DEF awaits, Resumes
<1>6. Registered \subseteq Conns /\ \A c \in Conns : c \in Registered <=> clients[key[c]] = c
  BY DEF Registered, CloseInv, RegistrySound, TypeOK
<1> QED
  BY <1>1, <1>2, <1>4, <1>5, <1>6 DEF Reading, announced

\* A step that leaves these alone changes nothing of Handover.
LEMMA StutterMapped ==
    ASSUME UNCHANGED <<phase, key, close, waiter, clients>>
    PROVE  UNCHANGED Takeover!vars
<1>1. conn' = conn
  BY DEF conn
<1>2. awaits' = awaits /\ announced' = announced
  BY DEF awaits, announced
<1>3. Registered' = Registered
  BY DEF Registered
<1> QED
  BY <1>1, <1>2, <1>3 DEF Takeover!vars

\* The end of a close deletes its key.
LEMMA CleanupMapped ==
    ASSUME IInv, Reading, Reading', key' = key, NEW F \in SUBSET Conns,
           \A k \in Keys : clients'[k] = IF \E c \in F : key[c] = k THEN None ELSE clients[k],
           Takeover!Ended = F
    PROVE  Takeover!Unregister
<1>1. ASSUME NEW c \in Conns
      PROVE  c \in Registered' <=> c \in Registered /\ \A d \in F : key[d] # key[c]
  <2>1. key[c] \in Keys
    BY DEF IInv, TypeOK
  <2>2. c \in Registered' <=> clients'[key[c]] = c
    BY DEF Reading
  <2>3. c \in Registered <=> clients[key[c]] = c
    BY DEF Reading
  <2> QED
    BY <2>1, <2>2, <2>3, LifecycleAssumption
<1> QED
  BY <1>1 DEF Takeover!Unregister, Reading

\* Closes that nobody waits for.
LEMMA CloseMapped ==
    ASSUME IInv, Reading, Reading',
           NEW D \in SUBSET Conns, NEW S \in [Conns -> SUBSET Topics],
           NEW w \in {None, Server}, NEW why,
           CloseEffect(D, S, w, why), NotEarly(D), QuietStep
    PROVE  Takeover!Close
<1> DEFINE F == {c \in ToClose(D) : S[c] = {}}
<1>1. \A c \in Conns : \/ UNCHANGED <<close[c], waiter[c]>>
                       \/ /\ c \in D /\ close[c] = "open" /\ waiter'[c] = w
                          /\ close'[c] = (IF S[c] = {} THEN "closed" ELSE "closing")
  BY DEF CloseEffect, ToClose, IInv, TypeOK
<1>2. \A c \in Conns : phase'[c] \notin Early <=> phase[c] \notin Early
  BY DEF QuietStep, Early
<1>3. \A c \in Conns : phase'[c] # phase[c] => phase[c] \notin Early
  BY DEF QuietStep, Early
<1>4. ASSUME NEW c \in Conns
      PROVE  conn'[c] = conn[c] \/ (conn[c] = "open" /\ conn'[c] \in Takeover!Shut)
  <2>1. CASE phase[c] \in Early
    <3>1. phase'[c] = phase[c]
      BY <1>3, <2>1
    <3> QED
      BY <2>1, <3>1 DEF Reading, Early, Waiting
  <2>2. CASE phase[c] \notin Early
    <3>1. conn[c] = close[c] /\ conn'[c] = close'[c]
      BY <1>2, <2>2 DEF Reading
    <3> QED
      BY <1>1, <3>1 DEF Takeover!Shut
  <2> QED
    BY <2>1, <2>2
<1>5. Takeover!Ended = F
  <2>1. ASSUME NEW c \in Conns PROVE conn[c] # "closed" /\ conn'[c] = "closed" <=> c \in F
    <3>1. CASE phase[c] \in Early
      <4>1. conn'[c] # "closed"
        BY <1>3, <3>1 DEF Reading, Early, Waiting
      <4>2. c \notin D
        BY <3>1 DEF NotEarly
      <4> QED
        BY <4>1, <4>2 DEF ToClose
    <3>2. CASE phase[c] \notin Early
      <4>1. conn[c] = close[c] /\ conn'[c] = close'[c]
        BY <1>2, <3>2 DEF Reading
      <4>2. close'[c] = IF c \in D /\ close[c] = "open"
                        THEN IF S[c] = {} THEN "closed" ELSE "closing" ELSE close[c]
        BY DEF CloseEffect, ToClose
      <4> QED
        BY <4>1, <4>2 DEF ToClose
    <3> QED
      BY <3>1, <3>2
  <2>2. F \subseteq Conns
    BY DEF ToClose
  <2> QED
    BY <2>1, <2>2 DEF Takeover!Ended
<1>6. Takeover!Unregister
  <2>1. \A k \in Keys : clients'[k] = IF \E c \in F : key[c] = k THEN None ELSE clients[k]
    BY DEF CloseEffect, Cleanup
  <2>2. F \in SUBSET Conns /\ key' = key
    BY DEF ToClose, QuietStep
  <2> HIDE DEF F
  <2> QED
    BY <1>5, <2>1, <2>2, CleanupMapped
<1>7. awaits' = awaits
  <2>1. \A c, d \in Conns : Resumes(d, c)' <=> Resumes(d, c)
    BY <1>1, LifecycleAssumption DEF Resumes
  <2> QED
    BY <2>1 DEF awaits, Resumes
<1>8. announced' = announced
  BY DEF announced, QuietStep
<1> QED
  BY <1>4, <1>6, <1>7, <1>8 DEF Takeover!Close, Reading, QuietStep

\* A client that was restored is announced.
LEMMA AnnounceMapped ==
    ASSUME IInv, Reading, Reading', NEW c \in Conns, phase[c] \in {"lookup", "restore"},
           Announce(c), key' = key
    PROVE  Takeover!Announce(c)
<1>1. /\ phase' = [phase EXCEPT ![c] = "live"] /\ clients' = [clients EXCEPT ![key[c]] = c]
      /\ close' = close /\ waiter' = waiter
  BY DEF Announce
<1>2. conn[c] = close[c] /\ conn[c] \notin {"idle", "waiting"} /\ c \notin announced
  BY DEF Reading, Early, IInv, TypeOK
<1>3. announced' = announced \cup {c}
  BY <1>1 DEF announced, IInv, TypeOK
<1>4. \A d \in Conns : d \in Registered' <=> d = c \/ (d \in Registered /\ key[d] # key[c])
  BY <1>1 DEF Reading, IInv, TypeOK
<1>5. Registered' = {d \in Registered : key[d] # key[c]} \cup {c}
  BY <1>4 DEF Reading
<1>6. conn' = conn
  <2>1. ASSUME NEW d \in Conns PROVE conn'[d] = conn[d]
    <3>1. CASE d = c
      <4>1. phase'[c] \notin Early /\ phase[c] \notin Early
        BY <1>1 DEF Early, IInv, TypeOK
      <4> QED
        BY <1>1, <3>1, <4>1 DEF Reading
    <3>2. CASE d # c
      BY <1>1, <3>2 DEF conn, IInv, TypeOK
    <3> QED
      BY <3>1, <3>2
  <2> QED
    BY <2>1 DEF conn
<1>7. awaits' = awaits
  BY <1>1 DEF awaits
<1> QED
  BY <1>2, <1>3, <1>5, <1>6, <1>7 DEF Takeover!Announce

\* A connection that is authenticated closes the client that it finds.
LEMMA AuthAcceptMapped ==
    ASSUME IInv, Reading, Reading', NEW c \in Conns, AuthAccept(c)
    PROVE  Takeover!Begin(c)
<1> DEFINE D == Holder(c)
<1> USE DEF IInv
<1>1. /\ phase[c] = "auth" /\ key' = key
      /\ phase' = [phase EXCEPT ![c] = IF CallsBackLater(D) THEN "takeover" ELSE "lookup"]
      /\ CloseEffect(D, subs, c, "new connection request")
  BY DEF AuthAccept, closing
<1>2. /\ D \subseteq Conns /\ c \notin D
      /\ \A d \in Conns : d \in D <=> d \in Registered /\ key[d] = key[c]
      /\ \A d \in D : phase[d] = "live"
  <2>1. D \subseteq Conns /\ \A d \in Conns : d \in D <=> clients[key[c]] = d
    BY DEF Holder
  <2>2. key[c] \in Keys
    BY DEF TypeOK
  <2>3. \A d \in D : phase[d] = "live" /\ key[d] = key[c]
    BY <2>1, <2>2 DEF CloseInv, RegistrySound
  <2>4. c \notin D
    BY <1>1, <2>3
  <2>5. \A d \in Conns : d \in Registered <=> clients[key[d]] = d
    BY DEF Reading
  <2> QED
    BY <2>1, <2>3, <2>4, <2>5
<1>3. \A d \in D : conn[d] = close[d] /\ conn'[d] = close'[d]
  <2> SUFFICES ASSUME NEW d \in D PROVE conn[d] = close[d] /\ conn'[d] = close'[d]
    OBVIOUS
  <2>1. d \in Conns /\ phase[d] = "live" /\ phase'[d] = "live"
    BY <1>1, <1>2 DEF TypeOK
  <2> QED
    BY <2>1 DEF conn
<1>4. Takeover!Rivals(c) = {d \in D : close[d] = "open"}
  BY <1>2, <1>3 DEF Takeover!Rivals, Reading
<1>5. \A d \in Conns :
         /\ close'[d] = IF d \in D /\ close[d] = "open"
                        THEN IF subs[d] = {} THEN "closed" ELSE "closing" ELSE close[d]
         /\ waiter'[d] = IF d \in D /\ close[d] = "open" THEN c ELSE waiter[d]
  BY <1>1 DEF CloseEffect, ToClose
<1>6. \A d \in Conns : d # c /\ d \notin Takeover!Rivals(c) => conn'[d] = conn[d]
  <2> SUFFICES ASSUME NEW d \in Conns, d # c, d \notin Takeover!Rivals(c) PROVE conn'[d] = conn[d]
    OBVIOUS
  <2>1. close'[d] = close[d] /\ phase'[d] = phase[d]
    BY <1>1, <1>4, <1>5 DEF TypeOK
  <2> QED
    BY <2>1 DEF conn
<1>7. \A d \in Takeover!Rivals(c) : conn'[d] \in Takeover!Shut
  BY <1>2, <1>3, <1>4, <1>5 DEF Takeover!Shut
<1>8. conn[c] = "idle"
  BY <1>1 DEF Reading, Waiting
<1>9. conn'[c] = IF CallsBackLater(D) THEN "waiting" ELSE "open"
  <2>1. CASE CallsBackLater(D)
    <3>1. phase'[c] = "takeover"
      BY <1>1, <2>1 DEF TypeOK
    <3> QED
      BY <2>1, <3>1 DEF Reading
  <2>2. CASE ~CallsBackLater(D)
    <3>1. phase'[c] \notin Early
      BY <1>1, <2>2 DEF Early, TypeOK
    <3>2. close'[c] = "open"
      BY <1>1, <1>2, <1>5 DEF CloseInv, EarlyIsOpen, Early
    <3> QED
      BY <2>2, <3>1, <3>2 DEF Reading
  <2> QED
    BY <2>1, <2>2
<1>10. Takeover!Ended = {d \in D : close[d] = "open" /\ subs[d] = {}}
  <2>1. ASSUME NEW d \in Conns
        PROVE  conn[d] # "closed" /\ conn'[d] = "closed" <=> d \in D /\ close[d] = "open" /\ subs[d] = {}
    <3>1. CASE d = c
      BY <1>2, <1>9, <3>1
    <3>2. CASE d # c /\ d \notin Takeover!Rivals(c)
      BY <1>4, <1>6, <3>2
    <3>3. CASE d \in Takeover!Rivals(c)
      BY <1>3, <1>4, <1>5, <3>3
    <3> QED
      BY <3>1, <3>2, <3>3
  <2> QED
    BY <1>2, <2>1 DEF Takeover!Ended
<1>11. ~CallsBackLater(D) => Takeover!Rivals(c) \subseteq Takeover!Ended
  BY <1>4, <1>10 DEF CallsBackLater
<1>12. awaits' = [awaits EXCEPT ![c] = Takeover!Rivals(c) \ Takeover!Ended]
  <2>1. \A d \in Conns : ~Resumes(d, c)
    BY <1>1 DEF CloseInv, TakeoverInv
  <2>2. \A d \in Conns : Resumes(d, c)' <=> d \in Takeover!Rivals(c) \ Takeover!Ended
    BY <1>4, <1>5, <1>10, <2>1 DEF Resumes
  <2>3. ASSUME NEW e \in Conns, e # c PROVE \A d \in Conns : Resumes(d, e)' <=> Resumes(d, e)
    BY <1>5, <2>3 DEF Resumes
  <2>4. awaits'[c] = Takeover!Rivals(c) \ Takeover!Ended
    BY <1>2, <1>4, <2>2 DEF awaits, Resumes
  <2>5. \A e \in Conns \ {c} : awaits'[e] = awaits[e]
    BY <2>3 DEF awaits, Resumes
  <2> QED
    BY <2>4, <2>5 DEF awaits
<1>13. Takeover!Unregister
  <2> DEFINE F == {d \in D : close[d] = "open" /\ subs[d] = {}}
  <2>1. \A k \in Keys : clients'[k] = IF \E d \in F : key[d] = k THEN None ELSE clients[k]
    BY <1>1 DEF CloseEffect, Cleanup, ToClose
  <2>2. F \in SUBSET Conns
    BY <1>2
  <2> HIDE DEF F
  <2> QED
    BY <1>1, <1>10, <2>1, <2>2, CleanupMapped DEF F
<1>14. announced' = announced
  BY <1>1 DEF announced, TypeOK
<1> QED
  BY <1>1, <1>6, <1>7, <1>8, <1>9, <1>11, <1>12, <1>13, <1>14 DEF Takeover!Begin, Reading

\* The last answer of a close ends it and resumes who waits for it.
LEMMA UnsubCallbackMapped ==
    ASSUME IInv, Reading, Reading', NEW c \in Conns, NEW t \in Topics, NEW err \in BOOLEAN,
           UnsubCallback(c, t, err), EndsClose(c, t, err)
    PROVE  Takeover!End(c)
<1> USE DEF IInv
<1>1. /\ close[c] = "closing" /\ close' = [close EXCEPT ![c] = "closed"]
      /\ Cleanup({c}) /\ phase' = Resumed(c)
      /\ key' = key /\ waiter' = waiter
  BY DEF UnsubCallback, EndsClose
<1>2. phase[c] \notin Early
  BY <1>1 DEF CloseInv, EarlyIsOpen
<1>3. ASSUME NEW d \in Conns, d = waiter[c]
      PROVE  phase[d] = "takeover" /\ phase'[d] = "lookup" /\ awaits[d] \subseteq {c} /\ d # c
  <2>1. Resumes(c, d)
    BY <1>1, <1>3 DEF Resumes
  <2>2. phase[d] = "takeover" /\ \A e \in Conns : Resumes(e, d) => e = c
    BY <2>1 DEF CloseInv, TakeoverInv
  <2>3. awaits[d] \subseteq {c}
    BY <2>2 DEF awaits, Resumes
  <2> QED
    BY <1>1, <1>2, <1>3, <2>2, <2>3 DEF Resumed, Early
<1>4. \A d \in Conns : d # waiter[c] => phase'[d] = phase[d]
  BY <1>1 DEF Resumed
<1>5. conn[c] = "closing" /\ conn'[c] = "closed"
  <2>1. phase'[c] = phase[c]
    BY <1>3, <1>4
  <2> QED
    BY <1>1, <1>2, <2>1 DEF Reading, TypeOK
<1>6. ASSUME NEW d \in Conns \ {c}
      PROVE  conn'[d] = conn[d] \/ (conn[d] = "waiting" /\ awaits[d] \subseteq {c} /\ conn'[d] = "open")
  <2>1. CASE d = waiter[c]
    <3>1. phase[d] = "takeover" /\ phase'[d] = "lookup" /\ awaits[d] \subseteq {c}
      BY <1>3, <2>1
    <3>2. close'[d] = "open"
      BY <1>1, <3>1 DEF CloseInv, EarlyIsOpen, Early, TypeOK
    <3>3. conn[d] = "waiting" /\ conn'[d] = close'[d]
      BY <3>1 DEF Reading, Early
    <3> QED
      BY <3>1, <3>2, <3>3
  <2>2. CASE d # waiter[c]
    <3>1. phase'[d] = phase[d] /\ close'[d] = close[d]
      BY <1>1, <1>4, <2>2 DEF TypeOK
    <3> QED
      BY <3>1 DEF conn
  <2> QED
    BY <2>1, <2>2
<1>7. Takeover!Ended = {c}
  BY <1>5, <1>6 DEF Takeover!Ended
<1>8. Takeover!Unregister
  <2>1. \A k \in Keys : clients'[k] = IF \E d \in {c} : key[d] = k THEN None ELSE clients[k]
    BY <1>1 DEF Cleanup
  <2> QED
    BY <1>1, <1>7, <2>1, CleanupMapped
<1>9. awaits' = [d \in Conns |-> awaits[d] \ {c}]
  <2>1. \A d, e \in Conns : Resumes(e, d)' <=> Resumes(e, d) /\ e # c
    BY <1>1 DEF Resumes, TypeOK
  <2> QED
    BY <2>1 DEF awaits, Resumes
<1>10. announced' = announced
  <2>1. \A d \in Conns : phase'[d] = "live" <=> phase[d] = "live"
    BY <1>3, <1>4
  <2> QED
    BY <2>1 DEF announced
<1> QED
  BY <1>1, <1>5, <1>6, <1>8, <1>9, <1>10 DEF Takeover!End, Reading

\* Every step is one of Handover, or changes nothing of it.
LEMMA Handed == IInv /\ IInv' /\ [Next]_vars => [Takeover!Next]_(Takeover!vars)
<1> SUFFICES ASSUME IInv, IInv', [Next]_vars
             PROVE  Takeover!Next \/ UNCHANGED Takeover!vars
  OBVIOUS
<1> DEFINE Goal == Takeover!Next \/ UNCHANGED Takeover!vars
<1>0. Reading /\ Reading'
  <2>1. Reading
    BY Mapped
  <2>2. Reading'
    BY Mapped, PTL
  <2> QED
    BY <2>1, <2>2
<1> USE DEF session, wills, closing
<1>1. ASSUME UNCHANGED <<phase, key, close, waiter, clients>> PROVE Goal
  BY <1>1, StutterMapped
\* Closes.
<1>2. ASSUME NEW D \in SUBSET Conns, NEW S \in [Conns -> SUBSET Topics], NEW w \in {None, Server},
             NEW why, CloseEffect(D, S, w, why), NotEarly(D), QuietStep
      PROVE  Goal
  <2>1. Takeover!Close
    BY <1>0, <1>2, CloseMapped
  <2> QED
    BY <2>1 DEF Takeover!Next
<1>3. ASSUME NEW c \in Conns, NEW why, NonDisconnectClose(c, why), Completed(c), QuietStep PROVE Goal
  <2>1. CloseEffect({c}, subs, None, why) /\ NotEarly({c})
    BY <1>3 DEF NonDisconnectClose, NotEarly, Completed, Early
  <2>2. subs \in [Conns -> SUBSET Topics]
    BY DEF IInv, TypeOK
  <2> HIDE DEF Goal
  <2> QED
    BY <1>2, <1>3, <2>1, <2>2
<1>4. ASSUME NEW c \in Conns, phase[c] \in {"lookup", "restore"}, Announce(c), key' = key PROVE Goal
  <2>1. Takeover!Announce(c)
    BY <1>0, <1>4, AnnounceMapped
  <2> QED
    BY <2>1 DEF Takeover!Next
\* Steps.
<1>5. ASSUME NEW c \in Conns, NEW k \in Ids \cup {None}, NEW p \in Profiles, Connect(c, k, p) PROVE Goal
  <2>1. /\ phase[c] = "idle" /\ UNCHANGED <<close, waiter, clients>>
        /\ \/ key' = [key EXCEPT ![c] = ClientId(c, k)] /\ phase' = [phase EXCEPT ![c] = "auth"]
           \/ key' = key /\ phase' = [phase EXCEPT ![c] = "refused"]
    BY <1>5 DEF Connect
  <2>2. conn' = conn
    <3>1. ASSUME NEW d \in Conns PROVE conn'[d] = conn[d]
      <4>1. CASE d = c
        BY <1>0, <2>1, <4>1 DEF Reading, Waiting, IInv, TypeOK
      <4>2. CASE d # c
        BY <2>1, <4>2 DEF conn, IInv, TypeOK
      <4> QED
        BY <4>1, <4>2
    <3> QED
      BY <3>1 DEF conn
  <2>3. awaits' = awaits /\ announced' = announced /\ Registered' = Registered
    BY <2>1 DEF awaits, announced, Registered, IInv, TypeOK
  <2>4. ClientId(c, k) \in Keys /\ conn[c] = "idle"
    BY <1>0, <2>1 DEF ClientId, Keys, Reading, Waiting
  <2>5. CASE key' = key
    BY <2>2, <2>3, <2>5 DEF Takeover!vars
  <2>6. CASE key' = [key EXCEPT ![c] = ClientId(c, k)]
    <3>1. Takeover!Identify(c)
      BY <2>2, <2>3, <2>4, <2>6 DEF Takeover!Identify
    <3> QED
      BY <3>1 DEF Takeover!Next
  <2> QED
    BY <2>1, <2>5, <2>6
<1>6. ASSUME NEW c \in Conns, NEW t \in Topics, Subscribe(c, t) PROVE Goal
  <2> HIDE DEF Goal
  <2> QED
    BY <1>1, <1>6 DEF Subscribe
<1>7. ASSUME NEW c \in Conns, NEW t \in Topics, NEW err \in BOOLEAN, SubscribeCallback(c, t, err) PROVE Goal
  <2>1. CASE err
    <3>1. CloseEffect({c}, subs', None, "subscribe error") /\ UNCHANGED <<phase, key>>
      BY <1>7, <2>1 DEF SubscribeCallback
    <3>2. NotEarly({c}) /\ QuietStep
      BY <1>7, <3>1 DEF SubscribeCallback, NotEarly, QuietStep, IInv, CloseInv, EarlyIsOpen, TypeOK
    <3>3. subs' \in [Conns -> SUBSET Topics]
      BY DEF IInv, TypeOK
    <3> HIDE DEF Goal
    <3> QED
      BY <1>2, <3>1, <3>2, <3>3
  <2>2. CASE ~err
    <3> HIDE DEF Goal
    <3> QED
      BY <1>1, <1>7, <2>2 DEF SubscribeCallback
  <2> QED
    BY <2>1, <2>2
<1>8. ASSUME NEW c \in Conns, Disconnect(c) PROVE Goal
  <2>1. /\ CloseEffect({c}, subs, None, "disconnect request")
        /\ NotEarly({c}) /\ QuietStep /\ subs \in [Conns -> SUBSET Topics]
    BY <1>8 DEF Disconnect, Listening, Completed, Early, NotEarly, QuietStep, IInv, TypeOK
  <2> HIDE DEF Goal
  <2> QED
    BY <1>2, <2>1
<1>9. ASSUME NEW c \in Conns, NetClose(c) PROVE Goal
  <2>1. CASE Listening(c)
    <3>1. Completed(c) /\ NonDisconnectClose(c, "close") /\ QuietStep
      BY <1>9, <2>1 DEF NetClose, Listening, QuietStep
    <3> HIDE DEF Goal
    <3> QED
      BY <1>3, <3>1
  <2>2. CASE ~Listening(c)
    <3> HIDE DEF Goal
    <3> QED
      BY <1>1, <1>9, <2>2 DEF NetClose
  <2> QED
    BY <2>1, <2>2
<1>10. ASSUME NEW c \in Conns, ClientError(c) PROVE Goal
  <2>1. Completed(c) /\ NonDisconnectClose(c, "error") /\ QuietStep
    BY <1>10 DEF ClientError, Listening, QuietStep
  <2> HIDE DEF Goal
  <2> QED
    BY <1>3, <2>1
<1>11. ASSUME NEW c \in Conns, AuthDeny(c) PROVE Goal
  <2>1. phase[c] = "auth" /\ phase' = [phase EXCEPT ![c] = "refused"] /\ UNCHANGED <<key, close, waiter, clients>>
    BY <1>11 DEF AuthDeny
  <2>2. conn' = conn
    <3>1. ASSUME NEW d \in Conns PROVE conn'[d] = conn[d]
      <4>1. CASE d = c
        BY <1>0, <2>1, <4>1 DEF Reading, Waiting, IInv, TypeOK
      <4>2. CASE d # c
        BY <2>1, <4>2 DEF conn, IInv, TypeOK
      <4> QED
        BY <4>1, <4>2
    <3> QED
      BY <3>1 DEF conn
  <2>3. awaits' = awaits /\ announced' = announced /\ Registered' = Registered
    BY <2>1 DEF awaits, announced, Registered, IInv, TypeOK
  <2> QED
    BY <2>1, <2>2, <2>3 DEF Takeover!vars
<1>12. ASSUME NEW c \in Conns, AuthAccept(c) PROVE Goal
  <2>1. Takeover!Begin(c)
    BY <1>0, <1>12, AuthAcceptMapped
  <2> QED
    BY <2>1 DEF Takeover!Next
<1>13. ASSUME NEW c \in Conns, LookupDone(c) PROVE Goal
  <2>1. phase[c] = "lookup" /\ key' = key
    BY <1>13 DEF LookupDone
  <2>2. CASE Announce(c)
    <3> HIDE DEF Goal
    <3> QED
      BY <1>4, <2>1, <2>2
  <2>3. CASE phase' = [phase EXCEPT ![c] = "restore"] /\ UNCHANGED closing
    <3>1. conn' = conn
      <4>1. ASSUME NEW d \in Conns PROVE conn'[d] = conn[d]
        <5>1. CASE d = c
          <6>1. phase'[c] = "restore" /\ close' = close
            BY <2>3 DEF IInv, TypeOK
          <6> QED
            BY <2>1, <5>1, <6>1 DEF conn
        <5>2. CASE d # c
          BY <2>3, <5>2 DEF conn, IInv, TypeOK
        <5> QED
          BY <5>1, <5>2
      <4> QED
        BY <4>1 DEF conn
    <3>2. awaits' = awaits /\ announced' = announced /\ Registered' = Registered
      BY <2>1, <2>3 DEF awaits, announced, Registered, IInv, TypeOK
    <3> QED
      BY <2>1, <3>1, <3>2 DEF Takeover!vars
  <2> QED
    BY <1>13, <2>2, <2>3 DEF LookupDone
<1>14. ASSUME NEW c \in Conns, LookupFail(c) PROVE Goal
  <2>1. Completed(c) /\ NonDisconnectClose(c, "error")
    BY <1>14 DEF LookupFail, Completed
  <2>2. QuietStep
    BY <1>14 DEF LookupFail, QuietStep, IInv, TypeOK
  <2> HIDE DEF Goal
  <2> QED
    BY <1>3, <2>1, <2>2
<1>15. ASSUME NEW c \in Conns, NEW t \in Topics, NEW err \in BOOLEAN, RestoreCallback(c, t, err) PROVE Goal
  <2>1. CASE phase[c] = "restore" /\ (err \/ restoring[c] = {t})
    <3>1. Announce(c) /\ key' = key
      BY <1>15, <2>1 DEF RestoreCallback
    <3> HIDE DEF Goal
    <3> QED
      BY <1>4, <2>1, <3>1
  <2>2. CASE ~(phase[c] = "restore" /\ (err \/ restoring[c] = {t}))
    <3> HIDE DEF Goal
    <3> QED
      BY <1>1, <1>15, <2>2 DEF RestoreCallback
  <2> QED
    BY <2>1, <2>2
<1>16. ASSUME NEW c \in Conns, NEW t \in Topics, NEW err \in BOOLEAN, UnsubCallback(c, t, err) PROVE Goal
  <2>1. CASE EndsClose(c, t, err)
    <3>1. Takeover!End(c)
      BY <1>0, <1>16, <2>1, UnsubCallbackMapped
    <3> QED
      BY <3>1 DEF Takeover!Next
  <2>2. CASE ~EndsClose(c, t, err)
    <3> HIDE DEF Goal
    <3> QED
      BY <1>1, <1>16, <2>2 DEF UnsubCallback
  <2> QED
    BY <2>1, <2>2
<1>17. ASSUME NEW c \in Conns, PublishWill(c) PROVE Goal
  <2> HIDE DEF Goal
  <2> QED
    BY <1>1, <1>17 DEF PublishWill
<1>18. ASSUME NEW c \in Conns, KeepaliveTimeout(c) PROVE Goal
  <2>1. Completed(c) /\ NonDisconnectClose(c, "keepalive timeout") /\ QuietStep
    BY <1>18 DEF KeepaliveTimeout, QuietStep
  <2> HIDE DEF Goal
  <2> QED
    BY <1>3, <2>1
<1>19. ASSUME NEW k \in Keys, Kick(k) PROVE Goal
  <2>1. clients[k] \in Conns /\ phase[clients[k]] = "live"
    <3>1. clients[k] \in Conns
      BY <1>19 DEF Kick, IInv, TypeOK
    <3> QED
      BY <3>1 DEF IInv, CloseInv, RegistrySound
  <2>2. /\ CloseEffect({clients[k]}, subs, None, "new connection request")
        /\ NotEarly({clients[k]}) /\ QuietStep /\ subs \in [Conns -> SUBSET Topics]
    BY <1>19, <2>1 DEF Kick, NotEarly, Early, QuietStep, IInv, TypeOK
  <2> HIDE DEF Goal
  <2> QED
    BY <1>2, <2>1, <2>2
<1>20. ASSUME ServerClose PROVE Goal
  <2>1. NotEarly(Registered) /\ Registered \in SUBSET Conns
    BY DEF Registered, NotEarly, Early, IInv, CloseInv, RegistrySound
  <2>2. /\ CloseEffect(Registered, subs, Server, "server closed")
        /\ QuietStep /\ subs \in [Conns -> SUBSET Topics]
    BY <1>20 DEF ServerClose, QuietStep, IInv, TypeOK
  <2> HIDE DEF Goal
  <2> QED
    BY <1>2, <2>1, <2>2
<1>21. ASSUME ServerFinish PROVE Goal
  <2> HIDE DEF Goal
  <2> QED
    BY <1>1, <1>21 DEF ServerFinish
<1>22. ASSUME UNCHANGED vars PROVE Goal
  <2>1. UNCHANGED <<phase, key, close, waiter, clients>>
    BY <1>22 DEF vars
  <2> QED
    BY <1>1, <2>1
<1> HIDE DEF Goal
<1>23. Goal
  BY <1>5, <1>6, <1>7, <1>8, <1>9, <1>10, <1>11, <1>12, <1>13, <1>14, <1>15, <1>16, <1>17,
     <1>18, <1>19, <1>20, <1>21, <1>22 DEF Next, Peer, Callback
<1> QED
  BY <1>23 DEF Goal

\* A broker hands a client id over as Handover promises, whatever fails, is
\* closed or closes meanwhile: every step is one of Handover or a stutter.
THEOREM HandsOver == Spec => HandoverImplemented
<1>1. Init => Takeover!Init
  <2> SUFFICES ASSUME Init PROVE Takeover!Init
    OBVIOUS
  <2>1. conn = [c \in Conns |-> "idle"]
    BY DEF Init, conn
  <2>2. awaits = [c \in Conns |-> {}] /\ announced = {}
    BY DEF Init, awaits, announced
  <2>3. Registered = {}
    BY LifecycleAssumption DEF Init, Registered
  <2>4. key \in [Conns -> Keys]
    BY DEF Init, Keys
  <2> QED
    BY <2>1, <2>2, <2>3, <2>4 DEF Takeover!Init
<1> QED
  BY <1>1, InvInit, InvStep, Handed, PTL DEF Spec, HandoverImplemented, Takeover!Spec
=============================================================================
