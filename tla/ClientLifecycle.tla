--------------------------- MODULE ClientLifecycle ---------------------------
(***************************************************************************)
(* The life of a connection in a Mosca broker: CONNECT and authentication, *)
(* takeover of a client id, restoring the session, registration in         *)
(* server.clients, the ways a client is closed, its last will, and the     *)
(* close of the server itself.  Models Client (lib/client.js), the         *)
(* client events of Server (lib/server.js) and the counter of lib/stats.js.*)
(*                                                                         *)
(* Node runs one callback at a time, so a callback is one action; what a   *)
(* callback starts and waits for is kept in a "pending" set until the      *)
(* action that answers it.  The model ends when the server emits "closed". *)
(***************************************************************************)
EXTENDS Integers, FiniteSets

CONSTANTS
    Conns,      \* network connections; each makes one Client object
    Ids,        \* client identifiers that a CONNECT packet may carry
    Topics,     \* topics that may be subscribed
    Profiles,   \* the CONNECT flags: clean session, has a will, keepalive > 0
    None,       \* no client, no waiter, the empty client id
    Server      \* the waiter of a close that Server.close asked for

ASSUME LifecycleAssumption ==
    /\ IsFiniteSet(Conns)
    /\ Conns \cap Ids = {}
    /\ None \notin Conns \cup Ids
    /\ Server \notin Conns \cup {None}
    /\ Profiles \subseteq [clean: BOOLEAN, will: BOOLEAN, ka: BOOLEAN]

\* A client without an id gets a fresh uuid, which is its connection here.
Keys == Ids \cup Conns

VARIABLES
    phase,      \* how far the handshake of a connection is
    key,        \* Client.id
    opts,       \* Client.clean, Client.will, Client.keepalive
    up,         \* the peer has not closed the socket
    close,      \* Client._closing and Client._closed
    reason,     \* why the client was closed, as onNonDisconnectClose sees it
    waiter,     \* whom the callback of Client.close resumes
    subs,       \* the keys of Client.subscriptions
    restoring,  \* stored subscriptions being subscribed again
    subscribing,\* topics of SUBSCRIBE packets being subscribed
    unsubbing,  \* topics Client.close is unsubscribing
    willDue,    \* wills handed to setImmediate
    willDone,   \* wills handed to handleAuthorizePublish
    clients,    \* Server.clients
    connectedClients, \* Stats.connectedClients
    stored,     \* the subscriptions that the persistence holds for an id
    server      \* Server.closed, and whether "closed" was emitted

session == <<subs, restoring, subscribing, stored>>
closing == <<close, reason, waiter, unsubbing, clients, connectedClients>>
wills == <<willDue, willDone>>
vars == <<phase, key, opts, up, closing, session, wills, server>>

\* Before CONNECT the flags are undefined.
NoOpts == [clean |-> FALSE, will |-> FALSE, ka |-> FALSE]

Abnormal == {"close", "keepalive timeout", "error"}
Reasons == Abnormal \cup {"none", "disconnect request", "new connection request",
                          "server closed", "subscribe error"}
Phases == {"idle", "auth", "takeover", "lookup", "restore", "live", "refused", "failed"}

\* completeConnection has run: the listeners of the connection are in place.
Completed(c) == phase[c] \in {"lookup", "restore", "live", "failed"}
Listening(c) == Completed(c) /\ close[c] # "closed"

\* destroySoon follows the cleanup of a closed client.
SocketUp(c) == up[c] /\ close[c] # "closed"

Registered == {c \in Conns : \E k \in Keys : clients[k] = c}

-----------------------------------------------------------------------------
(* Parts of actions *)

\* The listeners of "clientDisconnected" for the clients of F: the registry
\* entry of the id goes, whichever client it holds.
Cleanup(F) ==
    /\ clients' = [k \in Keys |-> IF \E c \in F : key[c] = k THEN None ELSE clients[k]]
    /\ connectedClients' = connectedClients - Cardinality(F)

\* The guard of Client.close: only an open client begins to close.
\* Mutant: the guard is missing.
ToCloseAgain(D) == D
ToClose(D) == {c \in D : close[c] = "open"}

\* Client.close on each client of D, whose subscriptions are S: nothing for
\* one that closes already; at once for one without subscriptions.
CloseEffect(D, S, w, why) ==
    LET E == ToClose(D) IN
    /\ close' = [c \in Conns |-> IF c \notin E THEN close[c]
                                 ELSE IF S[c] = {} THEN "closed" ELSE "closing"]
    /\ reason' = [c \in Conns |-> IF c \in E THEN why ELSE reason[c]]
    /\ waiter' = [c \in Conns |-> IF c \in E THEN w ELSE waiter[c]]
    /\ unsubbing' = [c \in Conns |-> IF c \in E THEN S[c] ELSE unsubbing[c]]
    /\ Cleanup({c \in E : S[c] = {}})

\* Mutant: the will is queued before the guard.
NonDisconnectCloseNoGuard(c, why) ==
    /\ willDue' = [willDue EXCEPT ![c] = @ + (IF opts[c].will THEN 1 ELSE 0)]
    /\ CloseEffect({c}, subs, None, why)
    /\ UNCHANGED willDone

\* onNonDisconnectClose: the will is due only if the client was open.
NonDisconnectClose(c, why) ==
    /\ willDue' = [willDue EXCEPT ![c] =
                      @ + (IF close[c] = "open" /\ opts[c].will THEN 1 ELSE 0)]
    /\ CloseEffect({c}, subs, None, why)
    /\ UNCHANGED willDone

\* "clientConnected" is emitted when the session is restored, whatever
\* became of the client meanwhile.
Announce(c) ==
    /\ phase' = [phase EXCEPT ![c] = "live"]
    /\ clients' = [clients EXCEPT ![key[c]] = c]
    /\ connectedClients' = connectedClients + 1
    /\ UNCHANGED <<close, reason, waiter, unsubbing>>

\* persistClient: the subscriptions of a client that is not clean.
PersistClient(c) ==
    stored' = IF opts[c].clean THEN stored ELSE [stored EXCEPT ![key[c]] = subs[c]]

-----------------------------------------------------------------------------
(* The handshake *)

\* Client.id for the id k of the packet.  Mutant: no uuid for an empty id.
ClientIdNoUuid(c, k) == k
ClientId(c, k) == IF k = None THEN c ELSE k

\* A CONNECT packet with client id k (None if empty) arrives, even while the
\* server closes: the net servers only refuse new sockets.
Connect(c, k, p) ==
    /\ phase[c] = "idle"
    /\ up' = [up EXCEPT ![c] = TRUE]
    /\ opts' = [opts EXCEPT ![c] = p]
    /\ \/ /\ k = None => p.clean              \* and protocol version 4
          /\ key' = [key EXCEPT ![c] = ClientId(c, k)]
          /\ phase' = [phase EXCEPT ![c] = "auth"]
       \/ /\ k = None                         \* connack 2
          /\ phase' = [phase EXCEPT ![c] = "refused"]
          /\ UNCHANGED key
    /\ UNCHANGED <<closing, session, wills, server>>

\* authenticate answers with an error or a denial: connack 4 or 5.
AuthDeny(c) ==
    /\ phase[c] = "auth"
    /\ phase' = [phase EXCEPT ![c] = "refused"]
    /\ UNCHANGED <<key, opts, up, closing, session, wills, server>>

\* The registered client that a newcomer closes.  Mutant: never found.
HolderMissed(c) == {}
Holder(c) == {d \in Conns : clients[key[c]] = d}

\* Whether the close of D calls back later; a client that is closing or has
\* no subscriptions calls back at once.  Mutant: it does not when closing.
CallsBackLaterIfClosing(D) == \E d \in D : close[d] # "closed" /\ subs[d] # {}
CallsBackLater(D) == \E d \in D : close[d] = "open" /\ subs[d] # {}

\* authenticate accepts: the registered client of that id is closed first,
\* and the newcomer goes on when that close calls back.
AuthAccept(c) ==
    /\ phase[c] = "auth"
    /\ phase' = [phase EXCEPT ![c] =
                    IF CallsBackLater(Holder(c)) THEN "takeover" ELSE "lookup"]
    /\ CloseEffect(Holder(c), subs, c, "new connection request")
    /\ UNCHANGED <<key, opts, up, session, wills, server>>

\* lookupSubscriptions answers; a clean client drops the stored session.
LookupDone(c) ==
    LET found == IF opts[c].clean THEN {} ELSE stored[key[c]] IN
    /\ phase[c] = "lookup"
    /\ subs' = [subs EXCEPT ![c] = @ \cup found]
    /\ restoring' = [restoring EXCEPT ![c] = found \ subs[c]]
    /\ stored' = [stored EXCEPT ![key[c]] = found]
    /\ IF found \subseteq subs[c]
       THEN Announce(c)
       ELSE /\ phase' = [phase EXCEPT ![c] = "restore"]
            /\ UNCHANGED closing
    /\ UNCHANGED <<key, opts, up, subscribing, wills, server>>

\* lookupSubscriptions fails: "error" is emitted on the connection.
LookupFail(c) ==
    /\ phase[c] = "lookup"
    /\ phase' = [phase EXCEPT ![c] = "failed"]
    /\ NonDisconnectClose(c, "error")
    /\ UNCHANGED <<key, opts, up, session, server>>

\* The ascoltatore answers one subscribe of the restore; the first error or
\* the last answer ends it.
RestoreCallback(c, t, err) ==
    /\ t \in restoring[c]
    /\ restoring' = [restoring EXCEPT ![c] = @ \ {t}]
    /\ subs' = IF err THEN [subs EXCEPT ![c] = @ \ {t}] ELSE subs
    /\ IF phase[c] = "restore" /\ (err \/ restoring[c] = {t})
       THEN Announce(c)
       ELSE UNCHANGED <<phase, closing>>
    /\ UNCHANGED <<key, opts, up, subscribing, stored, wills, server>>

-----------------------------------------------------------------------------
(* Subscriptions, as far as they decide how a client closes *)

\* A SUBSCRIBE packet for t; a topic already subscribed is granted at once.
Subscribe(c, t) ==
    /\ Listening(c) /\ up[c]
    /\ IF t \in subs[c]
       THEN /\ PersistClient(c)
            /\ UNCHANGED <<subs, subscribing>>
       ELSE /\ subs' = [subs EXCEPT ![c] = @ \cup {t}]
            /\ subscribing' = [subscribing EXCEPT ![c] = @ \cup {t}]
            /\ UNCHANGED stored
    /\ UNCHANGED <<phase, key, opts, up, closing, restoring, wills, server>>

\* The ascoltatore answers a subscribe; an error closes the client.
SubscribeCallback(c, t, err) ==
    /\ t \in subscribing[c]
    /\ subscribing' = [subscribing EXCEPT ![c] = @ \ {t}]
    /\ IF err
       THEN /\ subs' = [subs EXCEPT ![c] = @ \ {t}]
            /\ CloseEffect({c}, subs', None, "subscribe error")
            /\ UNCHANGED stored
       ELSE /\ PersistClient(c)
            /\ UNCHANGED <<closing, subs>>
    /\ UNCHANGED <<phase, key, opts, up, restoring, wills, server>>

-----------------------------------------------------------------------------
(* Closing *)

\* A DISCONNECT packet, or any other call of close(null, reason) that a
\* packet of the client causes: a denied publish, a failed unsubscribe.
Disconnect(c) ==
    /\ Listening(c) /\ up[c]
    /\ CloseEffect({c}, subs, None, "disconnect request")
    /\ UNCHANGED <<phase, key, opts, up, session, wills, server>>

\* Another broker announces a client with the id of a registered one.
Kick(k) ==
    /\ clients[k] # None
    /\ CloseEffect({clients[k]}, subs, None, "new connection request")
    /\ UNCHANGED <<phase, key, opts, up, session, wills, server>>

\* The socket closes; before completeConnection nobody listens to it.
NetClose(c) ==
    /\ SocketUp(c)
    /\ up' = [up EXCEPT ![c] = FALSE]
    /\ IF Listening(c)
       THEN NonDisconnectClose(c, "close")
       ELSE UNCHANGED <<closing, wills>>
    /\ UNCHANGED <<phase, key, opts, session, server>>

\* Mutant: the timer is first set by a packet, not by completeConnection.
KeepaliveTimeoutIfUp(c) ==
    /\ Completed(c) /\ opts[c].ka /\ close[c] = "open" /\ up[c]
    /\ NonDisconnectClose(c, "keepalive timeout")
    /\ UNCHANGED <<phase, key, opts, up, session, server>>

\* The keepalive timer fires (Client.close clears it).
KeepaliveTimeout(c) ==
    /\ Completed(c) /\ opts[c].ka /\ close[c] = "open"
    /\ NonDisconnectClose(c, "keepalive timeout")
    /\ UNCHANGED <<phase, key, opts, up, session, server>>

\* The connection emits "error".
ClientError(c) ==
    /\ Listening(c)
    /\ NonDisconnectClose(c, "error")
    /\ UNCHANGED <<phase, key, opts, up, session, server>>

\* The first error or the last answer ends a close, unless it has ended
\* ("needed in case of errors").  Mutant: an error does not end it.
EndsCloseIfOk(c, t, err) == close[c] = "closing" /\ unsubbing[c] = {t} /\ ~err
EndsClose(c, t, err) == close[c] = "closing" /\ (err \/ unsubbing[c] = {t})

\* The callback of the close resumes the connection that waits for it.
\* Mutant: it is not called.
NotResumed(c) == phase
Resumed(c) == [w \in Conns |-> IF w = waiter[c] THEN "lookup" ELSE phase[w]]

\* The ascoltatore answers one unsubscribe of a close; the end of the close
\* cleans up, calls the callback and destroys the socket.
UnsubCallback(c, t, err) ==
    /\ t \in unsubbing[c]
    /\ unsubbing' = [unsubbing EXCEPT ![c] = @ \ {t}]
    /\ subs' = IF opts[c].clean /\ ~err THEN [subs EXCEPT ![c] = @ \ {t}] ELSE subs
    /\ IF EndsClose(c, t, err)
       THEN /\ close' = [close EXCEPT ![c] = "closed"]
            /\ Cleanup({c})
            /\ phase' = Resumed(c)
       ELSE UNCHANGED <<close, clients, connectedClients, phase>>
    /\ UNCHANGED <<key, opts, up, reason, waiter, restoring, subscribing, stored,
                   wills, server>>

\* setImmediate runs: the will is authorized and published.
PublishWill(c) ==
    /\ willDue[c] > 0
    /\ willDue' = [willDue EXCEPT ![c] = @ - 1]
    /\ willDone' = [willDone EXCEPT ![c] = @ + 1]
    /\ UNCHANGED <<phase, key, opts, up, closing, session, server>>

\* Server.close: every registered client, then the net servers.
ServerClose ==
    /\ server = "open"
    /\ server' = "closing"
    /\ CloseEffect(Registered, subs, Server, "server closed")
    /\ UNCHANGED <<phase, key, opts, up, session, wills>>

\* Every close called back, and a net server calls back once its sockets
\* are gone: "closed" is emitted.
ServerFinish ==
    /\ server = "closing"
    /\ \A c \in Conns : ~SocketUp(c) /\ ~(close[c] = "closing" /\ waiter[c] = Server)
    /\ server' = "closed"
    /\ UNCHANGED <<phase, key, opts, up, closing, session, wills>>

-----------------------------------------------------------------------------
Init ==
    /\ phase = [c \in Conns |-> "idle"]
    /\ key = [c \in Conns |-> c]
    /\ opts = [c \in Conns |-> NoOpts]
    /\ up = [c \in Conns |-> FALSE]
    /\ close = [c \in Conns |-> "open"]
    /\ reason = [c \in Conns |-> "none"]
    /\ waiter = [c \in Conns |-> None]
    /\ subs = [c \in Conns |-> {}]
    /\ restoring = [c \in Conns |-> {}]
    /\ subscribing = [c \in Conns |-> {}]
    /\ unsubbing = [c \in Conns |-> {}]
    /\ willDue = [c \in Conns |-> 0]
    /\ willDone = [c \in Conns |-> 0]
    /\ clients = [k \in Keys |-> None]
    /\ connectedClients = 0
    /\ stored \in {s \in [Keys -> SUBSET Topics] : \A c \in Conns : s[c] = {}}
    /\ server = "open"
\* What the peer causes, for as long as it likes (a SUBSCRIBE that fails may
\* be repeated), and what the broker has asked for, finitely often.
Peer(c) ==
    \/ \E k \in Ids \cup {None}, p \in Profiles : Connect(c, k, p)
    \/ \E t \in Topics : Subscribe(c, t)
    \/ \E t \in Topics, err \in BOOLEAN : SubscribeCallback(c, t, err)
    \/ Disconnect(c)
    \/ NetClose(c)
    \/ ClientError(c)

Callback(c) ==
    \/ AuthDeny(c) \/ AuthAccept(c)
    \/ LookupDone(c) \/ LookupFail(c)
    \/ \E t \in Topics, err \in BOOLEAN :
          RestoreCallback(c, t, err) \/ UnsubCallback(c, t, err)
    \/ PublishWill(c)

Next ==
    /\ server # "closed"
    /\ \/ \E c \in Conns : Peer(c) \/ Callback(c) \/ KeepaliveTimeout(c)
       \/ \E k \in Keys : Kick(k)
       \/ ServerClose
       \/ ServerFinish

Spec == Init /\ [][Next]_vars

\* The persistence, the authenticator and the ascoltatore answer (the answers
\* of a handshake and a close are finite in number, so fairness to all of them
\* together starves none), the timer of
\* a peer that is gone fires, and peers close their sockets in the end once
\* the server has called end on its net servers.
Answers(c) == server # "closed" /\ Callback(c)
TimesOut(c) == server # "closed" /\ ~up[c] /\ KeepaliveTimeout(c)
PeerLeaves(c) == server = "closing" /\ NetClose(c)

Fairness ==
    /\ \A c \in Conns : WF_vars(Answers(c)) /\ WF_vars(TimesOut(c)) /\ WF_vars(PeerLeaves(c))
    /\ WF_vars(ServerFinish)

FairSpec == Spec /\ Fairness

-----------------------------------------------------------------------------
(* The refinement mapping *)

\* A connection is idle until it is authenticated.
conn == [c \in Conns |-> IF phase[c] \in {"idle", "auth", "refused"} THEN "idle"
                         ELSE IF phase[c] = "takeover" THEN "waiting" ELSE close[c]]
awaits == [c \in Conns |-> {d \in Conns : close[d] = "closing" /\ waiter[d] = c}]
announced == {c \in Conns : phase[c] = "live"}

Takeover == INSTANCE Handover WITH
    Conns <- Conns, Keys <- Keys, key <- key,
    conn <- conn, awaits <- awaits, announced <- announced, clients <- Registered

-----------------------------------------------------------------------------
(* Properties *)

\* The type invariant: every field of Client, Server and Stats ranges over
\* the values that the code gives it.
TypeOK ==
    /\ phase \in [Conns -> Phases]
    /\ key \in [Conns -> Keys]
    /\ opts \in [Conns -> [clean: BOOLEAN, will: BOOLEAN, ka: BOOLEAN]]
    /\ up \in [Conns -> BOOLEAN]
    /\ close \in [Conns -> {"open", "closing", "closed"}]
    /\ reason \in [Conns -> Reasons]
    /\ waiter \in [Conns -> Conns \cup {None, Server}]
    /\ subs \in [Conns -> SUBSET Topics]
    /\ restoring \in [Conns -> SUBSET Topics]
    /\ subscribing \in [Conns -> SUBSET Topics]
    /\ unsubbing \in [Conns -> SUBSET Topics]
    /\ willDue \in [Conns -> Nat]
    /\ willDone \in [Conns -> Nat]
    /\ clients \in [Keys -> Conns \cup {None}]
    /\ connectedClients \in Int
    /\ stored \in [Keys -> SUBSET Topics]
    /\ server \in {"open", "closing", "closed"}

\* The last will goes out exactly once for a client that had one and was lost
\* (socket closed, keepalive, error), and never for one that disconnected,
\* was taken over or was closed by the server, even when the socket closes,
\* the timer fires or errors come during the close (onNonDisconnectClose).
WillExactlyOnLoss ==
    \A c \in Conns :
        willDue[c] + willDone[c] = IF opts[c].will /\ reason[c] \in Abnormal THEN 1 ELSE 0

\* A newcomer that waits for a takeover is never forgotten: exactly one
\* client, with its id, is closing and will resume it; and the callback of a
\* close never resumes a connection that is not waiting (handleConnect).
TakeoverHasACloser ==
    \A c \in Conns :
        /\ phase[c] = "takeover" =>
              \E d \in Conns : close[d] = "closing" /\ waiter[d] = c /\ key[d] = key[c]
        /\ \A d \in Conns : close[d] = "closing" /\ waiter[d] = c => phase[c] = "takeover"
        /\ \A d, e \in Conns :
              /\ close[d] = "closing" /\ waiter[d] = c
              /\ close[e] = "closing" /\ waiter[e] = c
              => d = e

\* A close that has not ended still waits for an unsubscribe, so some answer
\* of the ascoltatore will end it (Client.close).
ClosingHasPending ==
    \A c \in Conns : close[c] = "closing" => unsubbing[c] # {}

\* The counter of stats.js is off from the number of connected clients only
\* by the clients that were closed before "clientConnected" was emitted.
StatsDrift ==
    connectedClients =
        Cardinality({c \in Conns : phase[c] = "live" /\ close[c] # "closed"})
        - Cardinality({c \in Conns : phase[c] # "live" /\ close[c] = "closed"})

\* A connection that goes on after authentication finds no open client
\* registered under its id: whoever was there is closing (handleConnect).
NewcomerEvictsRegistered ==
    [][\A c \in Conns :
          phase[c] \in {"auth", "takeover"} /\ phase'[c] = "lookup" =>
              \A d \in Conns : clients'[key[c]] = d => close'[d] # "open"]_vars

\* Every handshake comes to an end, the ones that wait for the close of
\* another client included.
HandshakeResolves ==
    \A c \in Conns :
        phase[c] \in {"auth", "takeover", "lookup", "restore"}
            ~> phase[c] \in {"live", "refused", "failed"} \/ server = "closed"

\* A client that begins to close is closed: cleanup runs, whatever
\* unsubscribe fails.
CloseCompletes ==
    \A c \in Conns : close[c] = "closing" ~> close[c] = "closed" \/ server = "closed"

\* A keepalive client whose socket is gone is closed, even when the socket
\* closed before anybody listened (setUpTimer).
LostPeersAreReaped ==
    \A c \in Conns :
        Completed(c) /\ ~up[c] /\ opts[c].ka ~> close[c] = "closed" \/ server = "closed"

\* Server.close ends: no client, however it was closing, keeps it waiting.
ServerCloseCompletes == server = "closing" ~> server = "closed"

\* A broker hands a client id over as it promises: a connection opens after
\* whom it found registered has closed, is registered once and closes once.
HandoverImplemented == Takeover!Spec

\* "should close the first client if a second client with the same clientId
\* connects": at most one open client per id has finished its handshake.
OneOpenPerId ==
    \A c, d \in Conns :
        /\ phase[c] = "live" /\ close[c] = "open"
        /\ phase[d] = "live" /\ close[d] = "open"
        /\ key[c] = key[d]
        => c = d

\* "the number of connected clients at this point in time" is never negative.
StatsCountsClients == connectedClients >= 0
=============================================================================
