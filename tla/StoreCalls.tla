----------------------------- MODULE StoreCalls -----------------------------
(***************************************************************************)
(* What the persistences have in common: the publications that the broker  *)
(* asks them to store, the ids of packets, and what is observed of them.   *)
(***************************************************************************)
EXTENDS Integers, FiniteSets

CONSTANTS
    Clients,
    Topics,
    Filters,
    Matches,        \* <<topic, filter>>: Matcher.match
    Patterns,       \* <<topic, filter>>: topicPatterns
    Procs,          \* brokers that share a Redis
    MaxPubs,        \* bound of the model: publications
    MaxId,          \* bound of the model: message ids of a connection
    MaxTurns        \* bound of the model: calls, expiries and restarts together

ASSUME StoreAssumption ==
    /\ IsFiniteSet(Clients) /\ IsFiniteSet(Filters)
    /\ Matches \subseteq Topics \X Filters
    /\ Patterns \subseteq Topics \X Filters
    /\ MaxPubs \in Nat /\ MaxId \in Nat /\ MaxTurns \in Nat

Pubs == 1 .. MaxPubs
MessageIds == 1 .. MaxId

\* Server.generateUniqueId, for publication p.
Uid(p) == MaxId + p
Ids == MessageIds \cup {Uid(p) : p \in Pubs}

\* The ids that may be stored when a client is forwarded a packet.
StoredIds(n) == MessageIds \cup {Uid(p) : p \in 1 .. n}

\* A copy of a packet in a database that keeps one per matching subscription.
Copies == [client: Clients, pub: Pubs, sub: Filters, id: Ids]
Parts == [client: Clients, pub: Pubs, sub: Filters]

Key(x) == [client |-> x.client, pub |-> x.pub, sub |-> x.sub]
Named(S) == {<<x.client, x.pub>> : x \in S}
Of(c, S) == {x \in S : x.client = c}
Under(c, i, S) == {x \in S : x.client = c /\ x.id = i}

\* Subscriptions in an index: <<filter, client>>.
Index == Filters \X Clients
Indexed(c, F) == F \X {c}

VARIABLES
    pubs,       \* publications so far
    turns,      \* what MaxTurns bounds, so far
    due,        \* observer: packets that were acknowledged, expired or wiped
    owed,       \* observer: packets that a session is still to be given
    asked,      \* observer: the subscriptions that each client stored last
    torn        \* observer: clients whose last storing overlapped or was cut

sessions == <<asked, torn>>
calls == <<pubs, turns, due, owed, sessions>>

Turn == turns < MaxTurns /\ turns' = turns + 1

\* Matcher.match: the entries of an index that match topic t.
\* Mutant: only the filter that is the topic.
MatchEqual(t, I) == {k \in I : k[1] = t}
Match(t, I) == {k \in I : <<t, k[1]>> \in Matches}

\* A publication of topic t: the sessions of the clients C are settled.
Owes(t, C) ==
    /\ pubs < MaxPubs /\ Turn
    /\ pubs' = pubs + 1
    /\ owed' = owed \cup {x \in [client: C, pub: {pubs + 1}, sub: Filters, topic: {t}] :
                             x.sub \in asked[x.client] /\ <<t, x.sub>> \in Matches}
    /\ UNCHANGED <<due, sessions>>

\* Publication p is stored for c.
Gives(c, p) ==
    /\ owed' = {x \in owed : x.client # c \/ x.pub # p}
    /\ UNCHANGED <<pubs, turns, due, sessions>>

\* A call about packets, of which those of R are due.
Releases(R) ==
    /\ Turn
    /\ due' = due \cup Named(R)
    /\ UNCHANGED <<pubs, owed, sessions>>

\* A client stores the subscriptions F; overlapping tells whether other calls
\* for it are under way.
Saves(c, F, overlapping) ==
    /\ asked' = [asked EXCEPT ![c] = F]
    /\ Turn
    /\ torn' = IF overlapping THEN torn \cup {c} ELSE torn \ {c}
    /\ UNCHANGED <<pubs, due, owed>>

\* The session of c is to be without the subscriptions F.
Drops(c, F) ==
    /\ Turn
    /\ asked' = [asked EXCEPT ![c] = @ \ F]
    /\ UNCHANGED <<pubs, torn>>

\* A broker stops while the calls for clients C are under way.
Stops(C) ==
    /\ Turn
    /\ torn' = torn \cup C
    /\ owed' = {}
    /\ UNCHANGED <<pubs, due, asked>>

InitCalls ==
    /\ pubs = 0 /\ turns = 0
    /\ due = {} /\ owed = {} /\ torn = {}
    /\ asked = [c \in Clients |-> {}]
=============================================================================
