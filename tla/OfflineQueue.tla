---------------------------- MODULE OfflineQueue ----------------------------
(***************************************************************************)
(* What a persistence promises of the packets it stores for clients that   *)
(* are offline, whichever database holds them.  LevelStore, RedisStore and *)
(* MongoStore implement it (Stores).                                       *)
(*                                                                         *)
(* A packet is stored under the unique id of its publication; later it is  *)
(* given the message id of the connection that it is forwarded on.  The    *)
(* calls of a persistence are not atomic: some of its work is still to be  *)
(* done (coming, taken) when other calls begin.  The promise is that this  *)
(* open work is all that can bring a packet back, and that a packet leaves *)
(* only when it is due (acknowledged, expired or wiped) or when another    *)
(* packet of its client is given the id that it has.                       *)
(***************************************************************************)
EXTENDS Integers

CONSTANTS
    Clients,
    MaxPubs,        \* publications
    MaxId           \* message ids of a connection

Pubs == 1 .. MaxPubs
MessageIds == 1 .. MaxId
Uid(p) == MaxId + p
Ids == MessageIds \cup {Uid(p) : p \in Pubs}
Stored == [client: Clients, pub: Pubs, id: Ids]

VARIABLES
    pubs,       \* publications so far
    queue,      \* what is stored: [client, pub, id]
    coming,     \* <<client, pub>> that are being stored
    taken,      \* what updates and deletions under way have read
    due         \* <<client, pub>> that were acknowledged, expired or wiped

vars == <<pubs, queue, coming, taken, due>>

Named(S) == {<<x.client, x.pub>> : x \in S}

\* The packets that are not stored, and of which no work is open.
Gone == {x \in Clients \X (1 .. pubs) : x \notin coming \cup Named(queue \cup taken)}

\* Whatever else a step does, it may make packets due that are stored.
Releases == due \subseteq due' /\ due' \subseteq due \cup Named(queue)

Init ==
    /\ pubs = 0
    /\ queue = {} /\ coming = {} /\ taken = {} /\ due = {}

\* A publication is to be stored for some clients.
Publish ==
    /\ pubs' = pubs + 1
    /\ \E C \in SUBSET Clients : coming' = coming \cup (C \X {pubs + 1})
    /\ UNCHANGED <<queue, taken, due>>

\* It is stored under its unique id; for a client with several matching
\* subscriptions, perhaps once more later.
Store ==
    /\ \E x \in coming :
          queue' = queue \cup {[client |-> x[1], pub |-> x[2], id |-> Uid(x[2])]}
    /\ coming' \subseteq coming
    /\ UNCHANGED <<pubs, taken, due>>

\* An update or a deletion begins and reads.
Take ==
    /\ taken \subseteq taken' /\ taken' \subseteq taken \cup queue
    /\ Releases
    /\ UNCHANGED <<pubs, queue, coming>>

\* A packet that is stored, or that an update has read, gets a message id.
\* Its old copy is gone, and so may be the packets that have this id.
Renames(x, i) ==
    LET y == [x EXCEPT !.id = i] IN
    /\ y \in queue'
    /\ queue' \subseteq queue \cup {y}
    /\ \A z \in queue \ queue' : z.client = x.client /\ (z.pub = x.pub \/ z.id = i)

Rename ==
    /\ \E x \in queue \cup taken, i \in MessageIds : Renames(x, i)
    /\ taken' \subseteq taken
    /\ UNCHANGED <<pubs, coming, due>>

\* Packets leave because they are due.
Remove ==
    /\ queue' \subseteq queue
    /\ Releases
    /\ \A z \in queue \ queue' : <<z.client, z.pub>> \in due'
    /\ taken' \subseteq taken
    /\ UNCHANGED <<pubs, coming>>

\* Open work ends, or a crash ends it.
Forget ==
    /\ taken' \subseteq taken /\ coming' \subseteq coming
    /\ UNCHANGED <<pubs, queue, due>>

Next == Publish \/ Store \/ Take \/ Rename \/ Remove \/ Forget

Spec == Init /\ [][Next]_vars
=============================================================================
