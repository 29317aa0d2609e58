------------------------- MODULE MCClientLifecycle -------------------------
(* Instances of ClientLifecycle for TLC. *)
EXTENDS ClientLifecycle

\* A clean client without will or keepalive, and a persistent one with both.
MCProfiles == {[clean |-> TRUE, will |-> FALSE, ka |-> FALSE],
               [clean |-> FALSE, will |-> TRUE, ka |-> TRUE]}

\* For the liveness run: persistent clients with a keepalive.
MCLiveProfiles == {[clean |-> FALSE, will |-> FALSE, ka |-> TRUE]}

=============================================================================
