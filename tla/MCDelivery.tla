----------------------------- MODULE MCDelivery -----------------------------
(* Instances of Delivery for TLC: an application topic and a $SYS topic. *)
EXTENDS Delivery

CONSTANTS c1, c2, app, sys, exact, hash, sysf

MCTopics == {app, sys}
MCFilters == {exact, hash, sysf}
MCMatches == {<<app, exact>>, <<app, hash>>, <<sys, hash>>, <<sys, sysf>>}

\* c1 has overlapping subscriptions of both QoS, c2 competes for the stamp.
MCSubscribed == {<<c1, exact>>, <<c1, hash>>, <<c1, sysf>>, <<c2, hash>>}
MCQos == [s \in MCSubscribed |-> IF s = <<c1, hash>> THEN 0 ELSE 1]
=============================================================================
