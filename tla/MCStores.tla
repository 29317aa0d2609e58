------------------------------ MODULE MCStores ------------------------------
(***************************************************************************)
(* Small instances of Stores, with the topics and filters as sequences of  *)
(* levels, and topicPatterns checked against Matcher.                      *)
(***************************************************************************)
EXTENDS Stores, TopicPatterns, TLC

MCTopics == {<<"a", "b">>}
MCFilters == {<<"a", "#">>, <<"+", "b">>}
RootFilters == {<<"#">>}
MCMatches == {x \in Topics \X Filters : TopicMatches(x[1], x[2])}
MCPatterns == {x \in Topics \X Filters : x[2] \in TopicPatterns(x[1])}
Brokers == Permutations(Procs)

PatternTopics ==
    {<<"a">>, <<"a", "b">>, <<"a", "a">>, <<"a", "b", "c">>, <<"a", "b", "a">>, <<"a", "b", "c", "d">>}

Sound ==
    \A t \in PatternTopics : \A f \in TopicPatterns(t) : TopicMatches(t, f)

Finding ==
    \A t \in PatternTopics :
       /\ t \in TopicPatterns(t)
       /\ Len(t) > 1 => \A i \in DOMAIN t : [t EXCEPT ![i] = One] \in TopicPatterns(t)
       /\ \A i \in 1 .. Len(t) - 1 : SubSeq(t, 1, i) \o <<Rest>> \in TopicPatterns(t)

\* Where Mongo looks for subscriptions, a query for the patterns of a topic
\* finds none whose filter does not match it: topicPatterns agrees with the
\* Matcher that decides the same for the other persistences.
PatternsSound == backend = "mongo" => Sound

\* The query finds the topic itself, every filter with "+" for one level, and
\* every filter that ends in "#" after some of the levels: the filters that
\* Mongo can be relied on for (it misses others, see MatchesAreServed).
PatternsFind == backend = "mongo" => Finding
=============================================================================
