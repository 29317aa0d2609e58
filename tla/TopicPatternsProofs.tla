------------------------- MODULE TopicPatternsProofs -------------------------
(***************************************************************************)
(* Proofs about TopicPatterns, for topics of any length: every filter that *)
(* topicPatterns gives for a topic matches it, and the kinds of filter     *)
(* that Mongo can be relied on for are among them.                         *)
(***************************************************************************)
EXTENDS MCStores, TLAPS

-----------------------------------------------------------------------------
(* Sequences *)

LEMMA SeqOfIn ==
    ASSUME NEW S, NEW n \in Nat, NEW at \in SeqOf(S, n)
    PROVE  \E m \in 0 .. n : at \in [1 .. m -> S] /\ DOMAIN at = 1 .. m
  BY DEF SeqOf

\* What a listing of S has: all of S, and nothing between two neighbours.
LEMMA Neighbours ==
    ASSUME NEW n \in Nat, NEW S \in SUBSET (1 .. n), NEW m \in 0 .. n, NEW at \in [1 .. m -> S],
           \A i, j \in 1 .. m : i < j => at[i] < at[j],
           S = {at[i] : i \in 1 .. m}
    PROVE  /\ S # {} => m > 0
           /\ \A j \in 1 .. m : at[j] \in S
           /\ \A s \in S, j \in 1 .. m - 1 : s > at[j] => s >= at[j + 1]
           /\ \A s \in S : m > 0 => at[1] <= s /\ s <= at[m]
<1>1. \A i, j \in 1 .. m : i <= j => at[i] <= at[j]
  <2> SUFFICES ASSUME NEW i \in 1 .. m, NEW j \in 1 .. m, i <= j PROVE at[i] <= at[j]
    OBVIOUS
  <2>1. at[i] \in Int /\ at[j] \in Int
    OBVIOUS
  <2>2. CASE i = j
    BY <2>1, <2>2
  <2>3. CASE i < j
    BY <2>1, <2>3
  <2> QED  BY <2>2, <2>3
<1>2. ASSUME NEW s \in S, NEW j \in 1 .. m - 1, s > at[j] PROVE s >= at[j + 1]
  <2>1. PICK i \in 1 .. m : s = at[i]
    OBVIOUS
  <2>2. i > j
    <3>1. CASE i <= j
      <4>1. at[i] <= at[j] /\ at[j] \in Int /\ at[i] \in Int
        BY <1>1, <3>1
      <4> QED  BY <1>2, <2>1, <4>1
    <3> QED  BY <3>1
  <2> QED  BY <1>1, <2>1, <2>2
<1>3. ASSUME NEW s \in S, m > 0 PROVE at[1] <= s /\ s <= at[m]
  <2>1. PICK i \in 1 .. m : s = at[i]
    OBVIOUS
  <2> QED  BY <1>1, <1>3, <2>1
<1> QED  BY <1>2, <1>3

-----------------------------------------------------------------------------
(* Every pattern matches *)

\* A filter with a level or a "+" for every level of the topic.
LEMMA LevelByLevel ==
    ASSUME NEW L, NEW t \in Seq(L), NEW f \in Seq(L \cup {One}), Len(f) = Len(t),
           \A i \in 1 .. Len(t) : f[i] \in {One, t[i]}
    PROVE  TopicMatches(t, f)
<1> DEFINE end == [j \in 0 .. Len(f) |-> j]
<1>1. end \in [0 .. Len(f) -> 0 .. Len(t)]
  OBVIOUS
<1>2. ASSUME NEW j \in 1 .. Len(f)
      PROVE  IF f[j] = Rest THEN end[j - 1] <= end[j]
             ELSE end[j] = end[j - 1] + 1 /\ f[j] \in {One, t[end[j]]}
  OBVIOUS
<1>3. end[0] = 0 /\ end[Len(f)] = Len(t)
  OBVIOUS
<1> HIDE DEF end
<1> QED  BY <1>1, <1>2, <1>3 DEF TopicMatches

\* A filter with a "#" for every gap in the levels that it keeps.
LEMMA GapByGap ==
    ASSUME NEW L, NEW t \in Seq(L), Len(t) > 0, NEW K \in SUBSET DOMAIN t, NEW f \in Hash(t, K)
    PROVE  TopicMatches(t, f)
<1> DEFINE n == Len(t)
           shown == {i \in DOMAIN t : i \in K \/ i = 1 \/ i - 1 \in K}
<1>1. n \in Nat /\ n > 0 /\ DOMAIN t = 1 .. n /\ shown \subseteq 1 .. n /\ 1 \in shown
  OBVIOUS
<1>2. PICK at \in Listings(shown, n) : f = [i \in DOMAIN at |-> IF at[i] \in K THEN t[at[i]] ELSE Rest]
  BY DEF Hash
<1>3. PICK m \in 0 .. n : at \in [1 .. m -> shown] /\ DOMAIN at = 1 .. m
  <2> HIDE DEF shown, n
  <2>1. at \in SeqOf(shown, n)
    BY <1>2 DEF Listings
  <2> QED  BY <1>1, <2>1, SeqOfIn
<1>4. (\A i, j \in 1 .. m : i < j => at[i] < at[j]) /\ shown = {at[i] : i \in 1 .. m}
  <2> HIDE DEF shown, n
  <2> QED  BY <1>2, <1>3 DEF Listings
<1>5. /\ m > 0
      /\ \A j \in 1 .. m : at[j] \in shown
      /\ \A s \in shown, j \in 1 .. m - 1 : s > at[j] => s >= at[j + 1]
      /\ \A s \in shown : at[1] <= s /\ s <= at[m]
  <2> HIDE DEF shown, n
  <2>1. shown \in SUBSET (1 .. n) /\ shown # {} /\ n \in Nat /\ at \in [1 .. m -> shown]
    BY <1>1, <1>3
  <2>2. \A i, j \in 1 .. m : i < j => at[i] < at[j]
    BY <1>4
  <2>3. shown = {at[i] : i \in 1 .. m}
    BY <1>4
  <2>4. /\ shown # {} => m > 0
        /\ \A j \in 1 .. m : at[j] \in shown
        /\ \A s \in shown, j \in 1 .. m - 1 : s > at[j] => s >= at[j + 1]
        /\ \A s \in shown : m > 0 => at[1] <= s /\ s <= at[m]
    BY <1>3, <2>1, <2>2, <2>3, Neighbours
  <2> QED  BY <2>1, <2>4
<1>6. \A s \in K : s \in 1 .. n /\ s \in shown /\ (s < n => s + 1 \in shown)
  BY <1>1
<1>7. at[1] = 1
  <2>1. at[1] \in 1 .. n /\ at[1] <= 1
    BY <1>1, <1>5
  <2> QED  BY <2>1
<1>8. ASSUME NEW j \in 1 .. m - 1 PROVE at[j] < at[j + 1] /\ (at[j] \in K => at[j + 1] = at[j] + 1)
  <2>1. j \in 1 .. m /\ j + 1 \in 1 .. m /\ at[j] \in 1 .. n /\ at[j + 1] \in 1 .. n
    BY <1>1, <1>5
  <2>2. at[j] < at[j + 1]
    BY <1>4, <2>1
  <2>3. at[j] \in K => at[j] + 1 \in shown
    BY <1>6, <2>1, <2>2
  <2>4. at[j] \in K => at[j] + 1 >= at[j + 1]
    BY <1>5, <2>1, <2>3
  <2> QED  BY <2>1, <2>2, <2>4
<1>9. at[m] \in 1 .. n /\ (at[m] \in K => at[m] = n)
  <2>1. at[m] \in 1 .. n
    BY <1>1, <1>5
  <2>2. ASSUME at[m] \in K, at[m] < n PROVE FALSE
    <3>1. at[m] + 1 \in shown
      BY <1>6, <2>2
    <3> QED  BY <1>5, <2>1, <3>1
  <2> QED  BY <2>1, <2>2
<1> DEFINE end == [j \in 0 .. m |-> IF j = 0 THEN 0 ELSE IF j = m THEN n ELSE at[j + 1] - 1]
<1>10. \A j \in 1 .. m : at[j] \in 1 .. n
  BY <1>1, <1>5
<1>11. DOMAIN f = 1 .. m /\ Len(f) = m /\ \A j \in 1 .. m : f[j] = IF at[j] \in K THEN t[at[j]] ELSE Rest
  <2>1. f = [i \in 1 .. m |-> IF at[i] \in K THEN t[at[i]] ELSE Rest]
    BY <1>2, <1>3
  <2> QED  BY <2>1
<1>12. end \in [0 .. m -> 0 .. n]
  BY <1>1, <1>10
<1>13. end[0] = 0 /\ end[m] = n
  BY <1>5
<1>14. \A j \in 1 .. m : end[j - 1] = at[j] - 1
  BY <1>7, <1>10
<1>15. \A j \in 1 .. m : end[j] >= at[j] - 1 /\ (at[j] \in K => end[j] = at[j])
  <2> SUFFICES ASSUME NEW j \in 1 .. m PROVE end[j] >= at[j] - 1 /\ (at[j] \in K => end[j] = at[j])
    OBVIOUS
  <2>1. CASE j = m
    BY <1>1, <1>9, <1>13, <2>1
  <2>2. CASE j # m
    <3>1. end[j] = at[j + 1] - 1 /\ j \in 1 .. m - 1 /\ j + 1 \in 1 .. m
      BY <2>2
    <3> QED  BY <1>8, <1>10, <3>1
  <2> QED  BY <2>1, <2>2
<1> HIDE DEF end, shown, n
<1>16. ASSUME NEW j \in 1 .. m
       PROVE  IF f[j] = Rest THEN end[j - 1] <= end[j]
              ELSE end[j] = end[j - 1] + 1 /\ f[j] \in {One, t[end[j]]}
  <2>1. end[j - 1] = at[j] - 1 /\ end[j] >= at[j] - 1 /\ at[j] \in Int /\ end[j] \in Int
    BY <1>1, <1>10, <1>12, <1>14, <1>15
  <2>2. f[j] = IF at[j] \in K THEN t[at[j]] ELSE Rest
    BY <1>11
  <2> QED  BY <1>15, <2>1, <2>2
<1>17. Len(t) = n
  BY DEF n
<1> QED  BY <1>11, <1>12, <1>13, <1>16, <1>17 DEF TopicMatches

\* topicPatterns agrees with Matcher, for a topic of any length.
THEOREM TopicPatternsMatch ==
    ASSUME NEW L, NEW t \in Seq(L), NEW f \in TopicPatterns(t)
    PROVE  TopicMatches(t, f)
<1>1. CASE f = t
  <2>1. f \in Seq(L \cup {One}) /\ Len(f) = Len(t) /\ \A i \in 1 .. Len(t) : f[i] \in {One, t[i]}
    BY <1>1
  <2> QED  BY <2>1, LevelByLevel
<1>2. ASSUME NEW K \in Windows(Len(t)), f = Plus(t, K) PROVE TopicMatches(t, f)
  <2>1. f \in Seq(L \cup {One}) /\ Len(f) = Len(t) /\ \A i \in 1 .. Len(t) : f[i] \in {One, t[i]}
    BY <1>2 DEF Plus
  <2> QED  BY <2>1, LevelByLevel
<1>3. ASSUME NEW K \in Windows(Len(t)), f \in Hash(t, K) PROVE TopicMatches(t, f)
  <2>1. K \subseteq DOMAIN t /\ Len(t) > 0
    BY <1>3 DEF Windows, Row
  <2> QED  BY <1>3, <2>1, GapByGap
<1> QED  BY <1>1, <1>2, <1>3 DEF TopicPatterns

-----------------------------------------------------------------------------
(* What is found *)

\* All levels but one are in a row around the end.
LEMMA AllButOne ==
    ASSUME NEW n \in Nat, n > 1, NEW i \in 1 .. n
    PROVE  (1 .. n) \ {i} \in Windows(n)
<1> DEFINE e == IF i = 1 THEN n ELSE i - 1
<1>1. e \in 1 .. n /\ n - 1 \in 1 .. n - 1
  OBVIOUS
<1>2. Row(n, e, n - 1) = (1 .. n) \ {i}
  BY DEF Row
<1> QED  BY <1>1, <1>2 DEF Windows

LEMMA Prefix ==
    ASSUME NEW n \in Nat, NEW i \in 1 .. n - 1
    PROVE  1 .. i \in Windows(n)
<1>1. Row(n, i, i) = 1 .. i
  BY DEF Row
<1> QED  BY <1>1 DEF Windows

\* The topic, every filter with "+" for one level, and every filter that ends
\* in "#" after some of the levels, are among the patterns of a topic.
THEOREM TopicPatternsFind ==
    ASSUME NEW L, NEW t \in Seq(L)
    PROVE  /\ t \in TopicPatterns(t)
           /\ Len(t) > 1 => \A i \in DOMAIN t : [t EXCEPT ![i] = One] \in TopicPatterns(t)
           /\ \A i \in 1 .. Len(t) - 1 : SubSeq(t, 1, i) \o <<Rest>> \in TopicPatterns(t)
<1> DEFINE n == Len(t)
<1>1. n \in Nat /\ DOMAIN t = 1 .. n
  OBVIOUS
<1>2. t \in TopicPatterns(t)
  BY DEF TopicPatterns
<1>3. ASSUME n > 1, NEW i \in 1 .. n PROVE [t EXCEPT ![i] = One] \in TopicPatterns(t)
  <2>1. (1 .. n) \ {i} \in Windows(n)
    BY <1>1, <1>3, AllButOne
  <2>2. [t EXCEPT ![i] = One] = Plus(t, (1 .. n) \ {i})
    BY <1>1 DEF Plus
  <2> QED  BY <2>1, <2>2 DEF TopicPatterns
<1>4. ASSUME NEW i \in 1 .. n - 1 PROVE SubSeq(t, 1, i) \o <<Rest>> \in TopicPatterns(t)
  <2> DEFINE K == 1 .. i
             shown == {k \in DOMAIN t : k \in K \/ k = 1 \/ k - 1 \in K}
             at == [k \in 1 .. i + 1 |-> k]
             f == [k \in DOMAIN at |-> IF at[k] \in K THEN t[at[k]] ELSE Rest]
  <2>1. shown = 1 .. i + 1
    BY <1>1
  <2>2. at \in SeqOf(shown, n)
    BY <1>1, <2>1 DEF SeqOf
  <2>3. at \in Listings(shown, n)
    <3>1. DOMAIN at = 1 .. i + 1 /\ \A k \in 1 .. i + 1 : at[k] = k
      OBVIOUS
    <3>2. shown = {at[k] : k \in DOMAIN at}
      BY <2>1
    <3>3. \A k, j \in DOMAIN at : k < j => at[k] < at[j]
      BY <3>1
    <3> HIDE DEF at, shown
    <3> QED  BY <2>2, <3>2, <3>3 DEF Listings
  <2>4. f \in Hash(t, K)
    <3> HIDE DEF at
    <3> QED  BY <2>3 DEF Hash
  <2>5. f = [k \in 1 .. i + 1 |-> IF k <= i THEN t[k] ELSE Rest]
    OBVIOUS
  <2>6. SubSeq(t, 1, i) \o <<Rest>> = [k \in 1 .. i + 1 |-> IF k <= i THEN t[k] ELSE Rest]
    <3>1. SubSeq(t, 1, i) \in Seq(L) /\ Len(SubSeq(t, 1, i)) = i /\ \A k \in 1 .. i : SubSeq(t, 1, i)[k] = t[k]
      BY <1>1
    <3> QED  BY <1>1, <3>1
  <2>7. K \in Windows(n)
    BY <1>1, Prefix
  <2>8. f \in TopicPatterns(t)
    <3> HIDE DEF f, K
    <3> QED  BY <2>4, <2>7 DEF TopicPatterns
  <2> HIDE DEF f
  <2> QED  BY <2>5, <2>6, <2>8
<1> QED  BY <1>1, <1>2, <1>3, <1>4

-----------------------------------------------------------------------------
(* The properties of the run *)

PatternLevels == {"a", "b", "c", "d"}

LEMMA PatternTopicsTyped == PatternTopics \subseteq Seq(PatternLevels)
<1>1. "a" \in PatternLevels /\ "b" \in PatternLevels /\ "c" \in PatternLevels /\ "d" \in PatternLevels
  BY DEF PatternLevels
<1>2. <<"a">> \in Seq(PatternLevels)
  BY <1>1
<1>3. <<"a", "b">> \in Seq(PatternLevels) /\ <<"a", "a">> \in Seq(PatternLevels)
  BY <1>1
<1>4. <<"a", "b", "c">> \in Seq(PatternLevels) /\ <<"a", "b", "a">> \in Seq(PatternLevels)
  BY <1>1
<1>5. <<"a", "b", "c", "d">> \in Seq(PatternLevels)
  BY <1>1
<1> QED  BY <1>2, <1>3, <1>4, <1>5, Zenon DEF PatternTopics

\* Where Mongo looks for subscriptions, a query finds none whose filter does
\* not match the topic.
THEOREM MongoFindsNoOther == Spec => []PatternsSound
<1>1. PatternsSound
  BY PatternTopicsTyped, TopicPatternsMatch DEF PatternsSound, Sound
<1> QED  BY <1>1, PTL

\* The query finds the kinds of filter that Mongo can be relied on for.
THEOREM MongoFinds == Spec => []PatternsFind
<1>1. PatternsFind
  BY PatternTopicsTyped, TopicPatternsFind DEF PatternsFind, Finding
<1> QED  BY <1>1, PTL
=============================================================================
