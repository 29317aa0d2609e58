---------------------------- MODULE TopicPatterns ----------------------------
(***************************************************************************)
(* The filters that can match a topic: topicPatterns, which enumerates     *)
(* them (lib/persistence/utils.js), and Matcher, which decides it          *)
(* (lib/persistence/matcher.js, a Qlobber).  Topics and filters are the    *)
(* sequences of their levels.                                              *)
(***************************************************************************)
EXTENDS Integers, Sequences, SequencesExt

One == "+"
Rest == "#"

\* j of n levels in a row that end with i, counted around the end.
Row(n, i, j) == {k \in 1 .. n : {k, k - n} \cap (i - j + 1 .. i) # {}}

\* The sets of levels that a pattern keeps: those in a row, all but the whole
\* topic.  Mutant: one less, as for (j = 1; j < parts.length - 1; j++) has it.
WindowsShort(n) == {Row(n, i, j) : i \in 1 .. n, j \in 1 .. n - 2}
Windows(n) == {Row(n, i, j) : i \in 1 .. n, j \in 1 .. n - 1}

\* The positions of S one after the other, of n at most.
Listings(S, n) ==
    {at \in SeqOf(S, n) : /\ \A i, j \in DOMAIN at : i < j => at[i] < at[j]
                          /\ S = {at[i] : i \in DOMAIN at}}

\* The other levels each become a "+".  Mutant: they are left out.
PlusLeavesOut(t, K) == CHOOSE f \in {[i \in DOMAIN at |-> t[at[i]]] : at \in Listings(K, Len(t))} : TRUE
Plus(t, K) == [i \in DOMAIN t |-> IF i \in K THEN t[i] ELSE One]

\* Those in a row become one "#", in the only way that there is to list them.
Hash(t, K) ==
    LET shown == {i \in DOMAIN t : i \in K \/ i = 1 \/ i - 1 \in K} IN
    {[i \in DOMAIN at |-> IF at[i] \in K THEN t[at[i]] ELSE Rest] : at \in Listings(shown, Len(t))}

TopicPatterns(t) ==
    {t} \cup UNION {{Plus(t, K)} \cup Hash(t, K) : K \in Windows(Len(t))}

\* Filter f matches topic t: "+" stands for a level, "#" for any number; j of
\* the levels of f reach to level end[j] of t.
TopicMatches(t, f) ==
    \E end \in [0 .. Len(f) -> 0 .. Len(t)] :
       /\ end[0] = 0 /\ end[Len(f)] = Len(t)
       /\ \A j \in 1 .. Len(f) :
             IF f[j] = Rest THEN end[j - 1] <= end[j]
             ELSE end[j] = end[j - 1] + 1 /\ f[j] \in {One, t[end[j]]}
=============================================================================
