------------------------------ MODULE Shingles ------------------------------
(***************************************************************************)
(* The similarity model four stages share: a text is the set of its        *)
(* shingles, two texts are as alike as those sets                          *)
(* (src/loghog/cluster/shingles.py).  A similarity is a fraction           *)
(* <<numerator, denominator>>, so that a threshold is compared exactly.    *)
(***************************************************************************)
EXTENDS Naturals, FiniteSets

\* jaccard: zero when either text is empty, two empty ones included.
Jaccard(s, t) ==
    IF s = {} \/ t = {} THEN <<0, 1>>
    ELSE <<Cardinality(s \cap t), Cardinality(s \cup t)>>

AtLeast(f, g) == f[1] * g[2] >= g[1] * f[2]

\* max(jaccard(mine, theirs) for theirs in ...) >= threshold, for a threshold
\* above zero: an empty collection answers zero.
Near(mine, others, threshold) ==
    \E theirs \in others : AtLeast(Jaccard(mine, theirs), threshold)
=============================================================================
