------------------------------ MODULE MCCluster -----------------------------
(***************************************************************************)
(* Cluster on windows of up to four records over three shingles: all of    *)
(* the chains, twins and wordless texts such windows can hold.             *)
(***************************************************************************)
EXTENDS Cluster

CONSTANTS w1, w2, w3

Rank(a, b, c) == [x \in {w1, w2, w3} |-> CASE x = w1 -> a [] x = w2 -> b [] x = w3 -> c]

\* Two bands of one permutation: w1, and then w3, are most often the minimum.
MCFamily == <<Rank(1, 2, 3), Rank(3, 2, 1)>>

MCThresholds == {<<1, 3>>, <<1, 2>>, <<1, 1>>}

\* Four records out of the order of their ids; one id twice; no record.
MCWindows ==
    { [k \in 1..4 |-> [id |-> <<3, 1, 4, 2>>[k], phrases |-> t[k]]] :
        t \in [1..4 -> {{}, {w1}, {w3}, {w1, w2}, {w2, w3}, {w1, w2, w3}}] }
    \cup { <<[id |-> 2, phrases |-> {w1}], [id |-> 2, phrases |-> t]>> : t \in {{w1}, {w2}} }
    \cup { << >> }

MCScores == { [x \in 1..4 |-> 0], [x \in 1..4 |-> IF x = 3 THEN 2 ELSE 1] }
=============================================================================
