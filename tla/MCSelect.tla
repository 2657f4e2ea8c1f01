------------------------------ MODULE MCSelect ------------------------------
(***************************************************************************)
(* Select on four records.  Scores follow from the signals, as stage 03    *)
(* computes them; the file lists the records out of the order of their     *)
(* ids, and clusters.json may put them together in every way.              *)
(***************************************************************************)
EXTENDS Select, TLC

CONSTANTS error, tiny, ordinary, old, c1, c2, c3, c4, alone

MCRegistry == <<error, tiny>>
MCIds == 1..4

Weight == (error :> 3) @@ (tiny :> 1)

ScoreOf(names) ==
    (IF error \in names THEN 3 ELSE 0) + (IF tiny \in names THEN 1 ELSE 0)

\* scores.jsonl with the record ids in this order.
File(ids, names) ==
    [k \in DOMAIN ids |-> [ id |-> ids[k], score |-> ScoreOf(names[k]), names |-> names[k] ]]

\* Each way to put four records in clusters, under one naming.
Partitions ==
    {f \in [1..4 -> {c1, c2, c3, c4}] :
        /\ f[1] = c1
        /\ f[2] \in {c1, c2}
        /\ f[3] = c3 => f[2] = c2
        /\ f[3] # c4
        /\ f[4] = c3 => c2 \in {f[2], f[3]}
        /\ f[4] = c4 => f[3] = c3}

Quotas == { (error :> 1) @@ (tiny :> 0) @@ (ordinary :> 2),
            (error :> 2) @@ (tiny :> 1) @@ (ordinary :> 1) }

Heavy == (error :> 1) @@ (tiny :> 2)    \* weights changed since the scoring

Joined ==
    { [ window |-> MCIds, rows |-> File(<<2, 4, 1, 3>>, names), cluster |-> f,
        held |-> held, weight |-> Weight, quota |-> q, cap |-> cap, perCluster |-> m ] :
          names \in [1..4 -> {{}, {error}, {error, tiny}}],
          f \in Partitions,
          held \in {{}, {1}, {3}},
          q \in Quotas,
          cap \in {1, 2},
          m \in {1, 2} }

\* Files that do not cover each other, a record scored twice, weights and
\* signal names that changed since stage 03.
Stale ==
    { [ window |-> window, rows |-> File(ids, [k \in 1..3 |-> names]),
        cluster |-> f, held |-> {}, weight |-> Heavy, quota |-> q,
        cap |-> 2, perCluster |-> 2 ] :
          window \in {{}, {1}, {1, 2}, {1, 2, 3}},
          ids \in {<<1, 2, 1>>, <<2, 3, 1>>},
          names \in {{old}, {error, tiny}},
          f \in {[i \in 1..4 |-> c1],
                 (1 :> c1) @@ (2 :> c2) @@ (3 :> alone) @@ (4 :> c2)},
          q \in Quotas }

MCInputs == Joined \cup Stale
=============================================================================
