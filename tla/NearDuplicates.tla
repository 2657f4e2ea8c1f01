---------------------------- MODULE NearDuplicates ----------------------------
(***************************************************************************)
(* What stage 04 promises of its partition, with no word about sketches,   *)
(* trees or the order of merges (stages/04_cluster, src/loghog/cluster/).  *)
(* Some of the pairs at the threshold are chosen -- banding may pass over  *)
(* any of them but two records with the same words -- and the blocks of    *)
(* the partition are joined, two at a time, for as long as a chosen pair   *)
(* lies across two of them.                                                *)
(***************************************************************************)
EXTENDS FiniteSets

VARIABLES
    members,    \* the records of the window
    alike,      \* the pairs of them at the threshold
    twins,      \* the pairs of them with the same words
    chosen,     \* the pairs that count
    blocks,     \* the partition so far
    state       \* "open", "closed" or "refused"

vars == <<members, alike, twins, chosen, blocks, state>>

Singletons == {{x} : x \in members}

Init ==
    /\ twins \subseteq chosen /\ chosen \subseteq alike
    /\ blocks = Singletons
    /\ state = "open"

Across(e, b, c) == e[1] \in b /\ e[2] \in c

Join ==
    /\ state = "open"
    /\ \E b, c \in blocks, e \in chosen :
         /\ b # c /\ Across(e, b, c)
         /\ blocks' = (blocks \ {b, c}) \cup {b \cup c}
    /\ UNCHANGED <<members, alike, twins, chosen, state>>

\* The partition is given out: no chosen pair lies across two blocks.
Close ==
    /\ state = "open"
    /\ \A e \in chosen : \E b \in blocks : Across(e, b, b)
    /\ state' = "closed"
    /\ UNCHANGED <<members, alike, twins, chosen, blocks>>

\* The window is one that cannot be partitioned.
Refuse ==
    /\ state = "open" /\ blocks = Singletons
    /\ state' = "refused"
    /\ UNCHANGED <<members, alike, twins, chosen, blocks>>

Next == Join \/ Close \/ Refuse

Spec == Init /\ [][Next]_vars
=============================================================================
