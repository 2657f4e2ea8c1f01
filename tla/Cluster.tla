------------------------------ MODULE Cluster ------------------------------
(***************************************************************************)
(* `loghog cluster`: stage 04, the partition of one window into            *)
(* near-duplicates (src/loghog/cluster/run.py).                            *)
(*                                                                         *)
(* Five steps: shingle, sketch, band, verify, merge.  Banding proposes     *)
(* pairs, an exact comparison verifies each of them, and a union-find over *)
(* the ids merges the pairs that pass, one after the other.                *)
(*                                                                         *)
(* A record's text is its set of shingles.  A MinHash permutation is the   *)
(* order it puts the shingles in, given by a rank for each; a band is a    *)
(* run of consecutive permutations.  Record ids are numbers because they   *)
(* are only compared.                                                      *)
(***************************************************************************)
EXTENDS Shingles, Integers, Sequences, FiniteSets

CONSTANTS
    Ids,            \* record ids, in the order of their names
    Phrases,        \* the shingles a text can hold
    Family,         \* the permutations of a MinHasher, each a rank of Phrases
    Bands,          \* [cluster] bands
    Thresholds,     \* values of [cluster] jaccard_threshold, <<num, den>>
    Windows,        \* the windows: sequences of [id, phrases]
    Scores          \* the scores of the ids; 0 for a record without one

Record == [id : Ids, phrases : {t \in SUBSET Phrases : IsFiniteSet(t)}]

ASSUME IdsAssumption == Ids \subseteq Nat /\ IsFiniteSet(Ids)
ASSUME FamilyAssumption == Family \in Seq([Phrases -> Nat])
ASSUME BandsAssumption == Bands \in Nat \ {0} /\ Len(Family) % Bands = 0
ASSUME ThresholdsAssumption ==
    Thresholds \subseteq {f \in (Nat \ {0}) \X (Nat \ {0}) : f[1] <= f[2]}
ASSUME WindowsAssumption == Windows \subseteq Seq(Record)
ASSUME ScoresAssumption == Scores \subseteq [Ids -> Nat]

VARIABLES
    window,     \* records.jsonl, as this run reads it
    scores,     \* scores.jsonl
    threshold,
    pc,         \* where the run is
    proposed,   \* the pairs banding proposed and verification kept, not merged yet
    merged,     \* the pairs merged
    parent,     \* UnionFind._parent
    clusters    \* the labelled partition, once there is one

given == <<window, scores, threshold>>
vars == <<given, pc, proposed, merged, parent, clusters>>

Members == {window[k].id : k \in DOMAIN window}

\* The shingles of a record; its id stands for one record (see Refused).
Text(x) == window[CHOOSE k \in DOMAIN window : window[k].id = x].phrases

----------------------------------------------------------------------------
(***************************************************************************)
(* Sketching and banding: MinHasher.signature, band_buckets and            *)
(* candidate_pairs.  A text without a word has no signature.               *)
(***************************************************************************)
Least(S) == CHOOSE m \in S : \A n \in S : m <= n

Signature(t) == [p \in DOMAIN Family |-> Least({Family[p][w] : w \in t})]

RowsPerBand == Len(Family) \div Bands

Band(b) == ((b - 1) * RowsPerBand + 1) .. (b * RowsPerBand)

SameBucket(s, t) ==
    \E b \in 1 .. Bands : \A p \in Band(b) : Signature(s)[p] = Signature(t)[p]

Pairs == {e \in Members \X Members : e[1] < e[2]}

Candidates ==
    {e \in Pairs : /\ Text(e[1]) # {} /\ Text(e[2]) # {}
                   /\ SameBucket(Text(e[1]), Text(e[2]))}

Similar(e) == AtLeast(Jaccard(Text(e[1]), Text(e[2])), threshold)

----------------------------------------------------------------------------
(***************************************************************************)
(* Union-find: find with path compression, union by name.                  *)
(***************************************************************************)
Path(p, x) ==
    LET path[y \in DOMAIN p] == IF p[y] = y THEN {y} ELSE {y} \cup path[p[y]]
    IN  path[x]

Root(p, x) == CHOOSE r \in Path(p, x) : p[r] = r

Compressed(p, x) ==
    [y \in DOMAIN p |-> IF y \in Path(p, x) THEN Root(p, x) ELSE p[y]]

\* Slips: the elements are linked and not their roots; the larger root is kept.
UnionElements(p, l, r) == [p EXCEPT ![r] = l]
UnionLarger(p, l, r) ==
    LET a == Root(p, l)  b == Root(p, r) IN [p EXCEPT ![Least({a, b})] = IF a < b THEN b ELSE a]

Union(p, l, r) ==
    LET q == Compressed(Compressed(p, l), r)
        a == Root(q, l)
        b == Root(q, r)
    IN  CASE a = b -> q
          [] a < b -> [q EXCEPT ![b] = a]
          [] b < a -> [q EXCEPT ![a] = b]

Groups(p) == {{y \in DOMAIN p : Root(p, y) = Root(p, x)} : x \in DOMAIN p}

----------------------------------------------------------------------------
(***************************************************************************)
(* Labels: the representative is the best-scored member, and the clusters  *)
(* come biggest first.                                                     *)
(***************************************************************************)
Representative(g) ==
    CHOOSE x \in g : \A y \in g :
        scores[x] > scores[y] \/ (scores[x] = scores[y] /\ x <= y)

Inside(g) == {Jaccard(Text(e[1]), Text(e[2])) : e \in {f \in merged : f[1] \in g /\ f[2] \in g}}

NoLink == <<0, 0>>

\* Slip: the strongest link.
StrongestLink(g) ==
    IF Inside(g) = {} THEN NoLink
    ELSE CHOOSE f \in Inside(g) : \A h \in Inside(g) : AtLeast(f, h)

WeakestLink(g) ==
    IF Inside(g) = {} THEN NoLink
    ELSE CHOOSE f \in Inside(g) : \A h \in Inside(g) : AtLeast(h, f)

Before(g, h) ==
    \/ Cardinality(g) > Cardinality(h)
    \/ Cardinality(g) = Cardinality(h) /\ Representative(g) < Representative(h)

\* The k-th cluster is the one that k are not after.
Labelled ==
    LET groups == Groups(parent)
        place(g) == Cardinality({h \in groups : h = g \/ Before(h, g)})
        at(k) == CHOOSE g \in groups : place(g) = k
    IN  [k \in 1 .. Cardinality(groups) |->
            [ representative |-> Representative(at(k)),
              members |-> at(k),
              weakest |-> WeakestLink(at(k)) ]]

----------------------------------------------------------------------------
Init ==
    /\ window \in Windows
    /\ scores \in Scores
    /\ threshold \in Thresholds
    /\ pc = "start"
    /\ proposed = {}
    /\ merged = {}
    /\ parent = << >>
    /\ clusters = << >>

\* No record, or one id twice: "Clustering would put one record in two clusters."
Refused == window = << >> \/ Cardinality(Members) # Len(window)

Refuse ==
    /\ pc = "start"
    /\ Refused
    /\ pc' = "refused"
    /\ UNCHANGED <<given, proposed, merged, parent, clusters>>

Propose ==
    /\ pc = "start"
    /\ ~Refused
    /\ pc' = "merge"
    /\ proposed' = {e \in Candidates : Similar(e)}
    /\ parent' = [x \in Members |-> x]
    /\ UNCHANGED <<given, merged, clusters>>

\* The pairs are merged in their sorted order.
First(S) == CHOOSE e \in S : \A f \in S : e[1] < f[1] \/ (e[1] = f[1] /\ e[2] <= f[2])

Merge ==
    /\ pc = "merge"
    /\ proposed # {}
    /\ LET e == First(proposed)
       IN  /\ parent' = Union(parent, e[1], e[2])
           /\ proposed' = proposed \ {e}
           /\ merged' = merged \cup {e}
    /\ UNCHANGED <<given, pc, clusters>>

Label ==
    /\ pc = "merge"
    /\ proposed = {}
    /\ pc' = "done"
    /\ clusters' = Labelled
    /\ UNCHANGED <<given, proposed, merged, parent>>

Ended == pc \in {"refused", "done"} /\ UNCHANGED vars

Next == Refuse \/ Propose \/ Merge \/ Label \/ Ended

Spec == Init /\ [][Next]_vars

----------------------------------------------------------------------------
(***************************************************************************)
(* Properties.  Linked(E): the pairs of members a chain of pairs of E      *)
(* joins -- no set that no pair of E leaves holds one without the other.   *)
(***************************************************************************)
Linked(E) ==
    {e \in Members \X Members :
        \A S \in SUBSET Members :
            (\A f \in E : f[1] \in S <=> f[2] \in S) => (e[1] \in S <=> e[2] \in S)}

\* A parent is never a larger id than its child: the forest has no cycle, so
\* `while self._parent[root] != root` ends, and every root is the least id of
\* its set (UnionFind.union, "keeping the lexicographically smaller root").
ParentsDescend == \A x \in DOMAIN parent : parent[x] <= x

\* The state has its shape, the forest above all.
TypeOK ==
    /\ window \in Seq(Record) /\ scores \in [Ids -> Nat] /\ threshold \in Thresholds
    /\ pc \in {"start", "merge", "done", "refused"}
    /\ proposed \subseteq Pairs
    /\ merged \subseteq Pairs
    /\ pc \in {"merge", "done"} => parent \in [Members -> Members]
    /\ ParentsDescend
    /\ \A k \in DOMAIN clusters : clusters[k].members \subseteq Members

(***************************************************************************)
(* The partition, as NearDuplicates speaks of it.                          *)
(***************************************************************************)
Alike == {e \in Pairs : AtLeast(Jaccard(Text(e[1]), Text(e[2])), threshold)}

Blocks ==
    CASE pc \in {"start", "refused"} -> {{x} : x \in Members}
      [] pc = "merge" -> Groups(parent)
      [] pc = "done" -> {clusters[k].members : k \in DOMAIN clusters}

N == INSTANCE NearDuplicates WITH
        members <- Members,
        alike <- Alike,
        twins <- {e \in Pairs : Text(e[1]) = Text(e[2]) /\ Text(e[1]) # {}},
        chosen <- {e \in Candidates : Similar(e)},
        blocks <- Blocks,
        state <- CASE pc = "done" -> "closed" [] pc = "refused" -> "refused" [] OTHER -> "open"

\* Shingling, banding, verification and a union-find with path compression come
\* to the partition NearDuplicates speaks of, one join at a time: no union
\* splits a set or loses a link, no two records meet but through a chain of
\* pairs at the threshold, and two records with the same words always meet,
\* whatever the buckets; labelling gives out that partition and no other.
PartitionKept == N!Spec

\* min_link_jaccard is the weakest link that built the cluster: the cluster
\* holds together by links at least that strong, the threshold is at most that,
\* and only a record alone reports none.
WeakestBuiltIt ==
    pc = "done" => \A k \in DOMAIN clusters :
        LET c == clusters[k]
            strong == {e \in merged : AtLeast(Jaccard(Text(e[1]), Text(e[2])), c.weakest)}
        IN  IF Cardinality(c.members) = 1 THEN c.weakest = NoLink
            ELSE /\ AtLeast(c.weakest, threshold)
                 /\ c.members \X c.members \subseteq Linked(strong)
=============================================================================
