---------------------------- MODULE SelectProofs ----------------------------
(***************************************************************************)
(* Proofs about Select, for every window, every three files that may be    *)
(* joined over it, every registry of signals and every setting.            *)
(***************************************************************************)
EXTENDS Select, Induction

----------------------------------------------------------------------------
(***************************************************************************)
(* The input: the rows are numbered, Better puts them in one order, and    *)
(* every row has a stratum.                                                *)
(***************************************************************************)
LEMMA InputTypes ==
    ASSUME input \in Input
    PROVE  /\ Len(input.rows) \in Nat /\ Rows = 1 .. Len(input.rows)
           /\ IsFiniteSet(Rows) /\ Cardinality(Rows) = Len(input.rows)
           /\ \A r \in Rows : input.rows[r].score \in Nat /\ input.rows[r].id \in Ids
           /\ input.weight \in [Signals -> Nat \ {0}]
           /\ input.quota \in [Strata -> Nat]
           /\ input.cap \in Nat \ {0} /\ input.perCluster \in Nat \ {0}
           /\ input.cluster \in [Ids -> Clusters \cup {NoCluster}]
  <1>1. input.rows \in Seq(Row)
    BY DEF Input
  <1>2. Len(input.rows) \in Nat /\ Rows = 1 .. Len(input.rows)
    BY <1>1 DEF Rows
  <1>3. IsFiniteSet(Rows) /\ Cardinality(Rows) = Len(input.rows)
    BY <1>2, FS_Interval
  <1>4. \A r \in Rows : input.rows[r].score \in Nat /\ input.rows[r].id \in Ids
    <2> SUFFICES ASSUME NEW r \in 1 .. Len(input.rows)
                 PROVE  input.rows[r].score \in Nat /\ input.rows[r].id \in Ids
      BY <1>2
    <2>1. input.rows[r] \in Row
      BY <1>1
    <2> QED BY <2>1 DEF Row
  <1> QED BY <1>2, <1>3, <1>4 DEF Input

\* Better is the strict order of the contract.
LEMMA BetterIsAnOrder ==
    ASSUME input \in Input
    PROVE  /\ \A q, r \in Rows : Better(q, r) <=> Ahead(q, r)
           /\ \A r \in Rows : ~Better(r, r)
           /\ \A q, r \in Rows : q = r \/ Better(q, r) \/ Better(r, q)
           /\ \A p, q, r \in Rows : Better(p, q) /\ Better(q, r) => Better(p, r)
  <1> DEFINE s(r) == input.rows[r].score
             i(r) == input.rows[r].id
  <1>1. ASSUME NEW r \in Rows PROVE r \in Nat /\ s(r) \in Nat /\ i(r) \in Nat
    <2>1. r \in 1 .. Len(input.rows) /\ Len(input.rows) \in Nat
      BY <1>1, InputTypes
    <2>2. input.rows[r].score \in Nat /\ input.rows[r].id \in Nat
      BY <1>1, InputTypes, IdsAssumption
    <2> QED BY <2>1, <2>2
  <1>2. \A q, r : Better(q, r) <=> \/ s(q) > s(r)
                                   \/ s(q) = s(r) /\ i(q) < i(r)
                                   \/ s(q) = s(r) /\ i(q) = i(r) /\ q < r
    BY DEF Better
  <1>3. \A q, r : Ahead(q, r) <=> Better(q, r)
    BY <1>2 DEF Ahead
  <1> HIDE DEF s, i
  <1>4. \A r \in Rows : ~Better(r, r)
    BY <1>1, <1>2
  <1>5. \A q, r \in Rows : q = r \/ Better(q, r) \/ Better(r, q)
    BY <1>1, <1>2
  <1>6. ASSUME NEW p \in Rows, NEW q \in Rows, NEW r \in Rows, Better(p, q), Better(q, r)
        PROVE  Better(p, r)
    BY <1>1, <1>2, <1>6
  <1> QED BY <1>3, <1>4, <1>5, <1>6

\* A set of rows that is not empty has a first one.
LEMMA FirstRow ==
    ASSUME input \in Input, NEW S \in SUBSET Rows, S # {}
    PROVE  \E r \in S : \A q \in S \ {r} : Better(r, q)
  <1> DEFINE L == {p \in S \X S : Better(p[1], p[2])}
  <1>1. \A x, y \in S : <<x, y>> \in L <=> Better(x, y)
    OBVIOUS
  <1>2. \A x \in S : <<x, x>> \notin L
    BY <1>1, BetterIsAnOrder
  <1>3. \A x, y, z \in S : <<x, y>> \in L /\ <<y, z>> \in L => <<x, z>> \in L
    BY <1>1, BetterIsAnOrder
  <1>4. IsFiniteSet(S)
    BY InputTypes, FS_Subset
  <1> HIDE DEF L
  <1>5. PICK r \in S : \A q \in S : <<q, r>> \notin L
    BY <1>2, <1>3, <1>4, FirstElement
  <1> QED BY <1>1, <1>5, BetterIsAnOrder

\* Every row falls into a stratum.
LEMMA StratumType ==
    ASSUME input \in Input
    PROVE  \A r \in Rows : Stratum(r) \in Strata
  <1> SUFFICES ASSUME NEW r \in Rows PROVE Stratum(r) \in Strata
    OBVIOUS
  <1> DEFINE known == {k \in DOMAIN Registry : Registry[k] \in input.rows[r].names}
             w(k) == input.weight[Registry[k]]
             heaviest == {k \in known : \A m \in known :
                            w(k) > w(m) \/ (w(k) = w(m) /\ k <= m)}
             L == {p \in known \X known : \/ w(p[1]) > w(p[2])
                                          \/ (w(p[1]) = w(p[2]) /\ p[1] < p[2])}
  <1>1. Stratum(r) = IF known = {} THEN Ordinary ELSE Registry[CHOOSE k \in heaviest : TRUE]
    BY DEF Stratum
  <1>2. CASE known = {}
    BY <1>1, <1>2 DEF Strata
  <1>3. CASE known # {}
    <2>1. Len(Registry) \in Nat /\ DOMAIN Registry = 1 .. Len(Registry)
      BY RegistryAssumption
    <2>2. known \in SUBSET (1 .. Len(Registry)) /\ IsFiniteSet(known)
      <3>1. known \in SUBSET (1 .. Len(Registry))
        BY <2>1
      <3>2. IsFiniteSet(1 .. Len(Registry))
        BY <2>1, FS_Interval
      <3> HIDE DEF known
      <3> QED BY <3>1, <3>2, FS_Subset
    <2>3. \A k \in known : k \in Nat /\ w(k) \in Nat
      BY <2>1, RegistryAssumption, InputTypes
    <2>4. \A k, m \in known : <<k, m>> \in L <=> (w(k) > w(m) \/ (w(k) = w(m) /\ k < m))
      <3> HIDE DEF known, w
      <3> QED OBVIOUS
    <2> HIDE DEF L, w
    <2>5. \A k \in known : <<k, k>> \notin L
      BY <2>3, <2>4
    <2>6. ASSUME NEW k \in known, NEW m \in known, NEW n \in known,
                 <<k, m>> \in L, <<m, n>> \in L
          PROVE  <<k, n>> \in L
      <3> HIDE DEF known
      <3>1. w(k) > w(m) \/ (w(k) = w(m) /\ k < m)
        BY <2>4, <2>6
      <3>2. w(m) > w(n) \/ (w(m) = w(n) /\ m < n)
        BY <2>4, <2>6
      <3>3. w(k) > w(n) \/ (w(k) = w(n) /\ k < n)
        BY <2>3, <3>1, <3>2
      <3> QED BY <2>4, <3>3
    <2>7. PICK k \in known : \A m \in known : <<m, k>> \notin L
      <3> HIDE DEF known
      <3> QED BY <1>3, <2>2, <2>5, <2>6, FirstElement
    <2>8. k \in heaviest
      <3>1. ASSUME NEW m \in known PROVE w(k) > w(m) \/ (w(k) = w(m) /\ k <= m)
        <4> HIDE DEF known
        <4>1. ~(w(m) > w(k) \/ (w(m) = w(k) /\ m < k))
          BY <2>4, <2>7
        <4> QED BY <2>3, <4>1
      <3> QED BY <3>1
    <2>9. (CHOOSE m \in heaviest : TRUE) \in known
      BY <2>8
    <2> HIDE DEF heaviest
    <2> QED BY <1>1, <1>3, <2>1, <2>9 DEF Strata, Signals
  <1> QED BY <1>2, <1>3

----------------------------------------------------------------------------
(***************************************************************************)
(* The shortlist: there is one, and only one.                              *)
(***************************************************************************)
\* Whether a row belongs is decided by the rows ahead of it.
LEMMA FitsByTheRowsAhead ==
    ASSUME NEW r, NEW S, NEW T, \A q : Ahead(q, r) => (q \in S <=> q \in T), NEW cap
    PROVE  /\ AheadOf(r, S) = AheadOf(r, T)
           /\ AheadOf(r, Mates(r, S)) = AheadOf(r, Mates(r, T))
           /\ AheadOf(r, Kin(r, S)) = AheadOf(r, Kin(r, T))
           /\ Fits(r, S, cap) <=> Fits(r, T, cap)
  <1>1. AheadOf(r, S) = AheadOf(r, T)
    BY DEF AheadOf
  <1>2. AheadOf(r, Mates(r, S)) = AheadOf(r, Mates(r, T))
    BY DEF AheadOf, Mates
  <1>3. AheadOf(r, Kin(r, S)) = AheadOf(r, Kin(r, T))
    BY DEF AheadOf, Kin
  <1> QED BY <1>1, <1>2, <1>3 DEF Fits

\* S is the shortlist of the rows in P.
ShortlistOf(S, P, cap) == S \subseteq P /\ \A r \in P : r \in S <=> Fits(r, S, cap)

\* Two sets that agree with Fits are the same set.
LEMMA ShortlistIsUnique ==
    ASSUME input \in Input, NEW cap, NEW S \in SUBSET Rows, NEW T \in SUBSET Rows,
           ShortlistOf(S, Rows, cap), ShortlistOf(T, Rows, cap)
    PROVE  S = T
  <1> DEFINE D == {r \in Rows : ~(r \in S <=> r \in T)}
  <1>1. SUFFICES ASSUME D # {} PROVE FALSE
    OBVIOUS
  <1>2. PICK r \in D : \A q \in D \ {r} : Better(r, q)
    <2> D \in SUBSET Rows
      OBVIOUS
    <2> HIDE DEF D
    <2> QED BY <1>1, FirstRow
  <1>3. ASSUME NEW q, Ahead(q, r), ~(q \in S <=> q \in T) PROVE FALSE
    <2>1. q \in D
      BY <1>3
    <2>2. Better(q, r)
      BY <1>3, <2>1, BetterIsAnOrder
    <2>3. q # r /\ ~Better(r, q)
      BY <2>1, <2>2, BetterIsAnOrder
    <2> QED BY <1>2, <2>1, <2>3
  <1>4. Fits(r, S, cap) <=> Fits(r, T, cap)
    BY <1>3, FitsByTheRowsAhead
  <1> QED BY <1>4 DEF ShortlistOf

\* One row more, behind all there are: the verdicts on the others stand.
LEMMA ShortlistGrows ==
    ASSUME input \in Input, NEW cap, NEW P \in SUBSET Rows, NEW r \in Rows \ P,
           \A q \in P : Better(q, r), NEW S, ShortlistOf(S, P, cap)
    PROVE  ShortlistOf(IF Fits(r, S, cap) THEN S \cup {r} ELSE S, P \cup {r}, cap)
  <1> DEFINE T == IF Fits(r, S, cap) THEN S \cup {r} ELSE S
  <1>1. ASSUME NEW q \in P \cup {r} PROVE Fits(q, T, cap) <=> Fits(q, S, cap)
    <2>1. ~Ahead(r, q)
      BY BetterIsAnOrder
    <2>2. \A p : Ahead(p, q) => (p \in S <=> p \in T)
      BY <2>1
    <2> HIDE DEF T
    <2> QED BY <2>2, FitsByTheRowsAhead
  <1>2. r \in T <=> Fits(r, S, cap)
    BY DEF ShortlistOf
  <1>3. \A q \in P : q \in T <=> q \in S
    OBVIOUS
  <1>4. T \subseteq P \cup {r}
    BY DEF ShortlistOf
  <1> HIDE DEF T
  <1>5. ShortlistOf(T, P \cup {r}, cap)
    BY <1>1, <1>2, <1>3, <1>4 DEF ShortlistOf
  <1> QED BY <1>5 DEF T

\* There is one, of any set of rows.
LEMMA ShortlistExists ==
    ASSUME input \in Input, NEW cap
    PROVE  \E S \in SUBSET Rows : ShortlistOf(S, Rows, cap)
  <1> DEFINE closed(P) == \A q \in P : \A r \in Rows : Better(r, q) => r \in P
             F == {P \in SUBSET Rows : closed(P) /\ \E S : ShortlistOf(S, P, cap)}
  <1>1. {} \in F
    <2>1. ShortlistOf({}, {}, cap)
      BY DEF ShortlistOf
    <2> QED BY <2>1
  <1>2. \A P \in F : IsFiniteSet(Rows \ P) /\ Cardinality(Rows \ P) \in Nat
    BY InputTypes, FS_Subset, FS_CardinalityType
  <1>3. PICK P \in F : \A Q \in F : Cardinality(Rows \ P) <= Cardinality(Rows \ Q)
    <2> HIDE DEF F
    <2> DEFINE rest == [Q \in F |-> Cardinality(Rows \ Q)]
    <2>1. rest \in [F -> Nat]
      BY <1>2
    <2>2. PICK P \in F : \A Q \in F : rest[P] <= rest[Q]
      <3> HIDE DEF rest
      <3> QED BY <1>1, <2>1, LeastValue
    <2> QED BY <2>2
  <1>4. ASSUME Rows \ P # {} PROVE FALSE
    <2>1. PICK r \in Rows \ P : \A q \in (Rows \ P) \ {r} : Better(r, q)
      BY <1>4, FirstRow
    <2>2. \A q \in P : Better(q, r)
      BY BetterIsAnOrder
    <2>3. PICK S : ShortlistOf(S, P, cap)
      OBVIOUS
    <2>4. \E T : ShortlistOf(T, P \cup {r}, cap)
      BY <2>2, <2>3, ShortlistGrows
    <2>5. closed(P \cup {r})
      BY <2>1, <2>2, BetterIsAnOrder
    <2>6. P \cup {r} \in F
      BY <2>4, <2>5
    <2>7. Rows \ (P \cup {r}) = (Rows \ P) \ {r}
      OBVIOUS
    <2>8. Cardinality(Rows \ (P \cup {r})) = Cardinality(Rows \ P) - 1
      BY <1>2, <2>7, CardRemove
    <2> QED BY <1>2, <1>3, <2>6, <2>8
  <1> QED BY <1>4 DEF ShortlistOf

\* So Shortlist is the one set with its property.
LEMMA ShortlistIsTheOne ==
    ASSUME input \in Input, NEW cap
    PROVE  /\ Shortlist(cap) \in SUBSET Rows
           /\ ShortlistOf(Shortlist(cap), Rows, cap)
           /\ \A S \in SUBSET Rows : ShortlistOf(S, Rows, cap) => S = Shortlist(cap)
  <1>1. \E S \in SUBSET Rows : \A r \in Rows : r \in S <=> Fits(r, S, cap)
    BY ShortlistExists DEF ShortlistOf
  <1>2. /\ Shortlist(cap) \in SUBSET Rows
        /\ \A r \in Rows : r \in Shortlist(cap) <=> Fits(r, Shortlist(cap), cap)
    BY <1>1 DEF Shortlist
  <1>3. ShortlistOf(Shortlist(cap), Rows, cap)
    BY <1>2 DEF ShortlistOf
  <1> QED BY <1>2, <1>3, ShortlistIsUnique

----------------------------------------------------------------------------
(***************************************************************************)
(* The inductive invariant.                                                *)
(***************************************************************************)
\* The loop has begun: the three files covered each other.
Begun == pc \in {"loop", "report"} \/ report.written

\* What is written when, and the exit code with it.
Files ==
    /\ candidates = IF pc = "report" \/ report.written
                    THEN [written |-> TRUE, rows |-> selected] ELSE Untouched
    /\ report \in {Untouched,
                   [ written |-> TRUE, considered |-> Len(input.rows),
                     selected |-> Len(selected), dropped |-> dropped, filled |-> filled ]}
    /\ report.written => pc = "ended" /\ left = {} /\ exit = ExitCode
    /\ ~report.written => exit = IF pc = "ended" THEN 3 ELSE -1
    /\ pc = "report" => left = {}
    /\ Begun => ~Refused

\* Each row is still to come, taken or blamed.
Homes ==
    /\ Taken \cap left = {}
    /\ Begun => \A r \in Rows : (r \in left \cup Taken) <=> (blamed[r] = NotYet)
    /\ ~Begun => left = {} /\ selected = << >> /\ \A r \in Rows : blamed[r] = NotYet

\* The counters the loop tests are the sizes of what they count.
Counts ==
    /\ Len(selected) = Cardinality(Taken)
    /\ \A c \in Caps : dropped[c] = Cardinality({r \in Rows : blamed[r] = c})
    /\ \A c \in Clusters : perCluster[c] = Cardinality({r \in Taken : Cluster(r) = c})
    /\ \A s \in Strata :
         /\ filled[s] = Cardinality({r \in Taken : Stratum(r) = s})
         /\ filled[s] = Cardinality({k \in DOMAIN selected : Stratum(selected[k]) = s})

\* No counter is over its cap.
CountersCapped ==
    /\ Len(selected) <= input.cap
    /\ \A s \in Strata : filled[s] <= input.quota[s]
    /\ \A c \in Clusters : perCluster[c] <= input.perCluster

\* The rows passed are before the rows to come, and taken in that order.
Walked ==
    /\ \A q \in Rows \ left, r \in left : Better(q, r)
    /\ RanksDescend

\* The rows taken are those of the rows passed that fit.
Verdicts ==
    Begun => \A r \in Rows \ left : r \in Taken <=> Fits(r, Taken, input.cap)

SelectInv ==
    /\ TypeOK
    /\ Files
    /\ Homes
    /\ Counts
    /\ CountersCapped
    /\ Walked
    /\ Verdicts
    /\ BlameIsFirst

----------------------------------------------------------------------------
(***************************************************************************)
(* The row the loop is at.                                                 *)
(***************************************************************************)
LEMMA TakenRows ==
    ASSUME TypeOK
    PROVE  /\ Taken \in SUBSET Rows /\ IsFiniteSet(Taken)
           /\ Len(selected) \in Nat /\ DOMAIN selected = 1 .. Len(selected)
           /\ \A k \in DOMAIN selected : selected[k] \in Taken
           /\ input \in Input /\ IsFiniteSet(Rows)
  <1>1. selected \in Seq(Rows) /\ input \in Input
    BY DEF TypeOK
  <1>2. Taken \in SUBSET Rows
    BY <1>1 DEF Taken
  <1> QED BY <1>1, <1>2, InputTypes, FS_Subset DEF Taken

\* A row that is joined with its cluster is in one.
LEMMA JoinedHaveClusters ==
    ASSUME input \in Input, ~Refused, NEW r \in Rows
    PROVE  Cluster(r) \in Clusters
  <1>1. input.rows[r].id \in Ids /\ input.cluster \in [Ids -> Clusters \cup {NoCluster}]
    BY InputTypes
  <1>2. input.rows[r].id \in input.window
    BY DEF Refused, Scored
  <1>3. input.cluster[input.rows[r].id] # NoCluster
    BY <1>2 DEF Refused
  <1> QED BY <1>1, <1>3 DEF Cluster

\* For the row the loop is at, what the counters say is what Fits says: every
\* row taken is ahead of it.
LEMMA CountersTellFits ==
    ASSUME SelectInv, NEW r \in left
    PROVE  /\ r \in Rows /\ r \notin Taken /\ Begun
           /\ Cluster(r) \in Clusters /\ Stratum(r) \in Strata
           /\ Cardinality(AheadOf(r, Mates(r, Taken))) = perCluster[Cluster(r)]
           /\ Cardinality(AheadOf(r, Kin(r, Taken))) = filled[Stratum(r)]
           /\ Cardinality(AheadOf(r, Taken)) = Len(selected)
           /\ perCluster[Cluster(r)] \in Nat /\ filled[Stratum(r)] \in Nat
           /\ input.perCluster \in Nat /\ input.quota[Stratum(r)] \in Nat /\ input.cap \in Nat
           /\ Fits(r, Taken, input.cap) <=>
                 ~Held(r) /\ ~ClusterFull(r) /\ ~StratumFull(r) /\ ~ListFull
  <1> USE DEF SelectInv
  <1>1. input \in Input /\ Taken \in SUBSET Rows /\ left \subseteq Rows /\ Len(selected) \in Nat
    BY TakenRows DEF TypeOK
  <1>2. r \in Rows /\ r \notin Taken /\ Begun
    BY <1>1 DEF Homes
  <1>3. Cluster(r) \in Clusters /\ Stratum(r) \in Strata
    BY <1>1, <1>2, JoinedHaveClusters, StratumType DEF Files
  <1>4. \A q \in Taken : Ahead(q, r)
    BY <1>1, <1>2, BetterIsAnOrder DEF Walked, Homes
  <1>5. AheadOf(r, Taken) = Taken
    BY <1>4 DEF AheadOf
  <1>6. AheadOf(r, Mates(r, Taken)) = {q \in Taken : Cluster(q) = Cluster(r)}
    BY <1>4 DEF AheadOf, Mates
  <1>7. AheadOf(r, Kin(r, Taken)) = {q \in Taken : Stratum(q) = Stratum(r)}
    BY <1>4 DEF AheadOf, Kin
  <1>8. /\ Cardinality(AheadOf(r, Mates(r, Taken))) = perCluster[Cluster(r)]
        /\ Cardinality(AheadOf(r, Kin(r, Taken))) = filled[Stratum(r)]
        /\ Cardinality(AheadOf(r, Taken)) = Len(selected)
    BY <1>3, <1>5, <1>6, <1>7 DEF Counts
  <1>9. /\ perCluster[Cluster(r)] \in Nat /\ filled[Stratum(r)] \in Nat
        /\ input.perCluster \in Nat /\ input.quota[Stratum(r)] \in Nat /\ input.cap \in Nat
    BY <1>1, <1>3, InputTypes DEF TypeOK
  <1>10. Fits(r, Taken, input.cap) <=>
           ~Held(r) /\ ~ClusterFull(r) /\ ~StratumFull(r) /\ ~ListFull
    <2>1. Fits(r, Taken, input.cap) <=>
            /\ ~Held(r)
            /\ perCluster[Cluster(r)] < input.perCluster
            /\ filled[Stratum(r)] < input.quota[Stratum(r)]
            /\ Len(selected) < input.cap
      BY <1>8 DEF Fits
    <2> QED BY <2>1, <1>1, <1>9 DEF ClusterFull, StratumFull, ListFull
  <1> QED BY <1>2, <1>3, <1>8, <1>9, <1>10

\* The input does not change, nor what is read from it.
LEMMA Frozen ==
    ASSUME [Next]_vars
    PROVE  /\ input' = input /\ Rows' = Rows
           /\ Refused' <=> Refused
           /\ \A r : Stratum(r)' = Stratum(r) /\ Cluster(r)' = Cluster(r) /\ (Held(r)' <=> Held(r))
           /\ \A q, r : (Ahead(q, r)' <=> Ahead(q, r)) /\ (Better(q, r)' <=> Better(q, r))
  <1>1. input' = input
    BY DEF Next, vars, Refuse, Join, Visit, DropHeld, DropClusterCap, DropQuota, DropGlobalCap,
        Drop, Take, WriteCandidates, WriteReport, Ended
  <1>2. Rows' = Rows
    BY <1>1 DEF Rows
  <1>3. Refused' <=> Refused
    BY <1>1 DEF Refused, Scored, Rows
  <1>4. \A r : Stratum(r)' = Stratum(r)
    BY <1>1 DEF Stratum
  <1>5. \A r : Cluster(r)' = Cluster(r) /\ (Held(r)' <=> Held(r))
    BY <1>1 DEF Cluster, Held
  <1>6. \A q, r : (Ahead(q, r)' <=> Ahead(q, r)) /\ (Better(q, r)' <=> Better(q, r))
    BY <1>1 DEF Ahead, Better
  <1> QED BY <1>1, <1>2, <1>3, <1>4, <1>5, <1>6

\* So a row fits the rows taken after a step as the input says before it.
LEMMA FrozenFits ==
    ASSUME [Next]_vars
    PROVE  /\ \A q : Mates(q, Taken)' = Mates(q, Taken') /\ Kin(q, Taken)' = Kin(q, Taken')
           /\ \A q : AheadOf(q, Mates(q, Taken))' = AheadOf(q, Mates(q, Taken'))
           /\ \A q : AheadOf(q, Kin(q, Taken))' = AheadOf(q, Kin(q, Taken'))
           /\ \A q : Fits(q, Taken, input.cap)' <=> Fits(q, Taken', input.cap)
           /\ \A c : {q \in Taken : Cluster(q) = c}' = {q \in Taken' : Cluster(q) = c}
           /\ \A s : {q \in Taken : Stratum(q) = s}' = {q \in Taken' : Stratum(q) = s}
           /\ \A s : {k \in DOMAIN selected : Stratum(selected[k]) = s}'
                        = {k \in DOMAIN selected' : Stratum(selected'[k]) = s}
  <1>1. \A q : Mates(q, Taken)' = Mates(q, Taken') /\ Kin(q, Taken)' = Kin(q, Taken')
    BY Frozen DEF Mates, Kin
  <1>2. ASSUME NEW q PROVE AheadOf(q, Mates(q, Taken))' = AheadOf(q, Mates(q, Taken'))
    <2>1. AheadOf(q, Mates(q, Taken))' = {p \in Mates(q, Taken)' : Ahead(p, q)'}
      BY DEF AheadOf
    <2> QED BY <1>1, <2>1, Frozen DEF AheadOf
  <1>3. ASSUME NEW q PROVE AheadOf(q, Kin(q, Taken))' = AheadOf(q, Kin(q, Taken'))
    <2>1. AheadOf(q, Kin(q, Taken))' = {p \in Kin(q, Taken)' : Ahead(p, q)'}
      BY DEF AheadOf
    <2> QED BY <1>1, <2>1, Frozen DEF AheadOf
  <1>4. ASSUME NEW q PROVE AheadOf(q, Taken)' = AheadOf(q, Taken')
    BY Frozen DEF AheadOf
  <1>5. ASSUME NEW q PROVE Fits(q, Taken, input.cap)' <=> Fits(q, Taken', input.cap)
    <2>1. Fits(q, Taken, input.cap)' <=>
            /\ ~Held(q)'
            /\ Cardinality(AheadOf(q, Mates(q, Taken))') < input'.perCluster
            /\ Cardinality(AheadOf(q, Kin(q, Taken))') < input'.quota[Stratum(q)']
            /\ Cardinality(AheadOf(q, Taken)') < input'.cap
      BY DEF Fits
    <2> QED BY <1>2, <1>3, <1>4, <2>1, Frozen DEF Fits
  <1>6. \A c : {q \in Taken : Cluster(q) = c}' = {q \in Taken' : Cluster(q) = c}
    BY Frozen
  <1>7. \A s : {q \in Taken : Stratum(q) = s}' = {q \in Taken' : Stratum(q) = s}
    BY Frozen
  <1>8. ASSUME NEW s
        PROVE  {k \in DOMAIN selected : Stratum(selected[k]) = s}'
                 = {k \in DOMAIN selected' : Stratum(selected'[k]) = s}
    BY Frozen DEF Stratum
  <1> QED BY <1>1, <1>2, <1>3, <1>5, <1>6, <1>7, <1>8

\* Nor do the counts of the input.
LEMMA FrozenCounts ==
    ASSUME [Next]_vars,
           Len(selected') = Cardinality(Taken'),
           \A c \in Caps : dropped'[c] = Cardinality({q \in Rows : blamed'[q] = c}),
           \A c \in Clusters : perCluster'[c] = Cardinality({q \in Taken' : Cluster(q) = c}),
           \A s \in Strata :
              /\ filled'[s] = Cardinality({q \in Taken' : Stratum(q) = s})
              /\ filled'[s] = Cardinality({k \in DOMAIN selected' : Stratum(selected'[k]) = s})
    PROVE  Counts'
  <1>1. \A c \in Caps : dropped'[c] = Cardinality({q \in Rows' : blamed'[q] = c})
    BY Frozen
  <1>2. \A c \in Clusters : perCluster'[c] = Cardinality({q \in Taken : Cluster(q) = c}')
    BY FrozenFits
  <1>3. \A s \in Strata :
          /\ filled'[s] = Cardinality({q \in Taken : Stratum(q) = s}')
          /\ filled'[s] = Cardinality({k \in DOMAIN selected : Stratum(selected[k]) = s}')
    BY FrozenFits
  <1> QED BY <1>1, <1>2, <1>3 DEF Counts

----------------------------------------------------------------------------
(***************************************************************************)
(* A row is dropped.                                                       *)
(***************************************************************************)
\* Why the loop drops row r: the first cap, in the order of the code, it meets.
Reason(r, why) ==
    \/ why = "already_in_goldens" /\ Held(r)
    \/ why = "cluster_cap" /\ ~Held(r) /\ ClusterFull(r)
    \/ why = Stratum(r) /\ ~Held(r) /\ ~ClusterFull(r) /\ StratumFull(r)
    \/ why = "max_candidates" /\ ~Held(r) /\ ~ClusterFull(r) /\ ~StratumFull(r) /\ ListFull

Drops(r, why) == At(r) /\ Reason(r, why) /\ Drop(r, why)

\* BlameIsFirst of one row, for the rows T taken, n of them.
BlameStands(r, why, T, n) ==
    LET mates == Cardinality(AheadOf(r, Mates(r, T))) = input.perCluster
        kin == Cardinality(AheadOf(r, Kin(r, T))) = input.quota[Stratum(r)]
    IN  \/ why = "already_in_goldens" /\ Held(r)
        \/ why = "cluster_cap" /\ ~Held(r) /\ mates
        \/ why = Stratum(r) /\ ~Held(r) /\ ~mates /\ kin
        \/ why = "max_candidates" /\ ~Held(r) /\ ~mates /\ ~kin /\ n = input.cap

\* A blame says what stands in the way.
LEMMA BlameIsStands ==
    ASSUME TypeOK, BlameIsFirst, NEW r \in Rows, blamed[r] # NotYet
    PROVE  BlameStands(r, blamed[r], Taken, Len(selected))
  <1> DEFINE mates == Cardinality(AheadOf(r, Mates(r, Taken))) = input.perCluster
             kin == Cardinality(AheadOf(r, Kin(r, Taken))) = input.quota[Stratum(r)]
  <1>1. /\ blamed[r] \in Strata \cup {"already_in_goldens", "cluster_cap", "max_candidates"}
        /\ Strata \cap {"already_in_goldens", "cluster_cap", "max_candidates"} = {}
    BY CapsAssumption DEF TypeOK, Caps
  <1>2. (CASE blamed[r] = "already_in_goldens" -> Held(r)
           [] blamed[r] = "cluster_cap" -> ~Held(r) /\ mates
           [] blamed[r] \in Strata ->
                 ~Held(r) /\ ~mates /\ kin /\ blamed[r] = Stratum(r)
           [] blamed[r] = "max_candidates" ->
                 ~Held(r) /\ ~mates /\ ~kin /\ Len(selected) = input.cap)
    BY DEF BlameIsFirst
  <1>3. /\ blamed[r] = "already_in_goldens" => Held(r)
        /\ blamed[r] = "cluster_cap" => ~Held(r) /\ mates
        /\ blamed[r] \in Strata =>
              ~Held(r) /\ ~mates /\ kin /\ blamed[r] = Stratum(r)
        /\ blamed[r] = "max_candidates" =>
              ~Held(r) /\ ~mates /\ ~kin /\ Len(selected) = input.cap
    <2> HIDE DEF mates, kin
    <2> QED BY <1>1, <1>2
  <1> HIDE DEF mates, kin
  <1>4. \/ blamed[r] = "already_in_goldens" /\ Held(r)
        \/ blamed[r] = "cluster_cap" /\ ~Held(r) /\ mates
        \/ blamed[r] = Stratum(r) /\ ~Held(r) /\ ~mates /\ kin
        \/ blamed[r] = "max_candidates" /\ ~Held(r) /\ ~mates /\ ~kin /\ Len(selected) = input.cap
    BY <1>1, <1>3
  <1> QED BY <1>4 DEF BlameStands, mates, kin

\* What stands in the way is the blame.
LEMMA StandsIsBlame ==
    ASSUME [Next]_vars, TypeOK,
           \A r \in Rows : blamed'[r] # NotYet =>
               BlameStands(r, blamed'[r], Taken', Len(selected'))
    PROVE  BlameIsFirst'
  <1> DEFINE mates1(r) == Cardinality(AheadOf(r, Mates(r, Taken))') = input'.perCluster
             kin1(r) == Cardinality(AheadOf(r, Kin(r, Taken))') = input'.quota[Stratum(r)']
  <1> SUFFICES ASSUME NEW r \in Rows, blamed'[r] # NotYet
               PROVE  (CASE blamed'[r] = "already_in_goldens" -> Held(r)'
                         [] blamed'[r] = "cluster_cap" -> ~Held(r)' /\ mates1(r)
                         [] blamed'[r] \in Strata ->
                               ~Held(r)' /\ ~mates1(r) /\ kin1(r) /\ blamed'[r] = Stratum(r)'
                         [] blamed'[r] = "max_candidates" ->
                               ~Held(r)' /\ ~mates1(r) /\ ~kin1(r) /\ Len(selected') = input'.cap)
    BY Frozen DEF BlameIsFirst
  <1> DEFINE mates == Cardinality(AheadOf(r, Mates(r, Taken'))) = input.perCluster
             kin == Cardinality(AheadOf(r, Kin(r, Taken'))) = input.quota[Stratum(r)]
             b == blamed'[r]
  <1>1. \/ b = "already_in_goldens" /\ Held(r)
        \/ b = "cluster_cap" /\ ~Held(r) /\ mates
        \/ b = Stratum(r) /\ ~Held(r) /\ ~mates /\ kin
        \/ b = "max_candidates" /\ ~Held(r) /\ ~mates /\ ~kin /\ Len(selected') = input.cap
    BY DEF BlameStands
  <1>2. Stratum(r) \in Strata
    BY StratumType DEF TypeOK
  <1>3. /\ mates1(r) <=> mates
        /\ kin1(r) <=> kin
        /\ Held(r)' <=> Held(r)
        /\ Stratum(r)' = Stratum(r) /\ input'.cap = input.cap
    BY Frozen, FrozenFits
  <1>4. Strata \cap {"already_in_goldens", "cluster_cap", "max_candidates"} = {}
    BY CapsAssumption
  <1> HIDE DEF mates, kin, mates1, kin1
  <1>5. CASE b = "already_in_goldens" /\ Held(r)
    BY <1>3, <1>4, <1>5
  <1>6. CASE b = "cluster_cap" /\ ~Held(r) /\ mates
    BY <1>3, <1>4, <1>6
  <1>7. CASE b = Stratum(r) /\ ~Held(r) /\ ~mates /\ kin
    BY <1>2, <1>3, <1>4, <1>7
  <1>8. CASE b = "max_candidates" /\ ~Held(r) /\ ~mates /\ ~kin /\ Len(selected') = input.cap
    BY <1>3, <1>4, <1>8
  <1> QED BY <1>1, <1>5, <1>6, <1>7, <1>8

\* A row is dropped for a reason, and the reason is its blame.
LEMMA ReasonStands ==
    ASSUME SelectInv, NEW r \in left, NEW why, Reason(r, why)
    PROVE  BlameStands(r, why, Taken, Len(selected))
  <1> DEFINE mates == Cardinality(AheadOf(r, Mates(r, Taken))) = input.perCluster
             kin == Cardinality(AheadOf(r, Kin(r, Taken))) = input.quota[Stratum(r)]
  <1>1. mates <=> ClusterFull(r)
    BY CountersTellFits DEF SelectInv, CountersCapped, ClusterFull
  <1>2. kin <=> StratumFull(r)
    BY CountersTellFits DEF SelectInv, CountersCapped, StratumFull
  <1>3. Len(selected) = input.cap <=> ListFull
    BY CountersTellFits, TakenRows DEF SelectInv, CountersCapped, ListFull
  <1> HIDE DEF mates, kin
  <1>4. \/ why = "already_in_goldens" /\ Held(r)
        \/ why = "cluster_cap" /\ ~Held(r) /\ mates
        \/ why = Stratum(r) /\ ~Held(r) /\ ~mates /\ kin
        \/ why = "max_candidates" /\ ~Held(r) /\ ~mates /\ ~kin /\ Len(selected) = input.cap
    BY <1>1, <1>2, <1>3 DEF Reason
  <1> QED BY <1>4 DEF BlameStands, mates, kin

\* A visit is a drop for one of the reasons, or a taking.
LEMMA VisitCases ==
    ASSUME SelectInv, NEW r \in left, Visit(r)
    PROVE  Take(r) \/ \E why \in Caps : Drops(r, why)
  <1>1. Stratum(r) \in Caps
    BY CountersTellFits DEF Caps
  <1>2. {"already_in_goldens", "cluster_cap", "max_candidates"} \subseteq Caps
    BY DEF Caps
  <1>3. CASE DropHeld(r)
    BY <1>2, <1>3 DEF DropHeld, Drops, Reason
  <1>4. CASE DropClusterCap(r)
    BY <1>2, <1>4 DEF DropClusterCap, Drops, Reason
  <1>5. CASE DropQuota(r)
    BY <1>1, <1>5 DEF DropQuota, Drops, Reason
  <1>6. CASE DropGlobalCap(r)
    BY <1>2, <1>6 DEF DropGlobalCap, Drops, Reason
  <1> QED BY <1>3, <1>4, <1>5, <1>6 DEF Visit

\* What a drop changes, and what it leaves.
LEMMA DropChanges ==
    ASSUME SelectInv, NEW r \in left, NEW why \in Caps, Drops(r, why)
    PROVE  /\ Taken' = Taken /\ selected' = selected /\ left' = left \ {r} /\ pc' = pc
           /\ (Begun' <=> Begun)
           /\ blamed' = [blamed EXCEPT ![r] = why]
           /\ dropped' = [dropped EXCEPT ![why] = dropped[why] + 1]
           /\ filled' = filled /\ perCluster' = perCluster
           /\ candidates' = candidates /\ report' = report /\ exit' = exit
           /\ pc = "loop" /\ ~report.written
  <1>1. pc = "loop"
    BY DEF Drops, At
  <1>2. ~report.written
    BY <1>1 DEF SelectInv, Files
  <1> QED BY <1>1, <1>2 DEF Drops, Drop, Taken, Begun

\* A drop writes nothing.
LEMMA DropKeepsFiles ==
    ASSUME SelectInv, [Next]_vars, NEW r \in left, NEW why \in Caps, Drops(r, why)
    PROVE  TypeOK' /\ Files'
  <1> USE DEF SelectInv
  <1>1. TypeOK'
    <2>1. r \in Rows
      BY CountersTellFits
    <2>2. dropped' \in [Caps -> Nat]
      BY DropChanges DEF TypeOK
    <2>3. blamed' \in [Rows' -> Caps \cup {NotYet}]
      BY <2>1, DropChanges, Frozen DEF TypeOK
    <2> QED BY <2>2, <2>3, DropChanges, Frozen DEF TypeOK
  <1>2. Files'
    <2>1. report = Untouched /\ ~Refused' /\ exit = -1 /\ candidates = Untouched
      BY CountersTellFits, DropChanges, Frozen DEF Files
    <2> QED BY <2>1, DropChanges DEF Files, Begun, Untouched
  <1> QED BY <1>1, <1>2

\* A dropped row has one home.
LEMMA DropKeepsHomes ==
    ASSUME SelectInv, [Next]_vars, NEW r \in left, NEW why \in Caps, Drops(r, why)
    PROVE  Homes' /\ Counts' /\ CountersCapped'
  <1> USE DEF SelectInv
  <1>1. /\ r \in Rows /\ r \notin Taken /\ Begun /\ blamed[r] = NotYet /\ (\A c \in Caps : c # NotYet)
        /\ blamed \in [Rows -> Caps \cup {NotYet}] /\ dropped \in [Caps -> Nat]
        /\ IsFiniteSet(Rows)
    BY CountersTellFits, CapsAssumption, TakenRows DEF Homes, TypeOK, Caps, NotYet
  <1>2. Homes'
    <2>1. Taken' \cap left' = {}
      BY DropChanges DEF Homes
    <2>2. \A q \in Rows : (q \in left' \cup Taken') <=> (blamed'[q] = NotYet)
      BY <1>1, DropChanges DEF Homes
    <2> QED BY <1>1, <2>1, <2>2, DropChanges, Frozen DEF Homes
  <1>3. ASSUME NEW c \in Caps
        PROVE  dropped'[c] = Cardinality({q \in Rows : blamed'[q] = c})
    <2> DEFINE B == {q \in Rows : blamed[q] = c}
    <2>1. dropped[c] = Cardinality(B) /\ IsFiniteSet(B)
      BY <1>1, FS_Subset DEF Counts
    <2>2. CASE c = why
      <3>1. {q \in Rows : blamed'[q] = c} = B \cup {r} /\ r \notin B
        BY <1>1, <2>2, DropChanges
      <3>2. Cardinality(B \cup {r}) = Cardinality(B) + 1
        BY <2>1, <3>1, CardAdd
      <3>3. dropped'[c] = dropped[c] + 1
        BY <1>1, <2>2, DropChanges
      <3> QED BY <2>1, <3>1, <3>2, <3>3
    <2>3. CASE c # why
      <3>1. {q \in Rows : blamed'[q] = c} = B
        BY <1>1, <2>3, DropChanges
      <3>2. dropped'[c] = dropped[c]
        BY <1>1, <2>3, DropChanges
      <3> QED BY <2>1, <3>1, <3>2
    <2> QED BY <2>2, <2>3
  <1>4. Counts'
    <2>1. Len(selected') = Cardinality(Taken')
      BY DropChanges DEF Counts
    <2>2. \A c \in Clusters : perCluster'[c] = Cardinality({q \in Taken' : Cluster(q) = c})
      BY DropChanges DEF Counts
    <2>3. \A s \in Strata :
            /\ filled'[s] = Cardinality({q \in Taken' : Stratum(q) = s})
            /\ filled'[s] = Cardinality({k \in DOMAIN selected' : Stratum(selected'[k]) = s})
      <3> TAKE s \in Strata
      <3>1. filled'[s] = filled[s] /\ {q \in Taken' : Stratum(q) = s} = {q \in Taken : Stratum(q) = s}
        BY DropChanges
      <3>2. selected' = selected
        BY DropChanges
      <3>3. {k \in DOMAIN selected' : Stratum(selected'[k]) = s}
              = {k \in DOMAIN selected : Stratum(selected[k]) = s}
        BY <3>2, Zenon
      <3> QED BY <3>1, <3>3 DEF Counts
    <2> QED BY <1>3, <2>1, <2>2, <2>3, FrozenCounts
  <1>5. CountersCapped'
    BY DropChanges, Frozen DEF CountersCapped
  <1> QED BY <1>2, <1>4, <1>5

\* A drop leaves the verdicts on the rows passed.
LEMMA DropKeepsVerdicts ==
    ASSUME SelectInv, [Next]_vars, NEW r \in left, NEW why \in Caps, Drops(r, why)
    PROVE  Walked' /\ Verdicts' /\ BlameIsFirst'
  <1> USE DEF SelectInv
  <1>1. Walked'
    <2>1. r \in Rows /\ left \subseteq Rows /\ \A q \in left \ {r} : Better(r, q)
      BY CountersTellFits DEF Drops, At, TypeOK
    <2>2. \A q \in Rows \ (left \ {r}), p \in left \ {r} : Better(q, p)
      BY <2>1 DEF Walked
    <2> QED BY <2>2, DropChanges, Frozen DEF Walked, RanksDescend
  <1>2. Verdicts'
    <2>1. ~Fits(r, Taken, input.cap) /\ r \notin Taken
      BY CountersTellFits DEF Drops, Reason
    <2>2. \A q \in Rows \ (left \ {r}) : q \in Taken <=> Fits(q, Taken, input.cap)
      BY <2>1, CountersTellFits DEF Verdicts
    <2>3. \A q : Fits(q, Taken, input.cap)' <=> Fits(q, Taken, input.cap)
      BY DropChanges, FrozenFits
    <2> QED BY <2>2, <2>3, DropChanges, Frozen DEF Verdicts
  <1>3. BlameIsFirst'
    <2>1. \A q \in Rows : blamed'[q] = IF q = r THEN why ELSE blamed[q]
      BY DropChanges DEF TypeOK
    <2>2. ASSUME NEW q \in Rows, blamed'[q] # NotYet
          PROVE  BlameStands(q, blamed'[q], Taken', Len(selected'))
      <3>1. CASE q # r
        <4>1. blamed[q] # NotYet /\ blamed'[q] = blamed[q]
          BY <2>1, <2>2, <3>1
        <4> QED BY <4>1, DropChanges, BlameIsStands
      <3>2. CASE q = r
        BY <2>1, <3>2, DropChanges, ReasonStands DEF Drops
      <3> QED BY <3>1, <3>2
    <2> QED BY <2>2, StandsIsBlame, Zenon
  <1> QED BY <1>1, <1>2, <1>3

----------------------------------------------------------------------------
(***************************************************************************)
(* A row is taken.                                                         *)
(***************************************************************************)
\* What taking a row changes, and what it leaves.
LEMMA TakeChanges ==
    ASSUME SelectInv, NEW r \in left, Take(r)
    PROVE  /\ selected' = Append(selected, r)
           /\ Len(selected') = Len(selected) + 1
           /\ DOMAIN selected' = DOMAIN selected \cup {Len(selected) + 1}
           /\ Len(selected) + 1 \notin DOMAIN selected
           /\ \A k \in DOMAIN selected : selected'[k] = selected[k]
           /\ selected'[Len(selected) + 1] = r
           /\ Taken' = Taken \cup {r} /\ left' = left \ {r} /\ pc' = pc
           /\ (Begun' <=> Begun)
           /\ filled' = [filled EXCEPT ![Stratum(r)] = filled[Stratum(r)] + 1]
           /\ perCluster' = [perCluster EXCEPT ![Cluster(r)] = perCluster[Cluster(r)] + 1]
           /\ blamed' = blamed /\ dropped' = dropped
           /\ candidates' = candidates /\ report' = report /\ exit' = exit
           /\ pc = "loop" /\ ~report.written
  <1>1. pc = "loop"
    BY DEF Take, At
  <1>2. ~report.written
    BY <1>1 DEF SelectInv, Files
  <1>3. selected \in Seq(Rows) /\ selected' = Append(selected, r)
    BY DEF Take, SelectInv, TypeOK
  <1>4. /\ Len(selected') = Len(selected) + 1
        /\ DOMAIN selected' = DOMAIN selected \cup {Len(selected) + 1}
        /\ Len(selected) + 1 \notin DOMAIN selected
        /\ \A k \in DOMAIN selected : selected'[k] = selected[k]
        /\ selected'[Len(selected) + 1] = r
    BY <1>3
  <1>5. Taken' = Taken \cup {r}
    BY <1>4 DEF Taken
  <1> QED BY <1>1, <1>2, <1>3, <1>4, <1>5 DEF Take, Begun

\* Taking a row writes nothing.
LEMMA TakeKeepsFiles ==
    ASSUME SelectInv, [Next]_vars, NEW r \in left, Take(r)
    PROVE  TypeOK' /\ Files'
  <1> USE DEF SelectInv
  <1>1. TypeOK'
    <2>1. r \in Rows /\ filled[Stratum(r)] \in Nat /\ perCluster[Cluster(r)] \in Nat
      BY CountersTellFits
    <2>2. filled' \in [Strata -> Nat]
      BY <2>1, TakeChanges DEF TypeOK
    <2>3. perCluster' \in [Clusters -> Nat]
      BY <2>1, TakeChanges DEF TypeOK
    <2>4. selected' \in Seq(Rows)
      BY <2>1, TakeChanges DEF TypeOK
    <2> QED BY <2>2, <2>3, <2>4, TakeChanges, Frozen DEF TypeOK
  <1>2. Files'
    <2>1. report = Untouched /\ ~Refused' /\ exit = -1 /\ candidates = Untouched
      BY CountersTellFits, TakeChanges, Frozen DEF Files
    <2> QED BY <2>1, TakeChanges DEF Files, Begun, Untouched
  <1> QED BY <1>1, <1>2

\* One row more in a part of a finite set, or not.
LEMMA PartGrows ==
    ASSUME NEW S, IsFiniteSet(S), NEW x, x \notin S, NEW P
    PROVE  Cardinality({y \in S \cup {x} : y \in P}) =
             IF x \in P THEN Cardinality({y \in S : y \in P}) + 1
                        ELSE Cardinality({y \in S : y \in P})
  <1> DEFINE A == {y \in S : y \in P}
  <1>1. IsFiniteSet(A)
    BY FS_Subset
  <1>2. {y \in S \cup {x} : y \in P} = IF x \in P THEN A \cup {x} ELSE A
    OBVIOUS
  <1>3. x \notin A
    OBVIOUS
  <1>4. Cardinality(A \cup {x}) = Cardinality(A) + 1
    <2> HIDE DEF A
    <2> QED BY <1>1, <1>3, CardAdd
  <1> QED BY <1>2, <1>4

\* The counters count the row taken.
LEMMA TakeKeepsCounts ==
    ASSUME SelectInv, [Next]_vars, NEW r \in left, Take(r)
    PROVE  Counts'
  <1> USE DEF SelectInv
  <1>1. /\ r \in Rows /\ r \notin Taken /\ IsFiniteSet(Taken)
        /\ Stratum(r) \in Strata /\ Cluster(r) \in Clusters
        /\ filled \in [Strata -> Nat] /\ perCluster \in [Clusters -> Nat]
    BY CountersTellFits, TakenRows DEF TypeOK
  <1>2. Len(selected') = Cardinality(Taken')
    <2>1. Cardinality(Taken \cup {r}) = Cardinality(Taken) + 1
      BY <1>1, CardAdd
    <2> QED BY <2>1, TakeChanges DEF Counts
  <1>3. \A c \in Caps : dropped'[c] = Cardinality({q \in Rows : blamed'[q] = c})
    <2>1. blamed' = blamed /\ dropped' = dropped
      BY TakeChanges
    <2>2. \A c \in Caps : dropped[c] = Cardinality({q \in Rows : blamed[q] = c})
      BY DEF Counts
    <2> QED BY <2>1, <2>2, Zenon
  <1>4. ASSUME NEW c \in Clusters
        PROVE  perCluster'[c] = Cardinality({q \in Taken' : Cluster(q) = c})
    <2> DEFINE P == {q \in Rows : Cluster(q) = c}
               A == {q \in Taken : Cluster(q) = c}
    <2>1. {q \in Taken' : Cluster(q) = c} = {q \in Taken \cup {r} : q \in P}
      BY <1>1, TakeChanges, TakenRows
    <2>2. {q \in Taken : Cluster(q) = c} = {q \in Taken : q \in P}
      BY TakenRows
    <2>3. r \in P <=> Cluster(r) = c
      BY <1>1
    <2>4. perCluster'[c] = IF Cluster(r) = c THEN perCluster[c] + 1 ELSE perCluster[c]
      BY <1>1, TakeChanges
    <2>5. perCluster[c] = Cardinality({q \in Taken : q \in P})
      BY <2>2 DEF Counts
    <2> HIDE DEF P
    <2> QED BY <1>1, <2>1, <2>3, <2>4, <2>5, PartGrows
  <1>5. ASSUME NEW s \in Strata
        PROVE  filled'[s] = Cardinality({q \in Taken' : Stratum(q) = s})
    <2> DEFINE P == {q \in Rows : Stratum(q) = s}
    <2>1. {q \in Taken' : Stratum(q) = s} = {q \in Taken \cup {r} : q \in P}
      BY <1>1, TakeChanges, TakenRows
    <2>2. {q \in Taken : Stratum(q) = s} = {q \in Taken : q \in P}
      BY TakenRows
    <2>3. r \in P <=> Stratum(r) = s
      BY <1>1
    <2>4. filled'[s] = IF Stratum(r) = s THEN filled[s] + 1 ELSE filled[s]
      BY <1>1, TakeChanges
    <2>5. filled[s] = Cardinality({q \in Taken : q \in P})
      BY <2>2 DEF Counts
    <2> HIDE DEF P
    <2> QED BY <1>1, <2>1, <2>3, <2>4, <2>5, PartGrows
  <1>6. ASSUME NEW s \in Strata
        PROVE  filled'[s] = Cardinality({k \in DOMAIN selected' : Stratum(selected'[k]) = s})
    <2> DEFINE n == Len(selected) + 1
               P == {k \in DOMAIN selected' : Stratum(selected'[k]) = s}
    <2>1. P = {k \in DOMAIN selected \cup {n} : k \in P}
      BY TakeChanges
    <2>2. {k \in DOMAIN selected : Stratum(selected[k]) = s} = {k \in DOMAIN selected : k \in P}
      BY TakeChanges
    <2>3. n \in P <=> Stratum(r) = s
      BY TakeChanges
    <2>4. filled'[s] = IF Stratum(r) = s THEN filled[s] + 1 ELSE filled[s]
      BY <1>1, TakeChanges
    <2>5. filled[s] = Cardinality({k \in DOMAIN selected : k \in P})
      BY <2>2 DEF Counts
    <2>6. IsFiniteSet(DOMAIN selected) /\ n \notin DOMAIN selected
      BY TakenRows, TakeChanges, FS_Interval
    <2> HIDE DEF P, n
    <2>7. Cardinality({k \in DOMAIN selected \cup {n} : k \in P}) = filled'[s]
      BY <2>3, <2>4, <2>5, <2>6, PartGrows
    <2>8. Cardinality(P) = filled'[s]
      BY <2>1, <2>7
    <2> QED BY <2>8 DEF P
  <1> QED BY <1>2, <1>3, <1>4, <1>5, <1>6, FrozenCounts

\* A row taken has one home.
LEMMA TakeKeepsHomes ==
    ASSUME SelectInv, [Next]_vars, NEW r \in left, Take(r)
    PROVE  Homes' /\ CountersCapped' /\ Walked'
  <1> USE DEF SelectInv
  <1>1. r \in Rows /\ r \notin Taken /\ Begun /\ left \subseteq Rows
    BY CountersTellFits DEF TypeOK
  <1>2. Homes'
    BY <1>1, TakeChanges, Frozen DEF Homes
  <1>3. CountersCapped'
    <2>1. ~ClusterFull(r) /\ ~StratumFull(r) /\ ~ListFull
      BY DEF Take
    <2>2. Len(selected) + 1 <= input.cap
      BY <2>1, CountersTellFits, TakenRows DEF ListFull
    <2>3. ASSUME NEW s \in Strata PROVE filled'[s] <= input.quota[s]
      <3>1. CASE s = Stratum(r)
        BY <2>1, <3>1, CountersTellFits, TakeChanges DEF StratumFull, TypeOK
      <3>2. CASE s # Stratum(r)
        BY <3>2, CountersTellFits, TakeChanges DEF CountersCapped, TypeOK
      <3> QED BY <3>1, <3>2
    <2>4. ASSUME NEW c \in Clusters PROVE perCluster'[c] <= input.perCluster
      <3>1. CASE c = Cluster(r)
        BY <2>1, <3>1, CountersTellFits, TakeChanges DEF ClusterFull, TypeOK
      <3>2. CASE c # Cluster(r)
        BY <3>2, CountersTellFits, TakeChanges DEF CountersCapped, TypeOK
      <3> QED BY <3>1, <3>2
    <2> QED BY <2>2, <2>3, <2>4, TakeChanges, Frozen DEF CountersCapped
  <1>4. Walked'
    <2>1. \A q \in left \ {r} : Better(r, q)
      BY DEF Take, At
    <2>2. \A q \in Rows \ (left \ {r}), p \in left \ {r} : Better(q, p)
      BY <1>1, <2>1 DEF Walked
    <2>3. ASSUME NEW k \in DOMAIN selected', NEW m \in DOMAIN selected', k < m
          PROVE  Ahead(selected'[k], selected'[m])
      <3>1. k \in DOMAIN selected
        BY <2>3, TakenRows, TakeChanges
      <3>2. CASE m \in DOMAIN selected
        BY <2>3, <3>1, <3>2, TakeChanges DEF Walked, RanksDescend
      <3>3. CASE m = Len(selected) + 1
        <4>1. selected[k] \in Taken /\ selected[k] \in Rows \ left
          BY <3>1, TakenRows DEF Homes
        <4>2. Ahead(selected[k], r)
          BY <1>1, <4>1, TakenRows, BetterIsAnOrder DEF Walked
        <4> QED BY <3>1, <3>3, <4>2, TakeChanges
      <3> QED BY <3>2, <3>3, TakeChanges
    <2> QED BY <2>2, <2>3, TakeChanges, Frozen DEF Walked, RanksDescend
  <1> QED BY <1>2, <1>3, <1>4

\* Taking a row leaves the verdicts on the rows passed.
LEMMA TakeKeepsVerdicts ==
    ASSUME SelectInv, [Next]_vars, NEW r \in left, Take(r)
    PROVE  Verdicts' /\ BlameIsFirst'
  <1> USE DEF SelectInv
  <1>1. /\ r \in Rows /\ r \notin Taken /\ Begun /\ left \subseteq Rows
        /\ input \in Input /\ Taken' = Taken \cup {r}
    BY CountersTellFits, TakeChanges DEF TypeOK
  <1>2. ASSUME NEW q \in Rows, q \notin left \ {r}
        PROVE  \A p : Ahead(p, q) => (p \in Taken' <=> p \in Taken)
    <2>1. ~Ahead(r, q)
      <3>1. q = r \/ Better(q, r)
        BY <1>1, <1>2 DEF Walked
      <3> QED BY <1>1, <3>1, BetterIsAnOrder
    <2> QED BY <1>1, <2>1
  <1>3. ASSUME NEW q \in Rows, q \notin left \ {r}
        PROVE  /\ AheadOf(q, Mates(q, Taken')) = AheadOf(q, Mates(q, Taken))
               /\ AheadOf(q, Kin(q, Taken')) = AheadOf(q, Kin(q, Taken))
               /\ Fits(q, Taken', input.cap) <=> Fits(q, Taken, input.cap)
    BY <1>2, <1>3, FitsByTheRowsAhead
  <1>4. Verdicts'
    <2>1. Fits(r, Taken, input.cap)
      BY CountersTellFits DEF Take
    <2>2. \A q \in Rows \ (left \ {r}) : q \in Taken' <=> Fits(q, Taken', input.cap)
      BY <1>1, <1>3, <2>1 DEF Verdicts
    <2> QED BY <2>2, TakeChanges, Frozen, FrozenFits DEF Verdicts
  <1>5. BlameIsFirst'
    <2>1. ASSUME NEW q \in Rows, blamed'[q] # NotYet
          PROVE  BlameStands(q, blamed'[q], Taken', Len(selected'))
      <3>1. blamed'[q] = blamed[q] /\ q \notin left
        BY <1>1, <2>1, TakeChanges DEF Homes
      <3>2. BlameStands(q, blamed[q], Taken, Len(selected))
        BY <2>1, <3>1, BlameIsStands
      <3>3. Len(selected) # input.cap
        BY CountersTellFits, TakenRows DEF Take, ListFull
      <3> QED BY <1>3, <3>1, <3>2, <3>3 DEF BlameStands
    <2> QED BY <2>1, StandsIsBlame, Zenon
  <1> QED BY <1>4, <1>5

----------------------------------------------------------------------------
(***************************************************************************)
(* The other steps, and the invariant.                                     *)
(***************************************************************************)
\* A step that visits no row.
Quiet == Refuse \/ Join \/ WriteCandidates \/ WriteReport \/ UNCHANGED vars

\* What the steps outside the walk change.
LEMMA QuietChanges ==
    ASSUME SelectInv, Quiet
    PROVE  /\ Taken' = Taken /\ selected' = selected /\ blamed' = blamed
           /\ dropped' = dropped /\ filled' = filled /\ perCluster' = perCluster
           /\ \/ pc = "start" /\ left = {} /\ ~Begun /\ Taken = {} /\ selected = << >>
              \/ left' = left /\ (Begun' <=> Begun)
  <1>1. /\ selected' = selected /\ blamed' = blamed
        /\ dropped' = dropped /\ filled' = filled /\ perCluster' = perCluster
    BY DEF Quiet, Refuse, Join, WriteCandidates, WriteReport, vars
  <1>2. Taken' = Taken
    BY <1>1 DEF Taken
  <1>3. pc = "start" => left = {} /\ ~Begun /\ Taken = {} /\ selected = << >>
    BY DEF SelectInv, Homes, Files, Begun, Taken
  <1>4. CASE Refuse \/ Join
    BY <1>1, <1>2, <1>3, <1>4 DEF Refuse, Join
  <1>5. CASE WriteCandidates \/ WriteReport \/ UNCHANGED vars
    BY <1>1, <1>2, <1>5 DEF WriteCandidates, WriteReport, vars, Begun
  <1> QED BY <1>1, <1>2, <1>4, <1>5 DEF Quiet

\* The files are those of the walk.
LEMMA QuietKeepsFiles ==
    ASSUME SelectInv, [Next]_vars, Quiet
    PROVE  TypeOK' /\ Files'
  <1> USE DEF SelectInv
  <1>1. candidates.written \in BOOLEAN /\ report.written \in BOOLEAN
    <2>1. report.written \in BOOLEAN
      <3>1. CASE report = Untouched
        BY <3>1 DEF Untouched
      <3>2. CASE report = [ written |-> TRUE, considered |-> Len(input.rows),
                            selected |-> Len(selected), dropped |-> dropped, filled |-> filled ]
        <4>1. report.written = TRUE
          BY <3>2, Zenon
        <4> QED BY <4>1
      <3> QED BY <3>1, <3>2 DEF Files
    <2>2. CASE pc = "report" \/ report.written
      BY <2>1, <2>2 DEF Files
    <2>3. CASE ~(pc = "report" \/ report.written)
      BY <2>1, <2>3 DEF Files, Untouched
    <2> QED BY <2>1, <2>2, <2>3
  <1>2. Files'
    <2>1. CASE Refuse
      BY <2>1, Frozen DEF Refuse, Files, Begun, Untouched
    <2>2. CASE Join
      BY <2>2, Frozen DEF Join, Files, Begun, Untouched
    <2>3. CASE WriteCandidates
      BY <2>3, Frozen DEF WriteCandidates, Files, Begun, Untouched
    <2>4. CASE WriteReport
      BY <2>4, Frozen DEF WriteReport, Files, Begun, Untouched, ExitCode
    <2>5. CASE UNCHANGED vars
      BY <2>5, Frozen DEF vars, Files, Begun, Untouched, ExitCode
    <2> QED BY <2>1, <2>2, <2>3, <2>4, <2>5 DEF Quiet
  <1>3. TypeOK'
    <2>1. pc' \in {"start", "loop", "report", "ended"} /\ left' \subseteq Rows
      BY DEF Quiet, Refuse, Join, WriteCandidates, WriteReport, vars, TypeOK
    <2>2. exit' \in IF candidates'.written THEN {-1, 0, 1, 2} ELSE {-1, 3}
      BY DEF Quiet, Refuse, Join, WriteCandidates, WriteReport, vars, TypeOK, Files,
          Untouched, ExitCode, Begun
    <2> QED BY <2>1, <2>2, QuietChanges, Frozen DEF TypeOK
  <1> QED BY <1>2, <1>3

\* No row changes its home.
LEMMA QuietKeepsHomes ==
    ASSUME SelectInv, [Next]_vars, Quiet
    PROVE  Homes' /\ Counts' /\ CountersCapped' /\ Walked' /\ Verdicts'
  <1> USE DEF SelectInv
  <1>1. left' \subseteq Rows /\ (Begun' => (left' = Rows \/ (Begun /\ left' = left)))
    BY DEF Quiet, Refuse, Join, WriteCandidates, WriteReport, vars, TypeOK, Begun, Files, Untouched
  <1>2. Homes'
    BY QuietChanges, Frozen DEF Homes, Quiet, Refuse, Join, WriteCandidates, WriteReport,
        vars, Begun, Files, Untouched, Taken
  <1>3. Counts'
    BY QuietChanges, FrozenCounts DEF Counts
  <1>4. CountersCapped'
    BY QuietChanges, Frozen DEF CountersCapped
  <1>5. Walked'
    BY <1>1, QuietChanges, Frozen DEF Walked, RanksDescend, Quiet, Refuse, Join, WriteCandidates,
        WriteReport, vars
  <1>6. Verdicts'
    BY <1>1, QuietChanges, Frozen, FrozenFits DEF Verdicts
  <1> QED BY <1>2, <1>3, <1>4, <1>5, <1>6

\* Nor its blame.
LEMMA QuietKeepsBlame ==
    ASSUME SelectInv, [Next]_vars, Quiet
    PROVE  BlameIsFirst'
  <1> USE DEF SelectInv
  <1>1. ASSUME NEW q \in Rows, blamed'[q] # NotYet
        PROVE  BlameStands(q, blamed'[q], Taken', Len(selected'))
    BY <1>1, QuietChanges, BlameIsStands
  <1> QED BY <1>1, StandsIsBlame, Zenon

\* Every step keeps the invariant.
LEMMA SelectInvStep ==
    ASSUME SelectInv, [Next]_vars
    PROVE  SelectInv'
  <1>1. CASE Quiet
    BY <1>1, QuietKeepsFiles, QuietKeepsHomes, QuietKeepsBlame DEF SelectInv
  <1>2. ASSUME NEW r \in left, Visit(r) PROVE SelectInv'
    <2>1. CASE Take(r)
      BY <2>1, TakeKeepsFiles, TakeKeepsCounts, TakeKeepsHomes, TakeKeepsVerdicts DEF SelectInv
    <2>2. ASSUME NEW why \in Caps, Drops(r, why) PROVE SelectInv'
      BY <2>2, DropKeepsFiles, DropKeepsHomes, DropKeepsVerdicts DEF SelectInv
    <2> QED BY <1>2, <2>1, <2>2, VisitCases
  <1> QED BY <1>1, <1>2 DEF Next, Quiet, Ended

\* Nothing is taken or dropped.
LEMMA SelectInvInit ==
    ASSUME Init
    PROVE  SelectInv
  <1>1. /\ input \in Input /\ pc = "start" /\ left = {} /\ selected = << >> /\ Taken = {}
        /\ exit = -1 /\ candidates = Untouched /\ report = Untouched /\ ~Begun
        /\ blamed = [r \in Rows |-> NotYet]
    BY InputsAssumption DEF Init, Begun, Untouched, Taken
  <1>2. TypeOK
    BY <1>1 DEF Init, TypeOK, Untouched
  <1>3. Files
    BY <1>1 DEF Files, Untouched
  <1>4. Homes
    BY <1>1 DEF Homes
  <1>5. Counts
    <2>1. \A c \in Caps : c # NotYet
      BY CapsAssumption DEF Caps, NotYet
    <2>2. \A c \in Caps : {r \in Rows : blamed[r] = c} = {}
      BY <1>1, <2>1
    <2>3. \A c : {r \in Taken : Cluster(r) = c} = {}
      BY <1>1
    <2>4. \A s : {r \in Taken : Stratum(r) = s} = {}
      BY <1>1
    <2>5. \A s : {k \in DOMAIN selected : Stratum(selected[k]) = s} = {}
      BY <1>1
    <2>6. Cardinality({}) = 0 /\ Len(selected) = 0
      BY <1>1, FS_EmptySet
    <2>7. \A c \in Caps : dropped[c] = Cardinality({r \in Rows : blamed[r] = c})
      BY <2>2, <2>6 DEF Init
    <2>8. \A c \in Clusters : perCluster[c] = Cardinality({r \in Taken : Cluster(r) = c})
      BY <2>3, <2>6 DEF Init
    <2>9. \A s \in Strata :
            /\ filled[s] = Cardinality({r \in Taken : Stratum(r) = s})
            /\ filled[s] = Cardinality({k \in DOMAIN selected : Stratum(selected[k]) = s})
      BY <2>4, <2>5, <2>6 DEF Init
    <2> QED BY <1>1, <2>6, <2>7, <2>8, <2>9 DEF Counts
  <1>6. CountersCapped
    BY <1>1, InputTypes DEF Init, CountersCapped
  <1>7. Walked /\ Verdicts
    BY <1>1 DEF Walked, RanksDescend, Verdicts
  <1>8. BlameIsFirst
    BY <1>1 DEF BlameIsFirst
  <1> QED BY <1>2, <1>3, <1>4, <1>5, <1>6, <1>7, <1>8 DEF SelectInv

\* SelectInv holds in every state of the run, for any rows and settings.
THEOREM SelectInvAlways == Spec => []SelectInv
  <1>1. Init => SelectInv
    BY SelectInvInit
  <1>2. SelectInv /\ [Next]_vars => SelectInv'
    BY SelectInvStep
  <1> QED BY <1>1, <1>2, PTL DEF Spec

----------------------------------------------------------------------------
(***************************************************************************)
(* What follows from it.                                                   *)
(***************************************************************************)
\* The state of a run of the stage has the types the module gives it.
THEOREM SelectTypeCorrect == Spec => []TypeOK
  <1>1. SelectInv => TypeOK
    BY DEF SelectInv
  <1> QED BY <1>1, SelectInvAlways, PTL

\* Considered = selected + dropped: every row the loop has passed is in the
\* shortlist or under exactly one cap, and the counts are those of the rows.
THEOREM EveryRowHasOneHome == Spec => []EveryRowOneHome
  <1>1. SelectInv => EveryRowOneHome
    BY DEF SelectInv, EveryRowOneHome, Homes, Counts, Begun
  <1> QED BY <1>1, SelectInvAlways, PTL

\* The caps hold of the rows taken.
LEMMA CapsHoldOfRows ==
    ASSUME SelectInv
    PROVE  CapsRespected
  <1> USE DEF SelectInv
  <1>1. Len(selected) <= input.cap
    BY DEF CountersCapped
  <1>2. ASSUME NEW r \in Taken
        PROVE  /\ Cardinality(Mates(r, Taken)) <= input.perCluster
               /\ Cardinality(Kin(r, Taken)) <= input.quota[Stratum(r)]
    <2>1. r \in Rows /\ input \in Input
      BY TakenRows
    <2>2. Begun
      BY <1>2 DEF Homes, Taken
    <2>3. Cluster(r) \in Clusters /\ Stratum(r) \in Strata
      BY <2>1, <2>2, JoinedHaveClusters, StratumType DEF Files
    <2>4. /\ Mates(r, Taken) = {q \in Taken : Cluster(q) = Cluster(r)}
          /\ Kin(r, Taken) = {q \in Taken : Stratum(q) = Stratum(r)}
      BY DEF Mates, Kin
    <2> QED BY <2>3, <2>4 DEF Counts, CountersCapped
  <1> QED BY <1>1, <1>2 DEF CapsRespected

\* The shortlist is a function of the window: at every moment the rows taken are
\* those of the rows passed that fit, within the caps and in rank order.
THEOREM ShortlistIsGreedy == Spec => []GreedyShortlist
  <1>1. SelectInv => GreedyShortlist
    BY CapsHoldOfRows DEF SelectInv, GreedyShortlist, Verdicts, Walked, Begun
  <1> QED BY <1>1, SelectInvAlways, PTL

\* Each row is blamed on the first cap the rows ahead of it had filled.
THEOREM BlameIsAlwaysFirst == Spec => []BlameIsFirst
  <1>1. SelectInv => BlameIsFirst
    BY DEF SelectInv
  <1> QED BY <1>1, SelectInvAlways, PTL

----------------------------------------------------------------------------
(***************************************************************************)
(* The exit code.                                                          *)
(***************************************************************************)
\* When the report is written the rows taken are the shortlist of the window.
LEMMA TakenIsTheShortlist ==
    ASSUME SelectInv, report.written
    PROVE  /\ ShortlistOf(Taken, Rows, input.cap)
           /\ Taken = Shortlist(input.cap)
           /\ \A r \in Rows : r \notin Taken => BlameStands(r, blamed[r], Taken, Len(selected))
           /\ \A r \in Rows : r \notin Taken => blamed[r] \in Caps
  <1> USE DEF SelectInv
  <1>1. left = {} /\ Begun /\ Taken \in SUBSET Rows /\ input \in Input
    BY TakenRows DEF Files, Begun
  <1>2. ShortlistOf(Taken, Rows, input.cap)
    BY <1>1 DEF ShortlistOf, Verdicts
  <1>3. ASSUME NEW r \in Rows, r \notin Taken
        PROVE  blamed[r] # NotYet /\ blamed[r] \in Caps
    BY <1>1, <1>3 DEF Homes, TypeOK
  <1> QED BY <1>1, <1>2, <1>3, ShortlistIsTheOne, BlameIsStands

\* No set of rows ahead of another is larger than what the caps leave of it.
LEMMA AheadIsCapped ==
    ASSUME SelectInv, Begun, NEW r \in Rows
    PROVE  /\ Cardinality(AheadOf(r, Taken)) \in Nat
           /\ Cardinality(AheadOf(r, Taken)) <= Cardinality(Rows)
           /\ Cardinality(Rows) \in Nat
           /\ Cardinality(AheadOf(r, Mates(r, Taken))) \in Nat
           /\ Cardinality(AheadOf(r, Mates(r, Taken))) <= input.perCluster
           /\ Cardinality(AheadOf(r, Kin(r, Taken))) \in Nat
           /\ Cardinality(AheadOf(r, Kin(r, Taken))) <= input.quota[Stratum(r)]
           /\ input.perCluster \in Nat \ {0} /\ input.quota[Stratum(r)] \in Nat
           /\ input.cap \in Nat \ {0}
  <1> USE DEF SelectInv
  <1>1. Taken \in SUBSET Rows /\ IsFiniteSet(Taken) /\ input \in Input /\ IsFiniteSet(Rows)
    BY TakenRows
  <1>2. Cluster(r) \in Clusters /\ Stratum(r) \in Strata
    BY <1>1, JoinedHaveClusters, StratumType DEF Files
  <1>3. /\ IsFiniteSet(Mates(r, Taken)) /\ IsFiniteSet(Kin(r, Taken))
    BY <1>1, FS_Subset DEF Mates, Kin
  <1>4. /\ Cardinality(Mates(r, Taken)) = perCluster[Cluster(r)]
        /\ Cardinality(Kin(r, Taken)) = filled[Stratum(r)]
    BY <1>2 DEF Counts, Mates, Kin
  <1>5. /\ Cardinality(Mates(r, Taken)) <= input.perCluster
        /\ Cardinality(Kin(r, Taken)) <= input.quota[Stratum(r)]
    BY <1>2, <1>4 DEF CountersCapped
  <1>6. /\ input.perCluster \in Nat \ {0} /\ input.quota[Stratum(r)] \in Nat
        /\ input.cap \in Nat \ {0}
    BY <1>1, <1>2, InputTypes
  <1>7. \A S : IsFiniteSet(S) => /\ Cardinality(AheadOf(r, S)) \in Nat
                                /\ Cardinality(S) \in Nat
                                /\ Cardinality(AheadOf(r, S)) <= Cardinality(S)
    <2> TAKE S
    <2> HAVE IsFiniteSet(S)
    <2>1. AheadOf(r, S) \in SUBSET S
      BY DEF AheadOf
    <2> QED BY <2>1, FS_Subset, FS_CardinalityType
  <1>8. Cardinality(Taken) <= Cardinality(Rows) /\ Cardinality(Rows) \in Nat
    BY <1>1, FS_Subset, FS_CardinalityType
  <1>9. /\ Cardinality(AheadOf(r, Taken)) \in Nat /\ Cardinality(Taken) \in Nat
        /\ Cardinality(AheadOf(r, Taken)) <= Cardinality(Taken)
    BY <1>1, <1>7
  <1>10. /\ Cardinality(AheadOf(r, Mates(r, Taken))) \in Nat
         /\ Cardinality(AheadOf(r, Mates(r, Taken))) <= Cardinality(Mates(r, Taken))
         /\ Cardinality(Mates(r, Taken)) \in Nat
    BY <1>3, <1>7
  <1>11. /\ Cardinality(AheadOf(r, Kin(r, Taken))) \in Nat
         /\ Cardinality(AheadOf(r, Kin(r, Taken))) <= Cardinality(Kin(r, Taken))
         /\ Cardinality(Kin(r, Taken)) \in Nat
    BY <1>3, <1>7
  <1> QED BY <1>5, <1>6, <1>8, <1>9, <1>10, <1>11

\* A wider list takes the same rows unless the cap on the list dropped one.
LEMMA WiderTakesMore ==
    ASSUME SelectInv, report.written
    PROVE  Taken = Shortlist(Cardinality(Rows) + 1)
             <=> \A r \in Rows : blamed[r] # "max_candidates"
  <1> DEFINE wide == Cardinality(Rows) + 1
  <1> USE DEF SelectInv
  <1>1. Begun /\ input \in Input /\ Taken \in SUBSET Rows
    BY TakenRows DEF Begun
  <1>2. \A r \in Rows : Fits(r, Taken, wide) <=>
             /\ ~Held(r)
             /\ Cardinality(AheadOf(r, Mates(r, Taken))) # input.perCluster
             /\ Cardinality(AheadOf(r, Kin(r, Taken))) # input.quota[Stratum(r)]
    BY <1>1, AheadIsCapped DEF Fits
  <1>3. \A r \in Taken : Fits(r, Taken, wide)
    <2> TAKE r \in Taken
    <2>1. Fits(r, Taken, input.cap)
      BY <1>1, TakenIsTheShortlist DEF ShortlistOf
    <2> QED BY <1>1, <1>2, <2>1, AheadIsCapped DEF Fits
  <1>4. \A r \in Rows \ Taken : Fits(r, Taken, wide) <=> blamed[r] = "max_candidates"
    <2> TAKE r \in Rows \ Taken
    <2>1. BlameStands(r, blamed[r], Taken, Len(selected))
      BY TakenIsTheShortlist
    <2>2. Stratum(r) \in Strata
      BY <1>1, StratumType
    <2> QED BY <1>2, <2>1, <2>2, CapsAssumption DEF BlameStands
  <1>5. \A r \in Taken : blamed[r] # "max_candidates"
    BY <1>1 DEF Homes, NotYet
  <1>6. ShortlistOf(Taken, Rows, wide) <=> \A r \in Rows : blamed[r] # "max_candidates"
    BY <1>1, <1>3, <1>4, <1>5 DEF ShortlistOf
  <1>7. Taken = Shortlist(wide) <=> ShortlistOf(Taken, Rows, wide)
    BY <1>1, ShortlistIsTheOne
  <1> QED BY <1>6, <1>7

\* The exit code of a run that ended says what the settings did to the list.
LEMMA ExitCodesAreHonest ==
    ASSUME SelectInv, report.written
    PROVE  /\ exit = 1 <=> Shortlist(input.cap) # Shortlist(Cardinality(Rows) + 1)
           /\ exit = 2 <=> \A r \in Rows : Held(r) \/ input.quota[Stratum(r)] = 0
  <1> USE DEF SelectInv
  <1>1. /\ Begun /\ input \in Input /\ Taken \in SUBSET Rows /\ IsFiniteSet(Rows)
        /\ exit = ExitCode /\ left = {}
    BY TakenRows DEF Begun, Files
  <1>2. selected = << >> <=> Taken = {}
    <2>1. selected \in Seq(Rows)
      BY DEF TypeOK
    <2>2. selected = << >> <=> DOMAIN selected = {}
      BY <2>1
    <2> QED BY <2>2 DEF Taken
  <1>3. dropped["max_candidates"] > 0 <=> \E r \in Rows : blamed[r] = "max_candidates"
    <2> DEFINE B == {r \in Rows : blamed[r] = "max_candidates"}
    <2>1. dropped["max_candidates"] = Cardinality(B)
      BY DEF Counts, Caps
    <2>2. IsFiniteSet(B) /\ Cardinality(B) \in Nat /\ (Cardinality(B) = 0 <=> B = {})
      BY <1>1, FS_Subset, FS_CardinalityType, FS_EmptySet
    <2>3. Cardinality(B) > 0 <=> B # {}
      BY <2>2
    <2> QED BY <2>1, <2>3
  <1>4. ASSUME Taken = {}, NEW r \in Rows
        PROVE  /\ blamed[r] # "max_candidates"
               /\ Held(r) \/ input.quota[Stratum(r)] = 0
    <2>1. /\ AheadOf(r, Taken) = {} /\ AheadOf(r, Mates(r, Taken)) = {}
          /\ AheadOf(r, Kin(r, Taken)) = {}
      BY <1>4 DEF AheadOf, Mates, Kin
    <2>2. Cardinality({}) = 0 /\ Len(selected) = 0
      BY <1>2, <1>4, FS_EmptySet
    <2>3. ~Fits(r, Taken, input.cap)
      BY <1>4, TakenIsTheShortlist DEF ShortlistOf
    <2>4. Held(r) \/ input.quota[Stratum(r)] = 0
      BY <1>1, <2>1, <2>2, <2>3, AheadIsCapped DEF Fits
    <2>5. BlameStands(r, blamed[r], Taken, Len(selected)) /\ Stratum(r) \in Strata
      BY <1>1, <1>4, TakenIsTheShortlist, StratumType
    <2>6. blamed[r] # "max_candidates"
      BY <1>1, <2>2, <2>5, AheadIsCapped, CapsAssumption DEF BlameStands
    <2> QED BY <2>4, <2>6
  <1>5. ASSUME Taken # {}
        PROVE  \E r \in Rows : ~Held(r) /\ input.quota[Stratum(r)] # 0
    <2>1. PICK r \in Taken : TRUE
      BY <1>5
    <2>2. Fits(r, Taken, input.cap)
      BY <1>1, TakenIsTheShortlist DEF ShortlistOf
    <2>3. ~Held(r) /\ input.quota[Stratum(r)] # 0
      BY <1>1, <2>2, AheadIsCapped DEF Fits
    <2> QED BY <1>1, <2>3
  <1>6. exit = 1 <=> \E r \in Rows : blamed[r] = "max_candidates"
    BY <1>1, <1>2, <1>3, <1>4 DEF ExitCode
  <1>7. exit = 2 <=> Taken = {}
    BY <1>1, <1>2 DEF ExitCode
  <1>8. exit = 1 <=> Shortlist(input.cap) # Shortlist(Cardinality(Rows) + 1)
    BY <1>6, WiderTakesMore, TakenIsTheShortlist
  <1>9. exit = 2 <=> \A r \in Rows : Held(r) \/ input.quota[Stratum(r)] = 0
    BY <1>4, <1>5, <1>7
  <1> QED BY <1>8, <1>9

\* Exit 1 says the same run under an unbounded cap would have taken more, exit 2
\* that no row could be taken under any cap, and the two files describe one
\* selection.
THEOREM SelectExitIsHonest == Spec => []ExitHonest
  <1>1. ASSUME SelectInv, report.written PROVE FilesAgree
    <2>1. candidates = [written |-> TRUE, rows |-> selected]
      BY <1>1 DEF SelectInv, Files
    <2>2. report.selected = Len(selected) /\ report.filled = filled
      BY <1>1 DEF SelectInv, Files, Untouched
    <2>3. \A s \in Strata :
            filled[s] = Cardinality({k \in DOMAIN selected : Stratum(selected[k]) = s})
      BY <1>1 DEF SelectInv, Counts
    <2> QED BY <2>1, <2>2, <2>3 DEF FilesAgree
  <1>2. SelectInv => ExitHonest
    BY <1>1, ExitCodesAreHonest DEF ExitHonest
  <1> QED BY <1>2, SelectInvAlways, PTL

=============================================================================
