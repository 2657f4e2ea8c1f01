------------------------------- MODULE Select -------------------------------
(***************************************************************************)
(* `loghog select`: stage 05, one run over one window                      *)
(* (src/loghog/select/run.py).                                             *)
(*                                                                         *)
(* The run joins three files written by three earlier commands -- records, *)
(* scores and clusters -- refuses when they do not cover each other, and   *)
(* then walks the scored rows best first through four caps.  The order of  *)
(* the caps is the design: each row that is not taken is refused by        *)
(* exactly one of them, and is counted under its name.                     *)
(*                                                                         *)
(* A record is its id; ids are numbers because they are only compared.     *)
(* Whether its input is already in the goldens is a fact about the record  *)
(* (shingle similarity, not modelled here).  A score is read from its      *)
(* file, never computed: the weights may have changed since.               *)
(***************************************************************************)
EXTENDS Integers, Sequences, FiniteSets

CONSTANTS
    Ids,                    \* record ids, in the order of their names
    Registry,               \* SIGNAL_NAMES: a sequence, its order is fixed
    Retired,                \* signal names only an older scores.jsonl holds
    Clusters, NoCluster,    \* cluster ids; a record clusters.json leaves out
    Ordinary,               \* the stratum of a record with no known signal
    Inputs                  \* the windows and settings a run may meet

Signals == {Registry[k] : k \in DOMAIN Registry}

Strata == Signals \cup {Ordinary}

Row == [id : Ids, score : Nat, names : SUBSET (Signals \cup Retired)]

\* What a run reads: the window and what is known of it, then the settings.
Input == [ window : SUBSET Ids,
           rows : Seq(Row),                             \* scores.jsonl
           cluster : [Ids -> Clusters \cup {NoCluster}],
           held : SUBSET Ids,       \* at novelty_max_jaccard from a golden
           weight : [Signals -> Nat \ {0}],
           quota : [Strata -> Nat],
           cap : Nat \ {0},
           perCluster : Nat \ {0} ]

ASSUME IdsAssumption == Ids \subseteq Nat /\ Ordinary \notin Signals
ASSUME ClustersAssumption == NoCluster \notin Clusters
ASSUME RegistryAssumption ==
    /\ Registry \in Seq(Signals)
    /\ \A k, m \in DOMAIN Registry : Registry[k] = Registry[m] => k = m
ASSUME InputsAssumption == Inputs \subseteq Input

\* The names in the accounting: the three fixed caps, and one per stratum.
Caps == {"already_in_goldens", "cluster_cap", "max_candidates"} \cup Strata

\* History: the blame of a row that no cap has refused.
NotYet == "not yet"

ASSUME CapsAssumption ==
    Strata \cap {"already_in_goldens", "cluster_cap", "max_candidates", NotYet} = {}

VARIABLES
    input,      \* what this run reads
    pc,         \* where the run is
    left,       \* the rows the loop has not come to, by their place in its file
    selected,   \* the shortlist: rows, in rank order
    dropped,    \* rows refused, by cap
    filled,     \* rows taken, by stratum
    perCluster, \* rows taken, by cluster
    candidates, \* candidates.jsonl of this window: what this run wrote, if it did
    report,     \* selection.md: the numbers this run wrote, if it did
    exit,       \* the exit code; -1 while the run has none
    blamed      \* history: the cap that refused each row

vars == <<input, pc, left, selected, dropped, filled, perCluster, candidates,
          report, exit, blamed>>

Untouched == [written |-> FALSE]

----------------------------------------------------------------------------
(***************************************************************************)
(* Joining the three files: _scored_rows and _cluster_index.               *)
(***************************************************************************)
Rows == DOMAIN input.rows

Scored == {input.rows[r].id : r \in Rows}

\* An empty window, a score for a record the window does not hold, a record
\* without a score, a record in no cluster.  A file that is not there covers
\* nothing, and is refused the same way.
Refused ==
    \/ input.window = {}
    \/ Scored # input.window
    \/ \E id \in input.window : input.cluster[id] = NoCluster

\* rows.sort(key=(-score, id)): stable, so equal rows keep their places.
Better(q, r) ==
    LET a == input.rows[q]  b == input.rows[r] IN
    \/ a.score > b.score
    \/ a.score = b.score /\ a.id < b.id
    \/ a.score = b.score /\ a.id = b.id /\ q < r

\* The stratum of a row: its heaviest known signal, ties by registry order.
Stratum(r) ==
    LET known == {k \in DOMAIN Registry : Registry[k] \in input.rows[r].names}
        w(k) == input.weight[Registry[k]]
        heaviest == {k \in known : \A m \in known :
                        w(k) > w(m) \/ (w(k) = w(m) /\ k <= m)}
    IN  IF known = {} THEN Ordinary ELSE Registry[CHOOSE k \in heaviest : TRUE]

Cluster(r) == input.cluster[input.rows[r].id]

Held(r) == input.rows[r].id \in input.held

----------------------------------------------------------------------------
Init ==
    /\ input \in Inputs
    /\ pc = "start"
    /\ left = {}
    /\ selected = << >>
    /\ dropped = [c \in Caps |-> 0]
    /\ filled = [s \in Strata |-> 0]
    /\ perCluster = [c \in Clusters |-> 0]
    /\ candidates = Untouched
    /\ report = Untouched
    /\ exit = -1
    /\ blamed = [r \in Rows |-> NotYet]

\* SelectionError or ScoreError: one line on standard error and EXIT_CANNOT_RUN.
Refuse ==
    /\ pc = "start"
    /\ Refused
    /\ pc' = "ended"
    /\ exit' = 3
    /\ UNCHANGED <<input, left, selected, dropped, filled, perCluster, candidates,
                   report, blamed>>

Join ==
    /\ pc = "start"
    /\ ~Refused
    /\ pc' = "loop"
    /\ left' = Rows
    /\ UNCHANGED <<input, selected, dropped, filled, perCluster, candidates,
                   report, exit, blamed>>

\* The row the loop is at.
At(r) == pc = "loop" /\ r \in left /\ \A q \in left \ {r} : Better(r, q)

ClusterFull(r) == perCluster[Cluster(r)] >= input.perCluster
StratumFull(r) == filled[Stratum(r)] >= input.quota[Stratum(r)]
ListFull == Len(selected) >= input.cap

\* Slip: a cap that is silent.
DropSilently(r, why) ==
    /\ left' = left \ {r}
    /\ blamed' = [blamed EXCEPT ![r] = why]
    /\ UNCHANGED <<input, pc, selected, dropped, filled, perCluster, candidates,
                   report, exit>>

\* One `_count(dropped, ...)` and `continue`.
Drop(r, why) ==
    /\ left' = left \ {r}
    /\ dropped' = [dropped EXCEPT ![why] = @ + 1]
    /\ blamed' = [blamed EXCEPT ![r] = why]
    /\ UNCHANGED <<input, pc, selected, filled, perCluster, candidates, report, exit>>

\* Slip: a held record spends its cluster's slot.
DropHeldSpends(r) ==
    /\ At(r) /\ Held(r)
    /\ left' = left \ {r}
    /\ dropped' = [dropped EXCEPT !["already_in_goldens"] = @ + 1]
    /\ perCluster' = [perCluster EXCEPT ![Cluster(r)] = @ + 1]
    /\ blamed' = [blamed EXCEPT ![r] = "already_in_goldens"]
    /\ UNCHANGED <<input, pc, selected, filled, candidates, report, exit>>

DropHeld(r) == At(r) /\ Held(r) /\ Drop(r, "already_in_goldens")

DropClusterCap(r) ==
    At(r) /\ ~Held(r) /\ ClusterFull(r) /\ Drop(r, "cluster_cap")

\* Slip: the quota is looked at before the cluster.
DropQuotaFirst(r) == At(r) /\ ~Held(r) /\ StratumFull(r) /\ Drop(r, Stratum(r))

DropQuota(r) ==
    /\ At(r) /\ ~Held(r) /\ ~ClusterFull(r)
    /\ StratumFull(r)
    /\ Drop(r, Stratum(r))

DropGlobalCap(r) ==
    /\ At(r) /\ ~Held(r) /\ ~ClusterFull(r) /\ ~StratumFull(r)
    /\ ListFull
    /\ Drop(r, "max_candidates")

Take(r) ==
    /\ At(r) /\ ~Held(r) /\ ~ClusterFull(r) /\ ~StratumFull(r) /\ ~ListFull
    /\ left' = left \ {r}
    /\ filled' = [filled EXCEPT ![Stratum(r)] = @ + 1]
    /\ perCluster' = [perCluster EXCEPT ![Cluster(r)] = @ + 1]
    /\ selected' = Append(selected, r)
    /\ UNCHANGED <<input, pc, dropped, candidates, report, exit, blamed>>

\* Slips: the count itself; truncation by any cap.
ExitCodeCount == IF selected = << >> THEN 2 ELSE dropped["max_candidates"]
ExitCodeAny ==
    IF selected = << >> THEN 2 ELSE IF \E c \in Caps : dropped[c] > 0 THEN 1 ELSE 0

\* _exit_code, and candidates.jsonl.
ExitCode ==
    IF selected = << >> THEN 2
    ELSE IF dropped["max_candidates"] > 0 THEN 1 ELSE 0

WriteCandidates ==
    /\ pc = "loop"
    /\ left = {}
    /\ pc' = "report"
    /\ candidates' = [written |-> TRUE, rows |-> selected]
    /\ UNCHANGED <<input, left, selected, dropped, filled, perCluster, report,
                   exit, blamed>>

\* selection.md: considered, the accounting, and what each stratum got.
WriteReport ==
    /\ pc = "report"
    /\ pc' = "ended"
    /\ report' = [ written |-> TRUE, considered |-> Len(input.rows),
                   selected |-> Len(selected), dropped |-> dropped,
                   filled |-> filled ]
    /\ exit' = ExitCode
    /\ UNCHANGED <<input, left, selected, dropped, filled, perCluster,
                   candidates, blamed>>

Ended == pc = "ended" /\ UNCHANGED vars

Visit(r) == DropHeld(r) \/ DropClusterCap(r) \/ DropQuota(r) \/ DropGlobalCap(r) \/ Take(r)

Next ==
    \/ Refuse
    \/ Join
    \/ \E r \in left : Visit(r)
    \/ WriteCandidates
    \/ WriteReport
    \/ Ended

Spec == Init /\ [][Next]_vars

----------------------------------------------------------------------------
(***************************************************************************)
(* What the shortlist promises.  The order of the stage's contract: a      *)
(* higher score first, then the id; and the rows of S it puts before r.    *)
(***************************************************************************)
Ahead(q, r) ==
    LET a == input.rows[q]  b == input.rows[r] IN
    a.score > b.score \/ (a.score = b.score /\ (a.id < b.id \/ (a.id = b.id /\ q < r)))

AheadOf(r, S) == {q \in S : Ahead(q, r)}

Taken == {selected[k] : k \in DOMAIN selected}

Mates(r, S) == {q \in S : Cluster(q) = Cluster(r)}
Kin(r, S) == {q \in S : Stratum(q) = Stratum(r)}

\* Whether r belongs in a shortlist S, by the rows of S ahead of it alone.
Fits(r, S, cap) ==
    /\ ~Held(r)
    /\ Cardinality(AheadOf(r, Mates(r, S))) < input.perCluster
    /\ Cardinality(AheadOf(r, Kin(r, S))) < input.quota[Stratum(r)]
    /\ Cardinality(AheadOf(r, S)) < cap

\* The one shortlist each row of which fits, and which leaves out no row that
\* fits.  It mentions no counter, no loop and no held record.
Shortlist(cap) ==
    CHOOSE S \in SUBSET Rows : \A r \in Rows : r \in S <=> Fits(r, S, cap)

TypeOK ==
    /\ input \in Input
    /\ pc \in {"start", "loop", "report", "ended"}
    /\ left \subseteq Rows
    /\ selected \in Seq(Rows)
    /\ dropped \in [Caps -> Nat]
    /\ filled \in [Strata -> Nat]
    /\ perCluster \in [Clusters -> Nat]
    /\ exit \in IF candidates.written THEN {-1, 0, 1, 2} ELSE {-1, 3}
    /\ blamed \in [Rows -> Caps \cup {NotYet}]

\* Every row the loop has passed is in the shortlist or under exactly one cap,
\* and the accounting of selection.md is those rows, none twice and none lost:
\* considered = selected + dropped.
EveryRowOneHome ==
    /\ \A c \in Caps : dropped[c] = Cardinality({r \in Rows : blamed[r] = c})
    /\ Len(selected) = Cardinality(Taken)
    /\ Taken \cap left = {}
    /\ pc \in {"loop", "report"} \/ report.written =>
         \A r \in Rows : (r \in left \cup Taken) <=> (blamed[r] = NotYet)

\* The caps hold of the shortlist itself, not only of the counters the loop
\* tests: at every moment no cluster, no stratum and not the whole list is
\* over its cap.
CapsRespected ==
    /\ Len(selected) <= input.cap
    /\ \A r \in Taken :
         /\ Cardinality(Mates(r, Taken)) <= input.perCluster
         /\ Cardinality(Kin(r, Taken)) <= input.quota[Stratum(r)]

\* Ranks follow the score and then the id, so row k of candidates.jsonl is
\* never behind a later one.
RanksDescend ==
    \A k, m \in DOMAIN selected : k < m => Ahead(selected[k], selected[m])

\* The shortlist is a function of the window: at every moment the rows taken
\* are those of the rows visited that fit, judged by the rows ahead of them in
\* score and id -- whatever the order of the file, with no slot spent on a
\* record that is already in the goldens, within the caps, and in rank order.
GreedyShortlist ==
    /\ pc \in {"loop", "report"} =>
         \A r \in Rows \ left : r \in Taken <=> Fits(r, Taken, input.cap)
    /\ CapsRespected
    /\ RanksDescend

\* Each row is blamed on the first cap, in the contract's order, that the rows
\* taken ahead of it had filled: never on a later one, and never on one that
\* still had room.  A row the global cap stopped fills nothing, so a mate behind
\* it is blamed on the global cap too, see GlobalCapOnlyBlamed.
BlameIsFirst ==
    \A r \in {q \in Rows : blamed[q] # NotYet} :
        LET mates == Cardinality(AheadOf(r, Mates(r, Taken))) = input.perCluster
            kin == Cardinality(AheadOf(r, Kin(r, Taken))) = input.quota[Stratum(r)]
        IN  CASE blamed[r] = "already_in_goldens" -> Held(r)
              [] blamed[r] = "cluster_cap" -> ~Held(r) /\ mates
              [] blamed[r] \in Strata ->
                    ~Held(r) /\ ~mates /\ kin /\ blamed[r] = Stratum(r)
              [] blamed[r] = "max_candidates" ->
                    ~Held(r) /\ ~mates /\ ~kin /\ Len(selected) = input.cap

\* The report and the shortlist beside it describe one selection, stratum by
\* stratum.
FilesAgree ==
    report.written =>
        /\ candidates.written
        /\ report.selected = Len(candidates.rows)
        /\ \A s \in Strata : report.filled[s] =
             Cardinality({k \in DOMAIN candidates.rows : Stratum(candidates.rows[k]) = s})

\* Exit 1 says there was more worth having and the cap stopped it: it is
\* returned exactly when the same run under an unbounded cap would have taken
\* more.  Exit 2 says no row could be taken whatever the cap: each is held, or
\* of a kind the quotas never take.  Whichever it is, the two files describe one
\* selection.
ExitHonest ==
    pc = "ended" /\ report.written =>
        /\ exit = 1 <=> Shortlist(input.cap) # Shortlist(Cardinality(Rows) + 1)
        /\ exit = 2 <=> \A r \in Rows : Held(r) \/ input.quota[Stratum(r)] = 0
        /\ FilesAgree

----------------------------------------------------------------------------
(***************************************************************************)
(* What the repository says and the code does not keep, the subject of a   *)
(* run that ends in a counterexample.                                      *)
(***************************************************************************)
\* "The global cap -- last, so that it is only ever blamed for records that would
\* otherwise have been taken" (select/run.py:18-19): a row counted under it is in
\* the shortlist the same run gives under a cap nothing reaches.
GlobalCapOnlyBlamed ==
    \A r \in Rows :
        blamed[r] = "max_candidates" => r \in Shortlist(Cardinality(Rows) + 1)
=============================================================================
