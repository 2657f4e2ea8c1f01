------------------------------ MODULE Pipeline ------------------------------
(***************************************************************************)
(* The commands over whole windows: ingest, score, cluster, select, health *)
(* and drift, in any order, each against the files the others left.        *)
(*                                                                         *)
(* What is at stake is age.  scores.jsonl is computed from the records as  *)
(* they were, clusters.json from the records and the scores as they were,  *)
(* and the commands that join them check some of it and not the rest.  A   *)
(* command is one step here; the steps inside one, and what a kill leaves  *)
(* of them, are the subject of the modules Ingest, Cluster and Select.  A  *)
(* kill appears as what it leaves: the start of a file.                    *)
(***************************************************************************)
EXTENDS Signals

CONSTANTS
    Windows,        \* window names
    Sources,        \* log files
    Log,            \* their records, dedupe and [expect] output_json settings
    Datasets,       \* goldens files that load, each the set of its cases' texts
    Merge,          \* [cluster] jaccard_threshold
    Neighbour,      \* [health] neighbour_jaccard
    Fresh,          \* [drift] novel_cluster_jaccard
    MaxKills        \* bound of the model

ASSUME SourcesAssumption ==
    /\ Log \in [Sources -> [records : Seq(Ids), dedupe : BOOLEAN, json : BOOLEAN]]
    /\ \A s \in Sources : Log[s].dedupe =>
         IsInjective([k \in DOMAIN Log[s].records |-> Facts[Log[s].records[k]].question])
ASSUME DatasetsAssumption ==
    \A d \in Datasets : d # {} /\ d \subseteq SUBSET Phrases
\* require_fraction refuses 0 and 1 and what is beyond them.
ASSUME ThresholdsAssumption ==
    \A t \in {Merge, Neighbour, Fresh} : t \in (Nat \ {0}) \X (Nat \ {0}) /\ t[1] < t[2]
ASSUME KillsAssumption == MaxKills \in Nat

VARIABLES
    files,  \* what each window holds
    last,   \* how the last command ended
    kills

vars == <<files, last, kills>>

\* A file that is not there has no rows; a torn one ends in the start of a line.
NoFile == [there |-> FALSE, rows |-> << >>, torn |-> FALSE]
Whole(rows) == [there |-> TRUE, rows |-> rows, torn |-> FALSE]

\* What a kill leaves of a file that was to hold rows.  No reader gets past a
\* torn line, so one torn file stands for them all.
Cuts(rows) ==
    {Whole(SubSeq(rows, 1, n)) : n \in 0 .. Len(rows)} \cup {[Whole(<< >>) EXCEPT !.torn = TRUE]}

NoManifest == [there |-> FALSE, dedupe |-> FALSE, sources |-> {}]

Empty == [records |-> NoFile, manifest |-> NoManifest, scores |-> NoFile, clusters |-> NoFile]

Held(f) == ToSet(f.records.rows)

ScoredIds(f) == {r.id : r \in ToSet(f.scores.rows)}

\* read_signals and read_scores: one entry for an id (the rows of an id are equal),
\* and none for a record without a row.
Rows(f, i) == {r \in ToSet(f.scores.rows) : r.id = i}
NamesOf(f, i) == UNION {r.names : r \in Rows(f, i)}
ScoreOf(f, i) == Max({0} \cup {r.score : r \in Rows(f, i)})

----------------------------------------------------------------------------
(***************************************************************************)
(* What each command checks, in the order it does.  The first check that   *)
(* fails decides how it ends: with the name of the command that would fix  *)
(* it, with a refusal that names none, or in the traceback of a torn       *)
(* records file.                                                           *)
(***************************************************************************)
Verdict(checks) ==
    LET failed == {k \in DOMAIN checks : checks[k][1]}
    IN  IF failed = {} THEN "ok" ELSE checks[Min(failed)][2]

ReadRecords(f) == << <<f.records.torn, "traceback">>, <<f.records.rows = << >>, "refused">> >>

Window(f) == << <<~f.records.there, "ingest">> >> \o ReadRecords(f)

\* score_window.
ScoreChecks(f) == Window(f) \o << <<~f.manifest.there, "refused">> >>

\* cluster_window, read_scores and cluster_records.
ClusterChecks(f) ==
    Window(f) \o << <<~f.scores.there, "score">>, <<f.scores.torn, "refused">>,
                    <<~IsInjective(f.records.rows), "refused">> >>

\* The ids clusters.json names.
Clustered(f) == UNION {c.members : c \in ToSet(f.clusters.rows)}

\* Slip: records without a score are let through.
ScoredRowsAny(f) ==
    << <<~f.scores.there \/ f.scores.torn, "refused">>, <<~(ScoredIds(f) \subseteq Held(f)), "score">> >>

\* _scored_rows.
ScoredRows(f) ==
    << <<~f.scores.there \/ f.scores.torn, "refused">>,
       <<~(ScoredIds(f) \subseteq Held(f)), "score">>,
       <<~(Held(f) \subseteq ScoredIds(f)), "score">> >>

\* _cluster_index.
ClusterIndex(f) ==
    << <<~f.clusters.there, "cluster">>, <<~(Held(f) \subseteq Clustered(f)), "cluster">> >>

\* select_candidates.
SelectChecks(f) ==
    << <<f.records.torn, "traceback">>, <<f.records.rows = << >>, "ingest">> >>
        \o ScoredRows(f) \o ClusterIndex(f)

\* health_report, once its goldens file has loaded.
HealthChecks(f) ==
    Window(f) \o << <<~f.clusters.there, "cluster">>, <<~f.scores.there \/ f.scores.torn, "refused">> >>

\* _window of drift.
DriftWindow(f) ==
    Window(f) \o << <<~f.scores.there, "score">>, <<~f.clusters.there, "cluster">>,
                    <<f.scores.torn, "refused">> >>

\* The records of a scores file that fired a signal, and how many.
Firing(f, s) == {r.id : r \in {q \in ToSet(f.scores.rows) : s \in q.names}}
Fired(f, s) == Cardinality(Firing(f, s))

\* compare_rates and _novelty.
DriftChecks(f, g) ==
    DriftWindow(f) \o DriftWindow(g) \o
    << <<\E s \in SignalNames : \E h \in {f, g} : Fired(h, s) > Len(h.records.rows), "impossible">>,
       <<\E c \in ToSet(g.clusters.rows) : c.representative \notin Held(g), "cluster">> >>

----------------------------------------------------------------------------
(***************************************************************************)
(* The stages that write.                                                  *)
(***************************************************************************)
Init ==
    /\ files = [w \in Windows |-> Empty]
    /\ last = [command |-> "none", verdict |-> "ok"]
    /\ kills = 0

\* The next state of one file of one window.
Put(w, name, file) == files' = [files EXCEPT ![w][name] = file]

End(command, w, verdict) ==
    /\ last' = [command |-> command, verdict |-> verdict, window |-> w]
    /\ UNCHANGED kills

Kill(command, w) ==
    /\ kills < MaxKills
    /\ kills' = kills + 1
    /\ last' = [command |-> command, verdict |-> "killed", window |-> w]

\* The records a run over a source keeps: with deduplication, those whose input
\* the window does not hold.
Kept(f, s) ==
    LET in == Log[s].records
        New(i) == Log[s].dedupe => \A j \in Held(f) : Facts[i].question # Facts[j].question
        kept[k \in 0 .. Len(in)] ==
            IF k = 0 THEN << >> ELSE IF New(in[k]) THEN Append(kept[k - 1], in[k]) ELSE kept[k - 1]
    IN  kept[Len(in)]

\* Whether the command, with --append if the window exists, gets to its writes.
\* What else it does to a window with a torn line is left to the module Ingest.
CanIngest(f, s) ==
    /\ f.records.there => f.manifest.there /\ ~f.records.torn
    /\ s \notin f.manifest.sources
    /\ Kept(f, s) # << >>

\* merge keeps the dedupe setting the window was created with.
Merged(m, s) ==
    [ there |-> TRUE,
      dedupe |-> IF m.there THEN m.dedupe ELSE Log[s].dedupe,
      sources |-> m.sources \cup {s} ]

\* Slip: opened for writing.
Replaced(f, s) == Kept(f, s)

Appended(f, s) == f.records.rows \o Kept(f, s)

Ingest(w, s) ==
    /\ CanIngest(files[w], s)
    /\ files' = [files EXCEPT ![w].records = Whole(Appended(files[w], s)),
                              ![w].manifest = Merged(files[w].manifest, s)]
    /\ End("ingest", w, "ok")

\* Killed before the manifest.
IngestKilled(w, s) ==
    /\ Kill("ingest", w)
    /\ CanIngest(files[w], s)
    /\ \E cut \in Cuts(Kept(files[w], s)) :
         Put(w, "records", [cut EXCEPT !.rows = files[w].records.rows \o @])

Declared(f) == {Log[s].json : s \in f.manifest.sources}

ScoreRows(f, goldens) ==
    LET c == Context(f.records.rows, f.manifest.dedupe, Declared(f), goldens)
    IN  [k \in DOMAIN f.records.rows |-> Row(f.records.rows[k], c)]

ScoreRefused(w) ==
    /\ Verdict(ScoreChecks(files[w])) # "ok"
    /\ End("score", w, Verdict(ScoreChecks(files[w])))
    /\ UNCHANGED files

\* scores.jsonl is replaced in place.
Score(w, goldens) ==
    LET f == files[w] IN
    /\ Verdict(ScoreChecks(f)) = "ok"
    /\ Put(w, "scores", Whole(ScoreRows(f, goldens)))
    /\ End("score", w, IF Blocked(f.manifest.dedupe, Declared(f)) THEN "partial" ELSE "ok")

ScoreKilled(w, goldens) ==
    /\ Kill("score", w)
    /\ Verdict(ScoreChecks(files[w])) = "ok"
    /\ \E cut \in Cuts(ScoreRows(files[w], goldens)) : Put(w, "scores", cut)

Alike == {e \in Ids \X Ids : AtLeast(Jaccard(Facts[e[1]].phrases, Facts[e[2]].phrases), Merge)}

\* The sets of records that chains of merged pairs join: closed, and no smaller
\* one is.  What banding loses of them is the subject of the module Cluster; here
\* every pair at the threshold is merged.
Components == [ids \in SUBSET Ids |->
    LET closed == {m \in (SUBSET ids) \ {{}} : Alike \cap (m \X (ids \ m)) = {}}
    IN  {m \in closed : \A n \in closed : n \subseteq m => n = m}]

\* Slip: the loudest record of the window.
RepresentativeOfAll(f, members) ==
    CHOOSE i \in Held(f) : \A j \in Held(f) :
        ScoreOf(f, i) > ScoreOf(f, j) \/ (ScoreOf(f, i) = ScoreOf(f, j) /\ i <= j)

\* The loudest member speaks, ties by id.
Representative(f, members) ==
    CHOOSE i \in members : \A j \in members :
        ScoreOf(f, i) > ScoreOf(f, j) \/ (ScoreOf(f, i) = ScoreOf(f, j) /\ i <= j)

\* Slip: a record that merged with nothing is no cluster.
PartitionNoSingletons(f) ==
    SetToSeq({[representative |-> Representative(f, m), members |-> m] :
                m \in {n \in Components[Held(f)] : Cardinality(n) > 1}})

\* cluster_records; no stage modelled here reads the order of the clusters.
Partition(f) ==
    SetToSeq({[representative |-> Representative(f, m), members |-> m] :
                m \in Components[Held(f)]})

\* clusters.json is replaced atomically: a kill leaves the old one.
Cluster(w) ==
    LET verdict == Verdict(ClusterChecks(files[w])) IN
    /\ IF verdict = "ok" THEN Put(w, "clusters", Whole(Partition(files[w])))
                         ELSE UNCHANGED files
    /\ End("cluster", w, verdict)

----------------------------------------------------------------------------
(***************************************************************************)
(* The stages that read: the shortlist and the two reports.                *)
(***************************************************************************)
\* Bound of the model: a report changes no file, so one after another finds what it
\* would have found without.
OneReport == last.command \notin {"select", "health", "drift"}

Select(w) ==
    /\ OneReport
    /\ End("select", w, Verdict(SelectChecks(files[w])))
    /\ UNCHANGED files

Covered(f, cases) == {i \in Held(f) : Near(Facts[i].phrases, cases, Neighbour)}

\* Slip: what is about the dataset counts as traffic.
TrafficAll(names) == names

\* _traffic_signals.
Traffic(names) == names \ {"novelty"}

\* One half of _comparison: <<covered, total>> of the clusters where a record fired
\* a signal, or of those where none did.
Half(clusters, covered, fired, signalled) ==
    LET half == {c \in clusters : (c.members \cap fired # {}) = signalled}
    IN  <<Cardinality({c \in half : c.members \cap covered # {}}), Cardinality(half)>>

\* One row of _signal_coverage.
SignalRow(f, covered, s) ==
    [records |-> Fired(f, s), covered |-> Cardinality(Firing(f, s) \cap covered)]

HealthReport(f, cases) ==
    LET clusters == ToSet(f.clusters.rows)
        covered == Covered(f, cases)
        fired == {i \in Clustered(f) : Traffic(NamesOf(f, i)) # {}}
    IN  [ coverage |-> <<Cardinality({c \in clusters : c.members \cap covered # {}}),
                         Cardinality(clusters)>>,
          gaps |-> {c.members : c \in {d \in clusters : d.members \cap covered = {}}},
          stale |-> {t \in cases : ~Near(t, {Facts[i].phrases : i \in Held(f)}, Neighbour)},
          signals |-> [s \in SignalNames |-> SignalRow(f, covered, s)],
          signalled |-> Half(clusters, covered, fired, TRUE),
          ordinary |-> Half(clusters, covered, fired, FALSE) ]

Health(w, cases) ==
    LET verdict == Verdict(HealthChecks(files[w])) IN
    /\ OneReport
    /\ last' = IF verdict = "ok"
               THEN [command |-> "health", verdict |-> verdict, window |-> w,
                     cases |-> cases, report |-> HealthReport(files[w], cases)]
               ELSE [command |-> "health", verdict |-> verdict]
    /\ UNCHANGED <<files, kills>>

Texts(f) == {Facts[i].phrases : i \in Held(f)}

\* Slip: compared with the later window, which holds its own texts.
NewAgainstLater(f, g) ==
    {c.members : c \in {d \in ToSet(g.clusters.rows) :
        ~Near(Facts[d.representative].phrases, Texts(g), Fresh)}}

\* _novelty: against every record of the earlier window.
NewClusters(f, g) ==
    {c.members : c \in {d \in ToSet(g.clusters.rows) :
        ~Near(Facts[d.representative].phrases, Texts(f), Fresh)}}

\* The count and the total of each rate, of both windows.
DriftReport(f, g) ==
    [ signals |-> [s \in SignalNames |-> [h \in {1, 2} |->
                     LET x == <<f, g>>[h] IN <<Fired(x, s), Len(x.records.rows)>>]],
      errors |-> [h \in {1, 2} |-> LET rows == <<f, g>>[h].records.rows IN
                     <<Cardinality({k \in DOMAIN rows : Facts[rows[k]].failed}), Len(rows)>>],
      new |-> NewClusters(f, g) ]

Drift(v, w) ==
    LET verdict == Verdict(DriftChecks(files[v], files[w])) IN
    /\ v # w
    /\ OneReport
    /\ last' = IF verdict = "ok"
               THEN [command |-> "drift", verdict |-> verdict, windows |-> <<v, w>>,
                     report |-> DriftReport(files[v], files[w])]
               ELSE [command |-> "drift", verdict |-> verdict]
    /\ UNCHANGED <<files, kills>>

Existing == {None} \cup Datasets

Next ==
    \/ \E w \in Windows, s \in Sources : Ingest(w, s) \/ IngestKilled(w, s)
    \/ \E w \in Windows : ScoreRefused(w) \/ Cluster(w) \/ Select(w)
    \/ \E w \in Windows, g \in Existing : Score(w, g) \/ ScoreKilled(w, g)
    \/ \E w \in Windows, d \in Datasets : Health(w, d)
    \/ \E v, w \in Windows : Drift(v, w)

Spec == Init /\ [][Next]_vars

\* How each of the readers would end on this window.
Complaints(f) == {Verdict(SelectChecks(f)), Verdict(HealthChecks(f)), Verdict(DriftWindow(f))}

\* The advice stands, and its command can be run.  A reader that refuses to go on
\* names scores.jsonl, and score is what writes that file.
Advised(f, command) ==
    CASE command = "score" ->
            /\ Complaints(f) \cap {"score", "refused"} # {}
            /\ Verdict(ScoreChecks(f)) = "ok"
      [] command = "cluster" ->
            /\ "cluster" \in Complaints(f)
            /\ Verdict(ClusterChecks(f)) = "ok"

Took(w, command) ==
    /\ last'.command = command /\ last'.verdict \in {"ok", "partial"}
    /\ last'.window = w

\* Commands may be typed in any order, but advice that stands is taken some day.
\* Sources come to an end by themselves, and so do kills.  This is the weak
\* fairness of Score(w, _) and of Cluster(w) while their advice stands, with its
\* ENABLED written out, which TLC would take hours to evaluate.
FairSpec ==
    /\ Spec
    /\ \A w \in Windows, command \in {"score", "cluster"} :
         []<>~Advised(files[w], command) \/ []<><<Took(w, command)>>_vars

----------------------------------------------------------------------------
(***************************************************************************)
(* Correctness.                                                            *)
(***************************************************************************)
File(rows) == [there : BOOLEAN, rows : Seq(rows), torn : BOOLEAN]

\* Each file is a file of its kind, and a cluster is spoken for by a member.
TypeOK ==
    /\ files \in [Windows ->
         [ records : File(Ids),
           manifest : [there : BOOLEAN, dedupe : BOOLEAN, sources : SUBSET Sources],
           scores : File([id : Ids, names : SUBSET SignalNames, score : Nat]),
           clusters : File({c \in [representative : Ids, members : SUBSET Ids] :
                               c.representative \in c.members}) ]]
    /\ kills \in 0 .. MaxKills
    /\ last.verdict \in {"ok", "partial", "refused", "killed", "traceback", "ingest",
                         "score", "cluster", "impossible"}

\* scores.jsonl is what scoring the records would write now, with some --existing.
Current(f) ==
    /\ f.scores.there /\ ~f.scores.torn /\ Len(f.scores.rows) = Len(f.records.rows)
    /\ \E g \in Existing : f.scores.rows = ScoreRows(f, g)

Partitioned(f) ==
    /\ Clustered(f) = Held(f)
    /\ \A c, d \in ToSet(f.clusters.rows) : c = d \/ c.members \cap d.members = {}

\* No order of commands and kills leaves a derived file that knows a record the
\* window does not: drift never meets its "more occurrences than records" nor a
\* representative the window does not hold, select no score of another window.
NothingAheadOfRecords ==
    /\ last.verdict # "impossible"
    /\ \A w \in Windows : /\ ScoredIds(files[w]) \subseteq Held(files[w])
                         /\ Clustered(files[w]) \subseteq Held(files[w])

\* The checks select makes -- and it makes no other -- suffice: what it chooses
\* from is the ranking and a partition of the records as they are, not as they
\* were when a killed or an earlier score or cluster saw them.  Only a record id
\* held twice, which cluster refuses, escapes them.
SelectOverOneWindow ==
    last.command = "select" /\ last.verdict = "ok" =>
        LET f == files[last.window] IN
        IsInjective(f.records.rows) => Current(f) /\ Partitioned(f)

\* What a window has to be for the commands after ingest to mend the rest: whole
\* records of distinct ids, and a manifest beside them.
Healable(f) ==
    /\ f.records.there /\ ~f.records.torn
    /\ f.records.rows # << >> /\ IsInjective(f.records.rows)
    /\ f.manifest.there

\* Whatever was killed or left stale, running the commands the complaints name
\* is enough: in the end select, health and drift take the window, and keep
\* taking it.  No advice sends the operator round in a circle, and none names a
\* command that refuses, or does not mend what was complained of.
AdviceHeals ==
    \A w \in Windows :
        <>[](Healable(files[w]) => \A v \in Complaints(files[w]) : v = "ok")

\* How many observations of a sample are no greater than a value.
AtMost(sample, value) == Cardinality({k \in DOMAIN sample : sample[k] <= value})

\* The two outlier signals fire on exactly the tail of the window's own
\* distribution, whatever the order of the records and the ties among them: where
\* at least Percent of the sample is at or below the value, and the sample is
\* large enough to say so.
OutliersAreTheTail ==
    last.command = "score" /\ last.verdict \in {"ok", "partial"} =>
        LET f == files[last.window]
            latency == Sample(f.records.rows, "latency")
            inLen == Sample(f.records.rows, "inLen")
            outLen == Sample(f.records.rows, "outLen")
            Extreme(sample, value) ==
                /\ value # None
                /\ Size(sample) >= MinSample
                /\ 100 * AtMost(sample, value) >= Percent * Size(sample)
        IN  \A r \in ToSet(f.scores.rows) :
              /\ "latency_outlier" \in r.names <=> Extreme(latency, Facts[r.id].latency)
              /\ "length_outlier" \in r.names <=>
                   Extreme(inLen, Facts[r.id].inLen) \/ Extreme(outLen, Facts[r.id].outLen)

\* Every answer the window holds to i's question, from i's version, came out as
\* i did.
Steady(f, i) ==
    \A j \in Held(f) :
        /\ Facts[j].question = Facts[i].question
        /\ Facts[j].version = Facts[i].version
        => Outcome(j) = Outcome(i)

\* Exit 0 says of two signals that the window did not silence them: two versions
\* that answered one question differently are named in the file, and an output
\* that should parse and does not is too, of the records the window holds.  Exit 1
\* says one of the two could not fire.
ScoreExitHonest ==
    last.command = "score" /\ last.verdict \in {"ok", "partial"} =>
        LET f == files[last.window]
            silent(s) == \A i \in Held(f) : s \notin NamesOf(f, i)
        IN  IF last.verdict = "partial"
            THEN silent("version_disagreement") \/ silent("format_violation")
            ELSE /\ \A i, j \in Held(f) :
                       /\ Facts[i].question = Facts[j].question
                       /\ Facts[i].version # Facts[j].version
                       /\ None \notin {Facts[i].version, Facts[j].version}
                       /\ Steady(f, i) /\ Steady(f, j) /\ Outcome(i) # Outcome(j)
                       => "version_disagreement" \in NamesOf(f, i) \cap NamesOf(f, j)
                 /\ \A i \in Held(f) :
                       TRUE \in Declared(f) /\ Facts[i].outLen # None /\ ~Facts[i].parses
                       => "format_violation" \in NamesOf(f, i)

\* A health report over current files cannot contradict itself: the signalled
\* and the ordinary clusters are those of a scoring without --existing, whichever
\* one was run; their halves add up to the coverage; nothing is covered exactly
\* when every case is stale.
HealthTellsOneStory ==
    last.command = "health" /\ last.verdict = "ok" =>
        LET f == files[last.window]
            r == last.report
            clusters == ToSet(f.clusters.rows)
            plain == Context(f.records.rows, f.manifest.dedupe, Declared(f), None)
            loud == {c \in clusters : \E i \in c.members : Row(i, plain).names # {}}
        IN  Current(f) /\ Partitioned(f) =>
              /\ r.signalled[2] = Cardinality(loud)
              /\ r.signalled[1] = Cardinality({c \in loud : c.members \notin r.gaps})
              /\ r.ordinary[2] = Cardinality(clusters \ loud)
              /\ r.coverage[1] = r.signalled[1] + r.ordinary[1]
              /\ r.coverage[1] = 0 <=> r.stale = last.cases

\* The signals that read one record and nothing of its window.
Own == {"error", "judge_failure", "negative_feedback", "feedback_conflict"} \cup Patterns

\* A drift report cannot contradict itself, however old the files it joins are.
\* The rate of the signal "error" is counted in scores.jsonl and the error rate in
\* the records: the first never passes the second, and is the second once every
\* record has a score.  Windows of the same records, both scored, differ in no
\* signal that reads one record only, whatever --existing, deduplication and
\* declarations each was scored under.  And a cluster none of whose texts shares a
\* word with the earlier window is among the new ones, whoever speaks for it.
DriftTellsOneStory ==
    last.command = "drift" /\ last.verdict = "ok" =>
        LET f == files[last.windows[1]]
            g == files[last.windows[2]]
            signals == last.report.signals
            Scored(x) == Held(x) \subseteq ScoredIds(x)
        IN  /\ \A h \in {1, 2} :
                 LET x == <<f, g>>[h]
                     failed == last.report.errors[h][1]
                 IN  /\ signals["error"][h][1] <= failed
                     /\ Scored(x) /\ IsInjective(x.records.rows) => signals["error"][h][1] = failed
            /\ Held(f) = Held(g) /\ Scored(f) /\ Scored(g) =>
                 \A s \in Own : signals[s][1][1] = signals[s][2][1]
            /\ \A c \in ToSet(g.clusters.rows) :
                 (\A i \in c.members, t \in Texts(f) : Facts[i].phrases \cap t = {})
                 => c.members \in last.report.new
=============================================================================
