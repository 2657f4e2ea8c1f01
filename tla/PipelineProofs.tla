--------------------------- MODULE PipelineProofs ---------------------------
(***************************************************************************)
(* What holds of any number of windows, sources, datasets and kills: the   *)
(* commands over whole windows are type correct, no file is ahead of the   *)
(* records, and select, drift, health and score's exit tell the truth      *)
(* about the files they meet, and the outlier signals fire on exactly the  *)
(* tail of a window's own sample.                                          *)
(***************************************************************************)
EXTENDS Pipeline, Induction

----------------------------------------------------------------------------
(***************************************************************************)
(* Checks in order: the first that fails is the verdict.                   *)
(***************************************************************************)
\* The ends but the good one.
Refusals == {"refused", "traceback", "ingest", "score", "cluster", "impossible"}

\* The names a verdict may have.
LEMMA RefusalsNamed ==
    /\ "refused" \in Refusals /\ "traceback" \in Refusals /\ "ingest" \in Refusals
    /\ "score" \in Refusals /\ "cluster" \in Refusals /\ "impossible" \in Refusals
  BY DEF Refusals

Checks == Seq(BOOLEAN \X Refusals)

Failing(checks, v) == \E k \in DOMAIN checks : checks[k][1] /\ checks[k][2] = v

Failed(checks) == \E k \in DOMAIN checks : checks[k][1]

\* A command goes on when no check fails, and ends as a failing one says.
LEMMA VerdictOf ==
    ASSUME NEW checks \in Checks
    PROVE  IF Failed(checks) THEN Failing(checks, Verdict(checks)) ELSE Verdict(checks) = "ok"
  <1> DEFINE failed == {k \in DOMAIN checks : checks[k][1]}
  <1>1. CASE ~Failed(checks)
    BY <1>1 DEF Failed, Verdict
  <1>2. CASE Failed(checks)
    <2>1. failed # {} /\ failed \in SUBSET Nat
      BY <1>2 DEF Failed, Checks
    <2>2. \E m \in failed : \A n \in failed : m <= n
      <3> HIDE DEF failed
      <3> QED BY <2>1, LeastNumber
    <2>3. Min(failed) \in failed
      <3> HIDE DEF failed
      <3> QED BY <2>2 DEF Min
    <2>4. Verdict(checks) = checks[Min(failed)][2]
      BY <2>1 DEF Verdict
    <2> HIDE DEF failed
    <2>5. Failing(checks, checks[Min(failed)][2])
      BY <2>3 DEF Failing, failed
    <2> QED BY <1>2, <2>4, <2>5
  <1> QED BY <1>1, <1>2

\* One check: its name, or ok.
LEMMA OneCheck ==
    ASSUME NEW a \in BOOLEAN, NEW x \in Refusals
    PROVE  /\ << <<a, x>> >> \in Checks
           /\ \A v : Failing(<< <<a, x>> >>, v) <=>
                       ((a /\ v = x))
           /\ Failed(<< <<a, x>> >>) <=> (a)
  <1> DEFINE p == <<a, x>>
             s == <<p>>
  <1>1. /\ p \in BOOLEAN \X Refusals /\ (p[1] <=> a) /\ p[2] = x
    OBVIOUS
  <1> HIDE DEF p
  <1>2. s \in Checks /\ DOMAIN s = 1 .. 1 /\ s[1] = p
    BY <1>1 DEF Checks
  <1>3. \A k : k \in 1 .. 1 <=> k = 1
    OBVIOUS
  <1> HIDE DEF s
  <1>4. \A v : Failing(s, v) <=> ((a /\ v = x))
    BY <1>1, <1>2, <1>3 DEF Failing
  <1>5. Failed(s) <=> (a)
    BY <1>1, <1>2, <1>3 DEF Failed
  <1> QED BY <1>2, <1>4, <1>5 DEF s, p

\* Two checks, in their order.
LEMMA TwoChecks ==
    ASSUME NEW a \in BOOLEAN, NEW x \in Refusals,
           NEW b \in BOOLEAN, NEW y \in Refusals
    PROVE  /\ << <<a, x>>, <<b, y>> >> \in Checks
           /\ \A v : Failing(<< <<a, x>>, <<b, y>> >>, v) <=>
                       ((a /\ v = x) \/ (b /\ v = y))
           /\ Failed(<< <<a, x>>, <<b, y>> >>) <=> (a \/ b)
  <1> DEFINE p == <<a, x>>
             q == <<b, y>>
             s == <<p, q>>
  <1>1. /\ p \in BOOLEAN \X Refusals /\ (p[1] <=> a) /\ p[2] = x
        /\ q \in BOOLEAN \X Refusals /\ (q[1] <=> b) /\ q[2] = y
    OBVIOUS
  <1> HIDE DEF p, q
  <1>2. s \in Checks /\ DOMAIN s = 1 .. 2 /\ s[1] = p /\ s[2] = q
    BY <1>1 DEF Checks
  <1>3. \A k : k \in 1 .. 2 <=> k = 1 \/ k = 2
    OBVIOUS
  <1> HIDE DEF s
  <1>4. \A v : Failing(s, v) <=> ((a /\ v = x) \/ (b /\ v = y))
    BY <1>1, <1>2, <1>3 DEF Failing
  <1>5. Failed(s) <=> (a \/ b)
    BY <1>1, <1>2, <1>3 DEF Failed
  <1> QED BY <1>2, <1>4, <1>5 DEF s, p, q

\* Three.
LEMMA ThreeChecks ==
    ASSUME NEW a \in BOOLEAN, NEW x \in Refusals,
           NEW b \in BOOLEAN, NEW y \in Refusals,
           NEW c \in BOOLEAN, NEW z \in Refusals
    PROVE  /\ << <<a, x>>, <<b, y>>, <<c, z>> >> \in Checks
           /\ \A v : Failing(<< <<a, x>>, <<b, y>>, <<c, z>> >>, v) <=>
                       ((a /\ v = x) \/ (b /\ v = y) \/ (c /\ v = z))
           /\ Failed(<< <<a, x>>, <<b, y>>, <<c, z>> >>) <=> (a \/ b \/ c)
  <1> DEFINE p == <<a, x>>
             q == <<b, y>>
             r == <<c, z>>
             s == <<p, q, r>>
  <1>1. /\ p \in BOOLEAN \X Refusals /\ (p[1] <=> a) /\ p[2] = x
        /\ q \in BOOLEAN \X Refusals /\ (q[1] <=> b) /\ q[2] = y
        /\ r \in BOOLEAN \X Refusals /\ (r[1] <=> c) /\ r[2] = z
    OBVIOUS
  <1> HIDE DEF p, q, r
  <1>2. s \in Checks /\ DOMAIN s = 1 .. 3 /\ s[1] = p /\ s[2] = q /\ s[3] = r
    BY <1>1 DEF Checks
  <1>3. \A k : k \in 1 .. 3 <=> k = 1 \/ k = 2 \/ k = 3
    OBVIOUS
  <1> HIDE DEF s
  <1>4. \A v : Failing(s, v) <=> ((a /\ v = x) \/ (b /\ v = y) \/ (c /\ v = z))
    BY <1>1, <1>2, <1>3 DEF Failing
  <1>5. Failed(s) <=> (a \/ b \/ c)
    BY <1>1, <1>2, <1>3 DEF Failed
  <1> QED BY <1>2, <1>4, <1>5 DEF s, p, q, r

\* More than three: the first three, and the rest.
LEMMA MoreChecks ==
    ASSUME NEW s \in Checks, NEW t \in Checks
    PROVE  /\ s \o t \in Checks
           /\ \A v : Failing(s \o t, v) <=> (Failing(s, v) \/ Failing(t, v))
           /\ Failed(s \o t) <=> (Failed(s) \/ Failed(t))
  <1>1. s \o t \in Checks /\ Len(s \o t) = Len(s) + Len(t)
    BY DEF Checks
  <1>2. \A k \in DOMAIN s : k \in DOMAIN (s \o t) /\ (s \o t)[k] = s[k]
    BY DEF Checks
  <1>3. \A k \in DOMAIN t : Len(s) + k \in DOMAIN (s \o t) /\ (s \o t)[Len(s) + k] = t[k]
    BY DEF Checks
  <1>4. \A k \in DOMAIN (s \o t) : \/ k \in DOMAIN s /\ (s \o t)[k] = s[k]
                                   \/ k - Len(s) \in DOMAIN t /\ (s \o t)[k] = t[k - Len(s)]
    BY DEF Checks
  <1>5. \A v : Failing(s \o t, v) <=> (Failing(s, v) \/ Failing(t, v))
    <2> SUFFICES ASSUME NEW v PROVE Failing(s \o t, v) <=> (Failing(s, v) \/ Failing(t, v))
      OBVIOUS
    <2>1. ASSUME Failing(s, v) PROVE Failing(s \o t, v)
      BY <1>2, <2>1 DEF Failing
    <2>3. ASSUME Failing(t, v) PROVE Failing(s \o t, v)
      <3>1. PICK k \in DOMAIN t : t[k][1] /\ t[k][2] = v
        BY <2>3 DEF Failing
      <3> QED BY <1>3, <3>1 DEF Failing
    <2>2. Failing(s \o t, v) => Failing(s, v) \/ Failing(t, v)
      BY <1>4 DEF Failing
    <2> QED BY <2>1, <2>2, <2>3
  <1>6. Failed(s \o t) <=> (Failed(s) \/ Failed(t))
    BY <1>2, <1>3, <1>4 DEF Failed
  <1> QED BY <1>1, <1>5, <1>6

----------------------------------------------------------------------------
(***************************************************************************)
(* What the verdict of each command says of the window.                    *)
(***************************************************************************)
ScoreRow == [id : Ids, names : SUBSET SignalNames, score : Nat]

ClusterRow == {c \in [representative : Ids, members : SUBSET Ids] : c.representative \in c.members}

WindowFiles ==
    [ records : File(Ids),
      manifest : [there : BOOLEAN, dedupe : BOOLEAN, sources : SUBSET Sources],
      scores : File(ScoreRow),
      clusters : File(ClusterRow) ]

\* What the readers look at is there or not, torn or not.
LEMMA FilesTyped ==
    ASSUME NEW f \in WindowFiles
    PROVE  /\ f.records.there \in BOOLEAN /\ f.records.torn \in BOOLEAN
           /\ f.records.rows \in Seq(Ids)
           /\ f.manifest.there \in BOOLEAN /\ f.manifest.dedupe \in BOOLEAN
           /\ f.manifest.sources \in SUBSET Sources
           /\ f.scores.there \in BOOLEAN /\ f.scores.torn \in BOOLEAN
           /\ f.scores.rows \in Seq(ScoreRow)
           /\ f.clusters.there \in BOOLEAN /\ f.clusters.torn \in BOOLEAN
           /\ f.clusters.rows \in Seq(ClusterRow)
  BY DEF WindowFiles, File

\* The two checks every reader of a window makes first.
LEMMA WindowVerdict ==
    ASSUME NEW f \in WindowFiles
    PROVE  /\ Window(f) \in Checks
           /\ \A v : Failing(Window(f), v) => v \in {"ingest", "traceback", "refused"}
           /\ Failed(Window(f)) <=>
                (~f.records.there \/ f.records.torn \/ f.records.rows = << >>)
  <1> DEFINE a == << <<~f.records.there, "ingest">> >>
  <1>1. /\ f.records.there \in BOOLEAN /\ f.records.torn \in BOOLEAN
        /\ (f.records.rows = << >>) \in BOOLEAN /\ (~f.records.there) \in BOOLEAN
    BY FilesTyped
  <1>2. /\ a \in Checks /\ (\A v : Failing(a, v) <=> (~f.records.there /\ v = "ingest"))
        /\ (Failed(a) <=> ~f.records.there)
    BY <1>1, OneCheck, RefusalsNamed
  <1>3. /\ ReadRecords(f) \in Checks
        /\ \A v : Failing(ReadRecords(f), v) <=>
             ((f.records.torn /\ v = "traceback") \/ (f.records.rows = << >> /\ v = "refused"))
        /\ Failed(ReadRecords(f)) <=> (f.records.torn \/ f.records.rows = << >>)
    <2> DEFINE p == f.records.torn
               q == f.records.rows = << >>
               s == << <<p, "traceback">>, <<q, "refused">> >>
    <2>1. ReadRecords(f) = s
      BY DEF ReadRecords
    <2>2. p \in BOOLEAN /\ q \in BOOLEAN
      BY <1>1
    <2> HIDE DEF p, q
    <2>3. /\ s \in Checks
          /\ \A v : Failing(s, v) <=> ((p /\ v = "traceback") \/ (q /\ v = "refused"))
          /\ Failed(s) <=> (p \/ q)
      BY <2>2, TwoChecks, RefusalsNamed
    <2> HIDE DEF s
    <2> QED BY <2>1, <2>3 DEF p, q
  <1>4. Window(f) = a \o ReadRecords(f)
    BY DEF Window
  <1> HIDE DEF a
  <1>5. /\ a \o ReadRecords(f) \in Checks
        /\ \A v : Failing(a \o ReadRecords(f), v) <=> (Failing(a, v) \/ Failing(ReadRecords(f), v))
        /\ Failed(a \o ReadRecords(f)) <=> (Failed(a) \/ Failed(ReadRecords(f)))
    BY <1>2, <1>3, MoreChecks
  <1> QED BY <1>2, <1>3, <1>4, <1>5

\* A verdict is "ok" or that of a check that fails, if none of those says "ok".
LEMMA VerdictIn ==
    ASSUME NEW checks \in Checks, NEW V, \A v : Failing(checks, v) => v \in V, "ok" \notin V
    PROVE  /\ Verdict(checks) \in V \cup {"ok"}
           /\ Verdict(checks) = "ok" <=> ~Failed(checks)
  BY VerdictOf

\* score goes on over a window with records and a manifest.
LEMMA ScoreVerdict ==
    ASSUME NEW f \in WindowFiles
    PROVE  /\ Verdict(ScoreChecks(f)) \in Refusals \cup {"ok"}
           /\ Verdict(ScoreChecks(f)) # "impossible"
           /\ Verdict(ScoreChecks(f)) = "ok" =>
                f.records.rows # << >> /\ f.manifest.there
  <1> DEFINE a == << <<~f.manifest.there, "refused">> >>
  <1>1. (~f.manifest.there) \in BOOLEAN
    BY FilesTyped
  <1>2. /\ a \in Checks /\ (\A v : Failing(a, v) <=> (~f.manifest.there /\ v = "refused"))
        /\ (Failed(a) <=> ~f.manifest.there)
    BY <1>1, OneCheck, RefusalsNamed
  <1>3. ScoreChecks(f) = Window(f) \o a
    BY DEF ScoreChecks
  <1> HIDE DEF a
  <1>4. /\ ScoreChecks(f) \in Checks
        /\ \A v : Failing(ScoreChecks(f), v) => v \in {"ingest", "traceback", "refused"}
        /\ ~Failed(ScoreChecks(f)) => f.records.rows # << >> /\ f.manifest.there
    BY <1>2, <1>3, WindowVerdict, MoreChecks
  <1>5. "ok" \notin {"ingest", "traceback", "refused"}
    OBVIOUS
  <1>6. /\ Verdict(ScoreChecks(f)) \in {"ingest", "traceback", "refused"} \cup {"ok"}
        /\ Verdict(ScoreChecks(f)) = "ok" <=> ~Failed(ScoreChecks(f))
    BY <1>4, <1>5, VerdictIn
  <1> QED BY <1>4, <1>6 DEF Refusals

\* cluster goes on over a window with records.
LEMMA ClusterVerdict ==
    ASSUME NEW f \in WindowFiles
    PROVE  /\ Verdict(ClusterChecks(f)) \in Refusals \cup {"ok"}
           /\ Verdict(ClusterChecks(f)) # "impossible"
           /\ Verdict(ClusterChecks(f)) = "ok" => f.records.rows # << >>
  <1> DEFINE a == << <<~f.scores.there, "score">>, <<f.scores.torn, "refused">>,
                     <<~IsInjective(f.records.rows), "refused">> >>
             V == {"ingest", "traceback", "refused", "score"}
  <1>1. /\ (~f.scores.there) \in BOOLEAN /\ f.scores.torn \in BOOLEAN
        /\ (~IsInjective(f.records.rows)) \in BOOLEAN
    BY FilesTyped
  <1>2. /\ a \in Checks
        /\ \A v : Failing(a, v) => v \in V
    <2> DEFINE p == ~f.scores.there
               q == f.scores.torn
               r == ~IsInjective(f.records.rows)
    <2>1. p \in BOOLEAN /\ q \in BOOLEAN /\ r \in BOOLEAN
      BY <1>1
    <2>2. a = << <<p, "score">>, <<q, "refused">>, <<r, "refused">> >>
      OBVIOUS
    <2> HIDE DEF p, q, r, a
    <2> QED BY <2>1, <2>2, ThreeChecks, RefusalsNamed
  <1>3. ClusterChecks(f) = Window(f) \o a
    BY DEF ClusterChecks
  <1> HIDE DEF a
  <1>4. /\ ClusterChecks(f) \in Checks
        /\ \A v : Failing(ClusterChecks(f), v) => v \in V
        /\ ~Failed(ClusterChecks(f)) => f.records.rows # << >>
    BY <1>2, <1>3, WindowVerdict, MoreChecks
  <1>5. "ok" \notin V
    OBVIOUS
  <1>6. /\ Verdict(ClusterChecks(f)) \in V \cup {"ok"}
        /\ Verdict(ClusterChecks(f)) = "ok" <=> ~Failed(ClusterChecks(f))
    BY <1>4, <1>5, VerdictIn
  <1> QED BY <1>4, <1>6 DEF Refusals

\* select goes on when the scores are of these records and the clusters of no fewer.
LEMMA SelectVerdict ==
    ASSUME NEW f \in WindowFiles
    PROVE  /\ Verdict(SelectChecks(f)) \in Refusals \cup {"ok"}
           /\ Verdict(SelectChecks(f)) # "impossible"
           /\ Verdict(SelectChecks(f)) = "ok" =>
                /\ f.scores.there /\ ~f.scores.torn
                /\ ScoredIds(f) = Held(f)
                /\ Held(f) \subseteq Clustered(f)
  <1> DEFINE a == << <<f.records.torn, "traceback">>, <<f.records.rows = << >>, "ingest">> >>
             V == {"ingest", "traceback", "refused", "score", "cluster"}
  <1>1. /\ f.records.torn \in BOOLEAN /\ (f.records.rows = << >>) \in BOOLEAN
        /\ (~f.scores.there \/ f.scores.torn) \in BOOLEAN /\ (~f.clusters.there) \in BOOLEAN
        /\ (~(ScoredIds(f) \subseteq Held(f))) \in BOOLEAN
        /\ (~(Held(f) \subseteq ScoredIds(f))) \in BOOLEAN
        /\ (~(Held(f) \subseteq Clustered(f))) \in BOOLEAN
    BY FilesTyped
  <1>2. a \in Checks /\ \A v : Failing(a, v) => v \in V
    <2> DEFINE p == f.records.torn
               q == f.records.rows = << >>
    <2>1. p \in BOOLEAN /\ q \in BOOLEAN
      BY <1>1
    <2>2. a = << <<p, "traceback">>, <<q, "ingest">> >>
      OBVIOUS
    <2> HIDE DEF p, q, a
    <2> QED BY <2>1, <2>2, TwoChecks, RefusalsNamed
  <1>3. /\ ScoredRows(f) \in Checks
        /\ \A v : Failing(ScoredRows(f), v) => v \in V
        /\ Failed(ScoredRows(f)) <=>
             \/ ~f.scores.there \/ f.scores.torn
             \/ ~(ScoredIds(f) \subseteq Held(f))
             \/ ~(Held(f) \subseteq ScoredIds(f))
    <2> DEFINE p == ~f.scores.there \/ f.scores.torn
               q == ~(ScoredIds(f) \subseteq Held(f))
               r == ~(Held(f) \subseteq ScoredIds(f))
               s == << <<p, "refused">>, <<q, "score">>, <<r, "score">> >>
    <2>1. p \in BOOLEAN /\ q \in BOOLEAN /\ r \in BOOLEAN
      BY <1>1
    <2>2. ScoredRows(f) = s
      BY DEF ScoredRows
    <2> HIDE DEF p, q, r
    <2>3. s \in Checks /\ (\A v : Failing(s, v) => v \in V) /\ (Failed(s) <=> (p \/ q \/ r))
      BY <2>1, ThreeChecks, RefusalsNamed
    <2> HIDE DEF s, V
    <2> QED BY <2>2, <2>3 DEF p, q, r
  <1>4. /\ ClusterIndex(f) \in Checks
        /\ \A v : Failing(ClusterIndex(f), v) => v \in V
        /\ Failed(ClusterIndex(f)) <=> (~f.clusters.there \/ ~(Held(f) \subseteq Clustered(f)))
    <2> DEFINE p == ~f.clusters.there
               q == ~(Held(f) \subseteq Clustered(f))
               s == << <<p, "cluster">>, <<q, "cluster">> >>
    <2>1. p \in BOOLEAN /\ q \in BOOLEAN
      BY <1>1
    <2>2. ClusterIndex(f) = s
      BY DEF ClusterIndex
    <2> HIDE DEF p, q
    <2>3. s \in Checks /\ (\A v : Failing(s, v) => v \in V) /\ (Failed(s) <=> (p \/ q))
      BY <2>1, TwoChecks, RefusalsNamed
    <2> HIDE DEF s, V
    <2> QED BY <2>2, <2>3 DEF p, q
  <1>5. SelectChecks(f) = (a \o ScoredRows(f)) \o ClusterIndex(f)
    <2>1. \A s, t, u \in Checks : s \o (t \o u) = (s \o t) \o u
      BY DEF Checks
    <2> HIDE DEF V
    <2> QED BY <1>2, <1>3, <1>4, <2>1 DEF SelectChecks
  <1> HIDE DEF a
  <1>6. /\ a \o ScoredRows(f) \in Checks
        /\ \A v : Failing(a \o ScoredRows(f), v) => v \in V
        /\ Failed(a \o ScoredRows(f)) <=> (Failed(a) \/ Failed(ScoredRows(f)))
    BY <1>2, <1>3, MoreChecks
  <1>7. /\ SelectChecks(f) \in Checks
        /\ \A v : Failing(SelectChecks(f), v) => v \in V
        /\ Failed(SelectChecks(f)) <=> (Failed(a) \/ Failed(ScoredRows(f)) \/ Failed(ClusterIndex(f)))
    BY <1>4, <1>5, <1>6, MoreChecks
  <1>8. "ok" \notin V
    OBVIOUS
  <1>9. /\ Verdict(SelectChecks(f)) \in V \cup {"ok"}
        /\ Verdict(SelectChecks(f)) = "ok" <=> ~Failed(SelectChecks(f))
    BY <1>7, <1>8, VerdictIn
  <1>10. Verdict(SelectChecks(f)) = "ok" => ~Failed(ScoredRows(f)) /\ ~Failed(ClusterIndex(f))
    BY <1>7, <1>9
  <1>11. Verdict(SelectChecks(f)) = "ok" =>
           /\ f.scores.there /\ ~f.scores.torn
           /\ ScoredIds(f) = Held(f)
           /\ Held(f) \subseteq Clustered(f)
    BY <1>3, <1>4, <1>10
  <1>12. Verdict(SelectChecks(f)) \in Refusals \cup {"ok"} /\ Verdict(SelectChecks(f)) # "impossible"
    BY <1>9 DEF Refusals
  <1> QED BY <1>11, <1>12

\* health goes on over a window that is scored.
LEMMA HealthVerdict ==
    ASSUME NEW f \in WindowFiles
    PROVE  /\ Verdict(HealthChecks(f)) \in Refusals \cup {"ok"}
           /\ Verdict(HealthChecks(f)) # "impossible"
  <1> DEFINE a == << <<~f.clusters.there, "cluster">>, <<~f.scores.there \/ f.scores.torn, "refused">> >>
             V == {"ingest", "traceback", "refused", "cluster"}
  <1>1. (~f.scores.there \/ f.scores.torn) \in BOOLEAN /\ (~f.clusters.there) \in BOOLEAN
    BY FilesTyped
  <1>2. a \in Checks /\ \A v : Failing(a, v) => v \in V
    <2> DEFINE p == ~f.clusters.there
               q == ~f.scores.there \/ f.scores.torn
    <2>1. p \in BOOLEAN /\ q \in BOOLEAN
      BY <1>1
    <2>2. a = << <<p, "cluster">>, <<q, "refused">> >>
      OBVIOUS
    <2> HIDE DEF p, q, a
    <2> QED BY <2>1, <2>2, TwoChecks, RefusalsNamed
  <1>3. HealthChecks(f) = Window(f) \o a
    BY DEF HealthChecks
  <1> HIDE DEF a
  <1>4. HealthChecks(f) \in Checks /\ \A v : Failing(HealthChecks(f), v) => v \in V
    BY <1>2, <1>3, WindowVerdict, MoreChecks
  <1>5. "ok" \notin V
    OBVIOUS
  <1>6. Verdict(HealthChecks(f)) \in V \cup {"ok"}
    BY <1>4, <1>5, VerdictIn
  <1> QED BY <1>6 DEF Refusals

\* Drift meets the impossible only in a signal with more records than the window,
\* and goes on only where the clusters speak of the window.
LEMMA DriftVerdict ==
    ASSUME NEW f \in WindowFiles, NEW g \in WindowFiles
    PROVE  /\ Verdict(DriftChecks(f, g)) \in Refusals \cup {"ok"}
           /\ Verdict(DriftChecks(f, g)) = "impossible" =>
                \E s \in SignalNames : \E h \in {f, g} : Fired(h, s) > Len(h.records.rows)
           /\ Verdict(DriftChecks(f, g)) = "ok" =>
                \A c \in ToSet(g.clusters.rows) : c.representative \in Held(g)
  <1> DEFINE V == {"ingest", "traceback", "refused", "score", "cluster"}
             b(h) == << <<~h.scores.there, "score">>, <<~h.clusters.there, "cluster">>,
                        <<h.scores.torn, "refused">> >>
             more == \E s \in SignalNames : \E h \in {f, g} : Fired(h, s) > Len(h.records.rows)
             gone == \E c \in ToSet(g.clusters.rows) : c.representative \notin Held(g)
             a == << <<more, "impossible">>, <<gone, "cluster">> >>
  <1>1. \A h \in WindowFiles : DriftWindow(h) \in Checks /\ \A v : Failing(DriftWindow(h), v) => v \in V
    <2> SUFFICES ASSUME NEW h \in WindowFiles
                 PROVE  DriftWindow(h) \in Checks /\ \A v : Failing(DriftWindow(h), v) => v \in V
      OBVIOUS
    <2> HIDE DEF a, more, gone
    <2>1. (~h.scores.there) \in BOOLEAN /\ (~h.clusters.there) \in BOOLEAN /\ h.scores.torn \in BOOLEAN
      BY FilesTyped
    <2>2. b(h) \in Checks /\ \A v : Failing(b(h), v) => v \in V
      <3> DEFINE p == ~h.scores.there
                 q == ~h.clusters.there
                 r == h.scores.torn
      <3>1. p \in BOOLEAN /\ q \in BOOLEAN /\ r \in BOOLEAN
        BY <2>1
      <3>2. b(h) = << <<p, "score">>, <<q, "cluster">>, <<r, "refused">> >>
        OBVIOUS
      <3> HIDE DEF p, q, r, b
      <3> QED BY <3>1, <3>2, ThreeChecks, RefusalsNamed
    <2>3. DriftWindow(h) = Window(h) \o b(h)
      BY DEF DriftWindow
    <2> HIDE DEF b
    <2> QED BY <2>2, <2>3, WindowVerdict, MoreChecks
  <1>2. more \in BOOLEAN /\ gone \in BOOLEAN
    OBVIOUS
  <1>3. DriftChecks(f, g) = (DriftWindow(f) \o DriftWindow(g)) \o a
        \/ DriftChecks(f, g) = DriftWindow(f) \o (DriftWindow(g) \o a)
    BY DEF DriftChecks
  <1> HIDE DEF more, gone
  <1>4. /\ a \in Checks
        /\ \A v : Failing(a, v) <=> ((more /\ v = "impossible") \/ (gone /\ v = "cluster"))
        /\ Failed(a) <=> (more \/ gone)
    BY <1>2, TwoChecks, RefusalsNamed
  <1>5. DriftChecks(f, g) = (DriftWindow(f) \o DriftWindow(g)) \o a
    <2>1. \A s, t, u \in Checks : s \o (t \o u) = (s \o t) \o u
      BY DEF Checks
    <2> HIDE DEF V, a
    <2> QED BY <1>1, <1>3, <1>4, <2>1
  <1> HIDE DEF a, b
  <1>6. /\ DriftWindow(f) \o DriftWindow(g) \in Checks
        /\ \A v : Failing(DriftWindow(f) \o DriftWindow(g), v) => v \in V
    BY <1>1, MoreChecks
  <1>7. /\ DriftChecks(f, g) \in Checks
        /\ \A v : Failing(DriftChecks(f, g), v) => v \in V \/ (more /\ v = "impossible")
        /\ Failed(a) => Failed(DriftChecks(f, g))
    BY <1>4, <1>5, <1>6, MoreChecks
  <1>8. "ok" \notin Refusals /\ \A v : Failing(DriftChecks(f, g), v) => v \in Refusals
    BY <1>7 DEF Refusals
  <1>9. /\ Verdict(DriftChecks(f, g)) \in Refusals \cup {"ok"}
        /\ Verdict(DriftChecks(f, g)) = "ok" <=> ~Failed(DriftChecks(f, g))
    BY <1>7, <1>8, VerdictIn
  <1>10. Verdict(DriftChecks(f, g)) = "impossible" => more
    BY <1>7, VerdictOf
  <1>11. Verdict(DriftChecks(f, g)) = "ok" => ~gone
    BY <1>4, <1>7, <1>9
  <1> QED BY <1>9, <1>10, <1>11 DEF more, gone

----------------------------------------------------------------------------
(***************************************************************************)
(* Sequences as sets, and what the stages write.                           *)
(***************************************************************************)
LEMMA UpToFinite ==
    ASSUME NEW n \in Nat
    PROVE  IsFiniteSet(1 .. n) /\ Cardinality(1 .. n) = n
  <1>1. 1 \in Int /\ n \in Int /\ (IF 1 > n THEN 0 ELSE n - 1 + 1) = n
    OBVIOUS
  <1> QED BY <1>1, FS_Interval

\* A file of n rows holds n different ones at most.
LEMMA ToSetFinite ==
    ASSUME NEW S, NEW s \in Seq(S)
    PROVE  /\ IsFiniteSet(ToSet(s)) /\ ToSet(s) \subseteq S
           /\ Cardinality(ToSet(s)) \in Nat /\ Cardinality(ToSet(s)) <= Len(s)
  <1>1. s \in Surjection(1 .. Len(s), ToSet(s)) /\ Len(s) \in Nat /\ ToSet(s) \subseteq S
    BY DEF ToSet, Surjection
  <1>2. IsFiniteSet(1 .. Len(s)) /\ Cardinality(1 .. Len(s)) = Len(s)
    BY <1>1, UpToFinite
  <1> QED BY <1>1, <1>2, FS_Surjection, FS_CardinalityType

\* A finite set in some order: its elements, once each.
LEMMA SetToSeqOf ==
    ASSUME NEW S, IsFiniteSet(S)
    PROVE  SetToSeq(S) \in Seq(S) /\ ToSet(SetToSeq(S)) = S
  <1> DEFINE n == Cardinality(S)
             s == SetToSeq(S)
  <1>1. n \in Nat /\ ExistsBijection(1 .. n, S)
    BY FS_CardinalityType
  <1>2. PICK f \in [1 .. n -> S] : IsInjective(f)
    BY <1>1 DEF ExistsBijection, Bijection, Injection, IsInjective
  <1>3. s \in [1 .. n -> S] /\ IsInjective(s)
    BY <1>2 DEF SetToSeq
  <1>4. s \in Injection(1 .. n, S)
    BY <1>3 DEF Injection, IsInjective
  <1>5. Cardinality(1 .. n) = n
    BY <1>1, UpToFinite
  <1> HIDE DEF s
  <1>6. s \in Surjection(1 .. n, S)
    <2> HIDE DEF n
    <2> QED BY <1>4, <1>5, FS_Injection DEF n
  <1>7. ToSet(s) = S
    BY <1>3, <1>6 DEF ToSet, Surjection
  <1>8. s \in Seq(S)
    <2> HIDE DEF n
    <2> QED BY <1>1, <1>3
  <1> QED BY <1>7, <1>8 DEF s

\* The rows of two files one after the other.
LEMMA ToSetAppended ==
    ASSUME NEW S, NEW s \in Seq(S), NEW t \in Seq(S)
    PROVE  ToSet(s \o t) = ToSet(s) \cup ToSet(t)
  <1>1. s \o t \in Seq(S) /\ Len(s \o t) = Len(s) + Len(t)
    OBVIOUS
  <1>2. \A k \in 1 .. Len(s) : k \in 1 .. Len(s \o t) /\ (s \o t)[k] = s[k]
    OBVIOUS
  <1>3. \A k \in 1 .. Len(t) : Len(s) + k \in 1 .. Len(s \o t) /\ (s \o t)[Len(s) + k] = t[k]
    OBVIOUS
  <1>4. \A k \in 1 .. Len(s \o t) :
          \/ k \in 1 .. Len(s) /\ (s \o t)[k] = s[k]
          \/ k - Len(s) \in 1 .. Len(t) /\ (s \o t)[k] = t[k - Len(s)]
    OBVIOUS
  <1>5. DOMAIN s = 1 .. Len(s) /\ DOMAIN t = 1 .. Len(t) /\ DOMAIN (s \o t) = 1 .. Len(s \o t)
    BY <1>1
  <1>6. ASSUME NEW x PROVE x \in ToSet(s \o t) <=> x \in ToSet(s) \cup ToSet(t)
    <2>1. ASSUME x \in ToSet(s \o t) PROVE x \in ToSet(s) \cup ToSet(t)
      BY <1>4, <1>5, <2>1 DEF ToSet
    <2>2. ASSUME x \in ToSet(s) PROVE x \in ToSet(s \o t)
      BY <1>2, <1>5, <2>2 DEF ToSet
    <2>3. ASSUME x \in ToSet(t) PROVE x \in ToSet(s \o t)
      <3>1. PICK k \in 1 .. Len(t) : t[k] = x
        BY <1>5, <2>3 DEF ToSet
      <3> QED BY <1>3, <1>5, <3>1 DEF ToSet
    <2> QED BY <2>1, <2>2, <2>3
  <1> QED BY <1>6

\* The records a run keeps are records.
LEMMA KeptTyped ==
    ASSUME NEW f \in WindowFiles, NEW s \in Sources
    PROVE  Kept(f, s) \in Seq(Ids)
  <1> DEFINE in == Log[s].records
             New(i) == Log[s].dedupe => \A j \in Held(f) : Facts[i].question # Facts[j].question
             N == Len(in)
             h == [d \in Nat \X Seq(Ids) |->
                     IF d[1] + 1 \in 1 .. N /\ New(in[d[1] + 1])
                     THEN Append(d[2], in[d[1] + 1]) ELSE d[2]]
             Keeps(c) == c = [k \in 0 .. N |->
                     IF k = 0 THEN << >> ELSE IF New(in[k]) THEN Append(c[k - 1], in[k]) ELSE c[k - 1]]
  <1>1. in \in Seq(Ids) /\ N \in Nat
    BY SourcesAssumption
  <1>2. h \in [Nat \X Seq(Ids) -> Seq(Ids)]
    <2> HIDE DEF in, New
    <2>1. \A k \in 1 .. N : in[k] \in Ids
      BY <1>1
    <2> QED BY <2>1
  <1>3. Kept(f, s) = (CHOOSE c : Keeps(c))[N]
    BY DEF Kept
  <1> HIDE DEF in, New
  <1>4. PICK c \in [Nat -> Seq(Ids)] : c[0] = << >> /\ \A n \in Nat : c[n + 1] = h[<<n, c[n]>>]
    <2> HIDE DEF h
    <2>1. << >> \in Seq(Ids)
      OBVIOUS
    <2>2. \E c \in [Nat -> Seq(Ids)] : Continues(c, << >>, h)
      BY <1>2, <2>1, Recursion
    <2> QED BY <2>2 DEF Continues
  <1> HIDE DEF N
  <1>5. \A k \in 1 .. N : c[k] = IF New(in[k]) THEN Append(c[k - 1], in[k]) ELSE c[k - 1]
    <2> TAKE k \in 1 .. N
    <2>1. k - 1 \in Nat /\ (k - 1) + 1 = k /\ c[k - 1] \in Seq(Ids)
      BY <1>1
    <2>2. c[(k - 1) + 1] = h[<<k - 1, c[k - 1]>>]
      <3> HIDE DEF h
      <3> QED BY <1>4, <2>1
    <2> QED BY <2>1, <2>2
  <1>6. Keeps([k \in 0 .. N |-> c[k]])
    <2>1. \A k \in 0 .. N : k = 0 \/ (k \in 1 .. N /\ k # 0 /\ k - 1 \in 0 .. N)
      BY <1>1
    <2>2. c[0] = << >>
      BY <1>4
    <2> HIDE DEF h
    <2> QED BY <1>5, <2>1, <2>2
  <1> DEFINE d == CHOOSE x : Keeps(x)
  <1>7. Keeps(d)
    <2> HIDE DEF Keeps
    <2> QED BY <1>6
  <1> HIDE DEF d
  <1>8. \A n \in Nat : n <= N => d[n] \in Seq(Ids)
    <2> DEFINE G == {n \in Nat : n <= N => d[n] \in Seq(Ids)}
    <2>1. 0 \in G
      BY <1>1, <1>7
    <2>2. ASSUME NEW n \in Nat, n \in G PROVE n + 1 \in G
      <3>1. CASE ~(n + 1 <= N)
        BY <3>1
      <3>2. CASE n + 1 <= N
        <4>1. n + 1 \in 1 .. N /\ n + 1 \in 0 .. N /\ n + 1 # 0 /\ (n + 1) - 1 = n /\ n <= N
          BY <1>1, <3>2
        <4>2. d[n + 1] = IF New(in[n + 1]) THEN Append(d[n], in[n + 1]) ELSE d[n]
          BY <1>7, <4>1
        <4>3. d[n] \in Seq(Ids) /\ in[n + 1] \in Ids
          <5>1. \A k \in 1 .. N : in[k] \in Ids
            BY <1>1 DEF N
          <5> QED BY <2>2, <4>1, <5>1
        <4>4. d[n + 1] \in Seq(Ids)
          BY <4>2, <4>3
        <4> QED BY <4>4
      <3> QED BY <3>1, <3>2
    <2> HIDE DEF G
    <2>3. \A n \in Nat : n \in G
      BY <2>1, <2>2, NumberInduction
    <2> QED BY <2>3 DEF G
  <1>9. Kept(f, s) = d[N]
    BY <1>3 DEF d
  <1> QED BY <1>1, <1>8, <1>9

\* There are thirteen signals.
LEMMA SignalsFinite == IsFiniteSet(SignalNames)
  <1> DEFINE A == {"error"} \cup {"judge_failure"} \cup {"negative_feedback"}
             B == A \cup {"feedback_conflict"} \cup {"version_disagreement"} \cup {"novelty"}
             C == B \cup {"format_violation"} \cup {"latency_outlier"} \cup {"length_outlier"}
             D == C \cup {"injection_pattern"} \cup {"refusal_pattern"}
             E == D \cup {"non_ascii_ratio"} \cup {"tiny_input"}
  <1>1. SignalNames = E
    BY DEF SignalNames, Patterns
  <1>2. IsFiniteSet(A)
    BY FS_Singleton, FS_AddElement
  <1> HIDE DEF A
  <1>3. IsFiniteSet(B)
    BY <1>2, FS_AddElement
  <1> HIDE DEF B
  <1>4. IsFiniteSet(C)
    BY <1>3, FS_AddElement
  <1> HIDE DEF C
  <1>5. IsFiniteSet(D)
    BY <1>4, FS_AddElement
  <1> HIDE DEF D
  <1>6. IsFiniteSet(E)
    BY <1>5, FS_AddElement
  <1> QED BY <1>1, <1>6

\* A score is a number.
LEMMA RowTyped ==
    ASSUME NEW i \in Ids, NEW c
    PROVE  /\ Row(i, c) \in ScoreRow
           /\ Row(i, c).id = i
           /\ Row(i, c).names = {s \in SignalNames : Fires(i, c)[s]}
  <1> DEFINE fired == {s \in SignalNames : Fires(i, c)[s]}
             weighed == [s \in SignalNames |-> {s} \X (1 .. Weight[s])]
             all == UNION {weighed[s] : s \in SignalNames}
             points == UNION {{s} \X (1 .. Weight[s]) : s \in fired}
  <1>1. IsFiniteSet({weighed[s] : s \in SignalNames})
    <2>1. weighed \in Surjection(SignalNames, {weighed[s] : s \in SignalNames})
      BY DEF Surjection
    <2> QED BY <2>1, SignalsFinite, FS_Surjection
  <1>2. \A T \in {weighed[s] : s \in SignalNames} : IsFiniteSet(T)
    <2> SUFFICES ASSUME NEW s \in SignalNames PROVE IsFiniteSet({s} \X (1 .. Weight[s]))
      OBVIOUS
    <2>1. Weight[s] \in Nat
      BY WeightAssumption
    <2>2. IsFiniteSet({s}) /\ IsFiniteSet(1 .. Weight[s])
      BY <2>1, FS_Singleton, UpToFinite
    <2> QED BY <2>2, FS_Product
  <1>3. IsFiniteSet(all)
    <2> HIDE DEF weighed
    <2> QED BY <1>1, <1>2, FS_UNION
  <1>4. points \in SUBSET all
    <2>1. \A s \in fired : s \in SignalNames /\ {s} \X (1 .. Weight[s]) = weighed[s]
      OBVIOUS
    <2> HIDE DEF fired, weighed
    <2> QED BY <2>1
  <1>5. Cardinality(points) \in Nat
    <2> HIDE DEF points, all
    <2> QED BY <1>3, <1>4, FS_Subset, FS_CardinalityType
  <1>6. Row(i, c) = [id |-> i, names |-> fired, score |-> Cardinality(points)]
    BY DEF Row
  <1> HIDE DEF points
  <1> QED BY <1>5, <1>6 DEF ScoreRow

\* What a record fires by itself, read off a context that says nothing.
OwnOf(i) == {s \in Own : Fires(i, Context(<< >>, TRUE, {}, None))[s]}

\* No window adds to these signals or takes from them.
LEMMA OwnNames ==
    ASSUME NEW i \in Ids, NEW c
    PROVE  /\ Row(i, c).names \cap Own = OwnOf(i)
           /\ "error" \in OwnOf(i) <=> Facts[i].failed
  <1> DEFINE d == Context(<< >>, TRUE, {}, None)
  <1>1. Row(i, c).names = {s \in SignalNames : Fires(i, c)[s]}
    BY RowTyped
  <1>2. Own \subseteq SignalNames /\ "error" \in Own
    BY DEF Own, SignalNames
  <1>3. OwnOf(i) = {s \in Own : Fires(i, d)[s]}
    BY DEF OwnOf
  <1> HIDE DEF d
  <1>4. ASSUME NEW s \in Own PROVE Fires(i, c)[s] = Fires(i, d)[s]
    BY DEF Fires, Own, Patterns
  <1>5. Fires(i, d)["error"] = Facts[i].failed
    BY DEF Fires
  <1> QED BY <1>1, <1>2, <1>3, <1>4, <1>5

----------------------------------------------------------------------------
(***************************************************************************)
(* The clusters of a window, where every pair at the threshold is merged.  *)
(***************************************************************************)
LEMMA MaxIn ==
    ASSUME NEW S \in SUBSET Nat, IsFiniteSet(S), S # {}
    PROVE  Max(S) \in S /\ \A x \in S : Max(S) >= x
  <1> DEFINE L == {d \in Nat \X Nat : d[1] > d[2]}
  <1>1. /\ \A x \in S : <<x, x>> \notin L
        /\ \A x, y, z \in S : <<x, y>> \in L /\ <<y, z>> \in L => <<x, z>> \in L
    OBVIOUS
  <1>2. \E x \in S : \A y \in S : <<y, x>> \notin L
    <2> HIDE DEF L
    <2> QED BY <1>1, FirstElement
  <1>3. \E x \in S : \A y \in S : x >= y
    <2>1. PICK x \in S : \A y \in S : <<y, x>> \notin L
      BY <1>2
    <2>2. ASSUME NEW y \in S PROVE x >= y
      <3>1. <<y, x>> \notin L /\ x \in Nat /\ y \in Nat
        BY <2>1
      <3> QED BY <3>1
    <2> QED BY <2>2
  <1> QED BY <1>3 DEF Max

\* What scoring writes are rows.
LEMMA ScoreTyped ==
    ASSUME NEW f \in WindowFiles, NEW i \in Ids
    PROVE  ScoreOf(f, i) \in Nat
  <1> DEFINE R == Rows(f, i)
             P == {r.score : r \in R}
             g == [r \in R |-> r.score]
  <1>1. R \in SUBSET ToSet(f.scores.rows) /\ IsFiniteSet(ToSet(f.scores.rows))
        /\ R \subseteq ScoreRow
    BY FilesTyped, ToSetFinite DEF Rows
  <1>2. IsFiniteSet(R)
    <2> HIDE DEF R
    <2> QED BY <1>1, FS_Subset
  <1>3. g \in Surjection(R, P) /\ P \subseteq Nat
    <2> HIDE DEF R
    <2> QED BY <1>1 DEF Surjection, ScoreRow
  <1>4. IsFiniteSet(P)
    <2> HIDE DEF R, P, g
    <2> QED BY <1>2, <1>3, FS_Surjection
  <1>5. {0} \cup P \in SUBSET Nat /\ IsFiniteSet({0} \cup P) /\ {0} \cup P # {}
    <2> HIDE DEF P
    <2>1. IsFiniteSet(P \cup {0})
      BY <1>4, FS_AddElement
    <2>2. P \cup {0} = {0} \cup P /\ {0} \cup P # {}
      OBVIOUS
    <2>3. {0} \cup P \in SUBSET Nat
      BY <1>3
    <2> QED BY <2>1, <2>2, <2>3
  <1>6. ScoreOf(f, i) = Max({0} \cup P)
    BY DEF ScoreOf
  <1> HIDE DEF P
  <1> QED BY <1>5, <1>6, MaxIn

\* The loudest member, the smallest id among equals, is there to speak.
LEMMA RepresentativeIn ==
    ASSUME NEW f \in WindowFiles, NEW m \in SUBSET Ids, IsFiniteSet(m), m # {}
    PROVE  Representative(f, m) \in m
  <1> DEFINE score == [i \in m |-> ScoreOf(f, i)]
             L == {d \in m \X m : \/ score[d[1]] > score[d[2]]
                                  \/ (score[d[1]] = score[d[2]] /\ d[1] < d[2])}
  <1>1. \A i \in m : score[i] \in Nat /\ i \in Nat /\ score[i] = ScoreOf(f, i)
    BY ScoreTyped, IdsAreOrdered
  <1> HIDE DEF score
  <1>2. /\ \A x \in m : <<x, x>> \notin L
        /\ \A x, y, z \in m : <<x, y>> \in L /\ <<y, z>> \in L => <<x, z>> \in L
    <2>1. \A x \in m : <<x, x>> \notin L
      BY <1>1
    <2>2. \A x, y, z \in m : <<x, y>> \in L /\ <<y, z>> \in L => <<x, z>> \in L
      <3> TAKE x, y, z \in m
      <3>1. /\ score[x] \in Nat /\ score[y] \in Nat /\ score[z] \in Nat
            /\ x \in Nat /\ y \in Nat /\ z \in Nat
        BY <1>1
      <3> QED BY <3>1
    <2> QED BY <2>1, <2>2
  <1>3. PICK x \in m : \A y \in m : <<y, x>> \notin L
    <2> HIDE DEF L
    <2> QED BY <1>2, FirstElement
  <1>4. \A y \in m : ScoreOf(f, x) > ScoreOf(f, y) \/ (ScoreOf(f, x) = ScoreOf(f, y) /\ x <= y)
    <2> TAKE y \in m
    <2>1. ~(score[y] > score[x]) /\ ~(score[y] = score[x] /\ y < x)
      BY <1>3
    <2> QED BY <1>1, <2>1
  <1> QED BY <1>4 DEF Representative

\* A text without a word is like no other.
LEMMA EmptyIsAlone ==
    ASSUME NEW i, Facts[i].phrases = {}, NEW j
    PROVE  <<i, j>> \notin Alike
  <1>1. Jaccard(Facts[i].phrases, Facts[j].phrases) = <<0, 1>>
    BY DEF Jaccard
  <1>2. Merge[1] \in Nat \ {0} /\ Merge[2] \in Nat \ {0}
    BY ThresholdsAssumption
  <1>3. ~AtLeast(<<0, 1>>, Merge)
    BY <1>2 DEF AtLeast
  <1> QED BY <1>1, <1>3 DEF Alike

\* The components are disjoint, of the records, and none is empty.
LEMMA ComponentsFit ==
    ASSUME NEW ids \in SUBSET Ids
    PROVE  /\ Components[ids] \subseteq SUBSET ids
           /\ {} \notin Components[ids]
           /\ \A m, n \in Components[ids] : m = n \/ m \cap n = {}
           /\ \A m \in Components[ids] : \A i \in m : Facts[i].phrases = {} => m = {i}
  <1> DEFINE Closed(m) == Alike \cap (m \X (ids \ m)) = {}
             F == {m \in (SUBSET ids) \ {{}} : Closed(m)}
  <1>1. Components[ids] = {m \in F : \A n \in F : n \subseteq m => n = m}
    BY DEF Components
  <1>2. \A m, n \in Components[ids] : m = n \/ m \cap n = {}
    <2> SUFFICES ASSUME NEW m \in Components[ids], NEW n \in Components[ids], m \cap n # {}
                 PROVE  m = n
      OBVIOUS
    <2>1. Closed(m \cap n)
      <3> SUFFICES ASSUME NEW a \in m \cap n, NEW b \in ids \ (m \cap n), <<a, b>> \in Alike
                   PROVE  FALSE
        OBVIOUS
      <3>1. Closed(m) /\ Closed(n)
        BY <1>1
      <3>2. CASE b \notin m
        BY <3>1, <3>2
      <3>3. CASE b \notin n
        BY <3>1, <3>3
      <3> QED BY <3>2, <3>3
    <2> HIDE DEF Closed
    <2>2. m \cap n \in F
      BY <1>1, <2>1
    <2> HIDE DEF F
    <2>3. m \cap n = m /\ m \cap n = n
      <3>1. m \cap n \subseteq m /\ m \cap n \subseteq n
        OBVIOUS
      <3> QED BY <1>1, <2>2, <3>1
    <2> QED BY <2>3
  <1>3. \A m \in Components[ids] : \A i \in m : Facts[i].phrases = {} => m = {i}
    <2> SUFFICES ASSUME NEW m \in Components[ids], NEW i \in m, Facts[i].phrases = {}
                 PROVE  m = {i}
      OBVIOUS
    <2>1. Closed({i})
      <3> SUFFICES ASSUME NEW d \in {i} \X (ids \ {i}), d \in Alike PROVE FALSE
        OBVIOUS
      <3>1. d = <<i, d[2]>>
        OBVIOUS
      <3> QED BY <3>1, EmptyIsAlone
    <2> HIDE DEF Closed
    <2>2. {i} \in F /\ {i} \subseteq m
      BY <1>1, <2>1
    <2> HIDE DEF F
    <2> QED BY <1>1, <2>2
  <1>4. Components[ids] \subseteq SUBSET ids /\ {} \notin Components[ids]
    <2>1. \A m \in F : m \in SUBSET ids /\ m # {}
      OBVIOUS
    <2> HIDE DEF F
    <2>2. \A m \in Components[ids] : m \in F
      BY <1>1
    <2> QED BY <2>1, <2>2
  <1> QED BY <1>2, <1>3, <1>4

\* What cluster writes: each cluster a component, spoken for by a member.
LEMMA PartitionFits ==
    ASSUME NEW f \in WindowFiles
    PROVE  /\ Partition(f) \in Seq(ClusterRow)
           /\ \A c \in ToSet(Partition(f)) :
                /\ c.members \in Components[Held(f)]
                /\ c.representative = Representative(f, c.members)
  <1> DEFINE C == Components[Held(f)]
             row == [m \in C |-> [representative |-> Representative(f, m), members |-> m]]
             S == {row[m] : m \in C}
  <1>1. Held(f) \in SUBSET Ids /\ IsFiniteSet(Held(f))
    BY FilesTyped, ToSetFinite DEF Held
  <1>2. IsFiniteSet(C) /\ C \subseteq SUBSET Held(f) /\ {} \notin C
    <2>1. C \in SUBSET SUBSET Held(f) /\ {} \notin C
      BY <1>1, ComponentsFit
    <2>2. IsFiniteSet(SUBSET Held(f))
      BY <1>1, FS_SUBSET
    <2> HIDE DEF C
    <2> QED BY <2>1, <2>2, FS_Subset
  <1> HIDE DEF C
  <1>3. \A m \in C : m \in SUBSET Ids /\ Representative(f, m) \in m
    <2> SUFFICES ASSUME NEW m \in C PROVE m \in SUBSET Ids /\ Representative(f, m) \in m
      OBVIOUS
    <2>1. m \in SUBSET Ids /\ m # {} /\ m \in SUBSET Held(f)
      BY <1>1, <1>2
    <2>2. IsFiniteSet(m)
      BY <1>1, <2>1, FS_Subset
    <2> QED BY <2>1, <2>2, RepresentativeIn
  <1>4. row \in Surjection(C, S)
    BY DEF Surjection
  <1>5. IsFiniteSet(S)
    <2> HIDE DEF row, S
    <2> QED BY <1>2, <1>4, FS_Surjection
  <1>6. \A c \in S : /\ c \in ClusterRow
                     /\ c.members \in C
                     /\ c.representative = Representative(f, c.members)
    BY <1>3 DEF ClusterRow
  <1>7. Partition(f) = SetToSeq(S)
    <2>1. S = {[representative |-> Representative(f, m), members |-> m] : m \in Components[Held(f)]}
      BY DEF C
    <2> QED BY <2>1 DEF Partition
  <1>8. Partition(f) \in Seq(S) /\ ToSet(Partition(f)) = S
    <2> HIDE DEF S
    <2> QED BY <1>5, <1>7, SetToSeqOf
  <1>9. S \subseteq ClusterRow
    BY <1>6
  <1> HIDE DEF S
  <1>10. Partition(f) \in Seq(ClusterRow)
    BY <1>8, <1>9
  <1> QED BY <1>6, <1>8, <1>10 DEF C

----------------------------------------------------------------------------
(***************************************************************************)
(* The invariant.  A scores file is the start of what scoring the records  *)
(* gives, and all of it when it is as long as they are; each row names the *)
(* signals its record fires by itself; the clusters are apart, of records  *)
(* the window holds, and a text without a word is alone.                   *)
(***************************************************************************)
ScoresFit(f) ==
    /\ Len(f.scores.rows) <= Len(f.records.rows)
    /\ \A k \in DOMAIN f.scores.rows :
         /\ f.scores.rows[k].id = f.records.rows[k]
         /\ f.scores.rows[k].names \cap Own = OwnOf(f.scores.rows[k].id)
    /\ f.scores.there /\ ~f.scores.torn /\ Len(f.scores.rows) = Len(f.records.rows) =>
         \E g \in Existing : f.scores.rows = ScoreRows(f, g)

ClustersFit(f) ==
    /\ \A c \in ToSet(f.clusters.rows) :
         /\ c.members \subseteq Held(f)
         /\ \A i \in c.members : Facts[i].phrases = {} => c.members = {i}
    /\ \A c, d \in ToSet(f.clusters.rows) : c = d \/ c.members \cap d.members = {}

Fits(f) == f \in WindowFiles /\ ScoresFit(f) /\ ClustersFit(f)

Ends == {"ok", "partial", "killed"} \cup (Refusals \ {"impossible"})

PipelineInv ==
    /\ files \in [Windows -> WindowFiles]
    /\ \A w \in Windows : Fits(files[w])
    /\ kills \in 0 .. MaxKills
    /\ last.verdict \in Ends

\* A window replaced by one that fits leaves all fitting.
LEMMA PutKeeps ==
    ASSUME PipelineInv, NEW w \in Windows, NEW f, Fits(f), files' = [files EXCEPT ![w] = f],
           kills' \in 0 .. MaxKills, last'.verdict \in Ends
    PROVE  PipelineInv'
  <1>1. f \in WindowFiles
    BY DEF Fits
  <1>2. files' \in [Windows -> WindowFiles]
    BY <1>1 DEF PipelineInv
  <1>3. ASSUME NEW v \in Windows PROVE Fits(files'[v])
    <2>1. files'[v] = IF v = w THEN f ELSE files[v]
      BY DEF PipelineInv
    <2> QED BY <2>1 DEF PipelineInv
  <1>4. \A v \in Windows : Fits(files[v])'
    <2> SUFFICES ASSUME NEW v \in Windows PROVE Fits(files[v])'
      OBVIOUS
    <2>1. Fits(files'[v])
      BY <1>3
    <2> QED BY <2>1 DEF Fits, ScoresFit, ClustersFit, Held, ScoreRows, Declared
  <1> QED BY <1>2, <1>4 DEF PipelineInv

\* A scores file read back is rows.
LEMMA ScoreRowsTyped ==
    ASSUME NEW f \in WindowFiles, NEW g
    PROVE  /\ ScoreRows(f, g) \in Seq(ScoreRow)
           /\ Len(ScoreRows(f, g)) = Len(f.records.rows)
           /\ \A k \in DOMAIN f.records.rows :
                /\ ScoreRows(f, g)[k].id = f.records.rows[k]
                /\ ScoreRows(f, g)[k].names \cap Own = OwnOf(f.records.rows[k])
  <1> DEFINE c == Context(f.records.rows, f.manifest.dedupe, Declared(f), g)
             rows == f.records.rows
             s == [k \in DOMAIN rows |-> Row(rows[k], c)]
  <1>1. ScoreRows(f, g) = s
    BY DEF ScoreRows
  <1>2. rows \in Seq(Ids)
    BY FilesTyped
  <1> HIDE DEF c, rows
  <1>3. \A k \in DOMAIN rows :
          /\ Row(rows[k], c) \in ScoreRow /\ Row(rows[k], c).id = rows[k]
          /\ Row(rows[k], c).names \cap Own = OwnOf(rows[k])
    <2> SUFFICES ASSUME NEW k \in DOMAIN rows
                 PROVE  /\ Row(rows[k], c) \in ScoreRow /\ Row(rows[k], c).id = rows[k]
                        /\ Row(rows[k], c).names \cap Own = OwnOf(rows[k])
      OBVIOUS
    <2>1. rows[k] \in Ids
      BY <1>2
    <2> QED BY <2>1, RowTyped, OwnNames
  <1>4. DOMAIN rows = 1 .. Len(rows) /\ Len(rows) \in Nat
    BY <1>2
  <1>5. s \in Seq(ScoreRow) /\ Len(s) = Len(rows)
    BY <1>3, <1>4
  <1>6. \A k \in DOMAIN rows : s[k].id = rows[k] /\ s[k].names \cap Own = OwnOf(rows[k])
    BY <1>3
  <1> HIDE DEF s
  <1> QED BY <1>1, <1>5, <1>6 DEF rows

\* Records are only ever appended.
LEMMA AppendingFits ==
    ASSUME NEW f, Fits(f), NEW t \in Seq(Ids), NEW torn \in BOOLEAN, NEW there \in BOOLEAN,
           NEW m \in [there : BOOLEAN, dedupe : BOOLEAN, sources : SUBSET Sources],
           t = << >> => m = f.manifest
    PROVE  Fits([f EXCEPT !.records = [there |-> there, rows |-> f.records.rows \o t, torn |-> torn],
                          !.manifest = m])
  <1> DEFINE r == f.records.rows
             g == [f EXCEPT !.records = [there |-> there, rows |-> r \o t, torn |-> torn],
                            !.manifest = m]
  <1>1. f \in WindowFiles /\ ScoresFit(f) /\ ClustersFit(f) /\ r \in Seq(Ids)
    BY FilesTyped DEF Fits
  <1>2. /\ r \o t \in Seq(Ids) /\ Len(r \o t) = Len(r) + Len(t) /\ Len(t) \in Nat /\ Len(r) \in Nat
        /\ \A k \in 1 .. Len(r) : (r \o t)[k] = r[k]
    BY <1>1
  <1>3. /\ g \in WindowFiles
        /\ g.records.rows = r \o t /\ g.scores = f.scores /\ g.clusters = f.clusters
        /\ g.manifest = m
    BY <1>1, <1>2 DEF WindowFiles, File
  <1>4. Held(f) \subseteq Held(g)
    <2>1. ToSet(r \o t) = ToSet(r) \cup ToSet(t)
      BY <1>1, ToSetAppended
    <2> QED BY <1>3, <2>1 DEF Held
  <1>5. f.scores.rows \in Seq(ScoreRow)
    BY <1>1, FilesTyped
  <1> HIDE DEF g
  <1>6. ScoresFit(g)
    <2>1. Len(f.scores.rows) <= Len(r) /\ Len(f.scores.rows) \in Nat
          /\ DOMAIN f.scores.rows = 1 .. Len(f.scores.rows)
      BY <1>1, <1>5 DEF ScoresFit
    <2>2. Len(g.scores.rows) <= Len(g.records.rows)
      BY <1>2, <1>3, <2>1
    <2>3. \A k \in DOMAIN g.scores.rows :
            /\ g.scores.rows[k].id = g.records.rows[k]
            /\ g.scores.rows[k].names \cap Own = OwnOf(g.scores.rows[k].id)
      BY <1>1, <1>2, <1>3, <2>1 DEF ScoresFit
    <2>4. ASSUME g.scores.there, ~g.scores.torn, Len(g.scores.rows) = Len(g.records.rows)
          PROVE  \E x \in Existing : g.scores.rows = ScoreRows(g, x)
      <3>1. Len(t) = 0 /\ Len(f.scores.rows) = Len(r)
        BY <1>2, <1>3, <2>1, <2>4
      <3>2. t = << >>
        BY <3>1
      <3>3. r \o t = r /\ m = f.manifest
        BY <1>1, <3>2
      <3>4. \A x : ScoreRows(g, x) = ScoreRows(f, x)
        BY <1>3, <3>3 DEF ScoreRows, Declared
      <3>5. \E x \in Existing : f.scores.rows = ScoreRows(f, x)
        BY <1>1, <1>3, <2>4, <3>1 DEF ScoresFit
      <3> QED BY <1>3, <3>4, <3>5
    <2> QED BY <2>2, <2>3, <2>4 DEF ScoresFit
  <1>7. ClustersFit(g)
    BY <1>1, <1>3, <1>4 DEF ClustersFit
  <1> QED BY <1>3, <1>6, <1>7 DEF Fits, g

\* Scores that are the start of what scoring gives, whole or torn.
LEMMA ScoringFits ==
    ASSUME NEW f, Fits(f), NEW x \in Existing, NEW n \in 0 .. Len(f.records.rows),
           NEW torn \in BOOLEAN, NEW file,
           file = [there |-> TRUE, rows |-> SubSeq(ScoreRows(f, x), 1, n), torn |-> torn]
    PROVE  Fits([f EXCEPT !.scores = file])
  <1> DEFINE s == ScoreRows(f, x)
             r == f.records.rows
             g == [f EXCEPT !.scores = file]
  <1>1. f \in WindowFiles /\ ClustersFit(f) /\ r \in Seq(Ids)
    BY FilesTyped DEF Fits
  <1>2. /\ s \in Seq(ScoreRow) /\ Len(s) = Len(r)
        /\ \A k \in DOMAIN r : s[k].id = r[k] /\ s[k].names \cap Own = OwnOf(r[k])
    BY <1>1, ScoreRowsTyped
  <1> HIDE DEF s
  <1>3. /\ SubSeq(s, 1, n) \in Seq(ScoreRow) /\ Len(SubSeq(s, 1, n)) = n
        /\ \A k \in 1 .. n : SubSeq(s, 1, n)[k] = s[k]
        /\ n = Len(s) => SubSeq(s, 1, n) = s
    BY <1>1, <1>2
  <1>4. file.rows = SubSeq(s, 1, n) /\ file \in File(ScoreRow)
    BY <1>3 DEF s, File
  <1>5. /\ g \in WindowFiles /\ g.scores = file
        /\ g.records = f.records /\ g.clusters = f.clusters /\ g.manifest = f.manifest
    BY <1>1, <1>4 DEF WindowFiles
  <1> HIDE DEF g
  <1>6. ScoresFit(g)
    <2>1. /\ g.scores.rows = SubSeq(s, 1, n) /\ g.records.rows = r
          /\ DOMAIN g.scores.rows = 1 .. n /\ Len(r) \in Nat /\ DOMAIN r = 1 .. Len(r)
      BY <1>1, <1>3, <1>4, <1>5
    <2>2. Len(g.scores.rows) <= Len(g.records.rows)
      BY <1>3, <2>1
    <2>3. \A k \in DOMAIN g.scores.rows :
            /\ g.scores.rows[k].id = g.records.rows[k]
            /\ g.scores.rows[k].names \cap Own = OwnOf(g.scores.rows[k].id)
      <3> SUFFICES ASSUME NEW k \in 1 .. n
                   PROVE  /\ SubSeq(s, 1, n)[k].id = r[k]
                          /\ SubSeq(s, 1, n)[k].names \cap Own = OwnOf(r[k])
        BY <2>1
      <3>1. k \in DOMAIN r
        BY <2>1
      <3> QED BY <1>2, <1>3, <3>1
    <2>4. Len(g.scores.rows) = Len(g.records.rows) => g.scores.rows = ScoreRows(g, x)
      <3>1. ScoreRows(g, x) = s
        BY <1>5 DEF ScoreRows, Declared, s
      <3> QED BY <1>2, <1>3, <2>1, <3>1
    <2> QED BY <2>2, <2>3, <2>4 DEF ScoresFit
  <1>7. ClustersFit(g)
    BY <1>1, <1>5 DEF ClustersFit, Held
  <1> QED BY <1>5, <1>6, <1>7 DEF Fits, g

\* What cluster writes fits the records it read.
LEMMA ClusteringFits ==
    ASSUME NEW f, Fits(f)
    PROVE  Fits([f EXCEPT !.clusters = Whole(Partition(f))])
  <1> DEFINE g == [f EXCEPT !.clusters = Whole(Partition(f))]
             C == Components[Held(f)]
  <1>1. f \in WindowFiles /\ ScoresFit(f)
    BY DEF Fits
  <1>2. /\ Partition(f) \in Seq(ClusterRow)
        /\ \A c \in ToSet(Partition(f)) :
             /\ c.members \in C
             /\ c.representative = Representative(f, c.members)
    BY <1>1, PartitionFits
  <1>3. Held(f) \in SUBSET Ids
    BY <1>1, FilesTyped, ToSetFinite DEF Held
  <1>4. /\ C \subseteq SUBSET Held(f)
        /\ \A m, n \in C : m = n \/ m \cap n = {}
        /\ \A m \in C : \A i \in m : Facts[i].phrases = {} => m = {i}
    BY <1>3, ComponentsFit
  <1> HIDE DEF C
  <1>5. /\ g \in WindowFiles /\ g.clusters.rows = Partition(f) /\ g.scores = f.scores
        /\ g.records = f.records /\ g.manifest = f.manifest
    BY <1>1, <1>2 DEF WindowFiles, File, Whole
  <1> HIDE DEF g
  <1>6. ScoresFit(g)
    <2>1. \A x : ScoreRows(g, x) = ScoreRows(f, x)
      BY <1>5 DEF ScoreRows, Declared
    <2> QED BY <1>1, <1>5, <2>1 DEF ScoresFit
  <1>7. \A c, d \in ToSet(Partition(f)) : c.members = d.members => c = d
    <2> SUFFICES ASSUME NEW c \in ToSet(Partition(f)), NEW d \in ToSet(Partition(f)),
                        c.members = d.members
                 PROVE  c = d
      OBVIOUS
    <2>1. c \in ClusterRow /\ d \in ClusterRow
      BY <1>2, ToSetFinite
    <2>2. c.representative = d.representative
      BY <1>2
    <2> QED BY <2>1, <2>2 DEF ClusterRow
  <1>8. ClustersFit(g)
    <2>1. Held(g) = Held(f)
      BY <1>5 DEF Held
    <2>2. \A c \in ToSet(Partition(f)) :
            /\ c.members \subseteq Held(f)
            /\ \A i \in c.members : Facts[i].phrases = {} => c.members = {i}
      BY <1>2, <1>4
    <2>3. \A c, d \in ToSet(Partition(f)) : c = d \/ c.members \cap d.members = {}
      BY <1>2, <1>4, <1>7
    <2> QED BY <1>5, <2>1, <2>2, <2>3 DEF ClustersFit
  <1> QED BY <1>5, <1>6, <1>8 DEF Fits, g

----------------------------------------------------------------------------
(***************************************************************************)
(* Every command keeps it.                                                 *)
(***************************************************************************)
\* The scores are of records the window holds.
LEMMA ScoredAreHeld ==
    ASSUME NEW f, Fits(f)
    PROVE  /\ ScoredIds(f) \subseteq Held(f)
           /\ \A s : Firing(f, s) \subseteq Held(f)
  <1>1. f \in WindowFiles /\ ScoresFit(f)
    BY DEF Fits
  <1>2. f.scores.rows \in Seq(ScoreRow) /\ f.records.rows \in Seq(Ids)
    BY <1>1, FilesTyped
  <1>3. \A r \in ToSet(f.scores.rows) : r.id \in Held(f)
    <2> SUFFICES ASSUME NEW k \in DOMAIN f.scores.rows PROVE f.scores.rows[k].id \in Held(f)
      BY DEF ToSet
    <2>1. k \in DOMAIN f.records.rows
      BY <1>1, <1>2 DEF ScoresFit
    <2>2. f.scores.rows[k].id = f.records.rows[k]
      BY <1>1 DEF ScoresFit
    <2> QED BY <2>1, <2>2 DEF Held, ToSet
  <1> QED BY <1>3 DEF ScoredIds, Firing

\* No signal fires in more records than the window has.
LEMMA FiredBounded ==
    ASSUME NEW f, Fits(f), NEW s
    PROVE  /\ IsFiniteSet(Held(f)) /\ IsFiniteSet(Firing(f, s))
           /\ Fired(f, s) \in Nat /\ Fired(f, s) <= Len(f.records.rows)
  <1>1. f.records.rows \in Seq(Ids)
    BY FilesTyped DEF Fits
  <1>2. /\ IsFiniteSet(Held(f)) /\ Cardinality(Held(f)) \in Nat
        /\ Cardinality(Held(f)) <= Len(f.records.rows) /\ Len(f.records.rows) \in Nat
    BY <1>1, ToSetFinite DEF Held
  <1>3. Firing(f, s) \in SUBSET Held(f)
    BY ScoredAreHeld
  <1>4. IsFiniteSet(Firing(f, s)) /\ Cardinality(Firing(f, s)) <= Cardinality(Held(f))
    BY <1>2, <1>3, FS_Subset
  <1>5. Cardinality(Firing(f, s)) \in Nat
    BY <1>4, FS_CardinalityType
  <1> QED BY <1>2, <1>4, <1>5 DEF Fired

\* A command that writes nothing.
LEMMA ReportKeeps ==
    ASSUME PipelineInv, files' = files, kills' \in 0 .. MaxKills, last'.verdict \in Ends
    PROVE  PipelineInv'
  <1>1. ASSUME NEW w \in Windows PROVE Fits(files[w])'
    <2>1. Fits(files'[w])
      BY DEF PipelineInv
    <2> QED BY <2>1 DEF Fits, ScoresFit, ClustersFit, Held, ScoreRows, Declared
  <1> QED BY <1>1 DEF PipelineInv

\* How a command may end: with a verdict of its checks, none of them the impossible.
LEMMA RefusalEnds ==
    ASSUME NEW v \in Refusals \cup {"ok"}, v # "impossible"
    PROVE  v \in Ends
  BY DEF Ends

\* ingest keeps the invariant, whole or killed.
LEMMA IngestKeeps ==
    ASSUME PipelineInv, NEW w \in Windows, NEW s \in Sources, Ingest(w, s) \/ IngestKilled(w, s)
    PROVE  PipelineInv'
  <1> DEFINE f == files[w]
             t == Kept(f, s)
  <1>1. Fits(f) /\ f \in WindowFiles
    BY DEF PipelineInv, Fits
  <1>2. t \in Seq(Ids)
    BY <1>1, KeptTyped
  <1>3. ASSUME Ingest(w, s) PROVE PipelineInv'
    <2> DEFINE m == Merged(f.manifest, s)
               g == [f EXCEPT !.records = [there |-> TRUE, rows |-> f.records.rows \o t, torn |-> FALSE],
                              !.manifest = m]
    <2>1. t # << >>
      BY <1>3 DEF Ingest, CanIngest
    <2>2. m \in [there : BOOLEAN, dedupe : BOOLEAN, sources : SUBSET Sources]
      BY <1>1, FilesTyped, SourcesAssumption DEF Merged
    <2>3. files' = [files EXCEPT ![w] = g]
      BY <1>3 DEF Ingest, Whole, Appended, PipelineInv
    <2>4. last'.verdict = "ok" /\ kills' = kills
      BY <1>3 DEF Ingest, End
    <2> HIDE DEF m, f
    <2>5. Fits(g)
      <3> HIDE DEF t
      <3> QED BY <1>1, <1>2, <2>1, <2>2, AppendingFits
    <2> HIDE DEF g
    <2> QED BY <2>3, <2>4, <2>5, PutKeeps DEF PipelineInv, Ends
  <1>4. ASSUME IngestKilled(w, s) PROVE PipelineInv'
    <2>1. PICK cut \in Cuts(t) :
            files' = [files EXCEPT ![w]["records"] = [cut EXCEPT !.rows = f.records.rows \o @]]
      BY <1>4 DEF IngestKilled, Put
    <2>2. PICK u \in Seq(Ids), torn \in BOOLEAN, there \in BOOLEAN :
            cut = [there |-> there, rows |-> u, torn |-> torn]
      <3>1. CASE \E n \in 0 .. Len(t) : cut = Whole(SubSeq(t, 1, n))
        <4>1. PICK n \in 0 .. Len(t) : cut = Whole(SubSeq(t, 1, n))
          BY <3>1
        <4>2. SubSeq(t, 1, n) \in Seq(Ids)
          <5> HIDE DEF t
          <5> QED BY <1>2
        <4> QED BY <4>1, <4>2 DEF Whole
      <3>2. CASE cut = [Whole(<< >>) EXCEPT !.torn = TRUE]
        <4>1. cut = [there |-> TRUE, rows |-> << >>, torn |-> TRUE]
          BY <3>2 DEF Whole
        <4>2. << >> \in Seq(Ids)
          OBVIOUS
        <4> QED BY <4>1, <4>2
      <3> QED BY <2>1, <3>1, <3>2 DEF Cuts
    <2> DEFINE m == f.manifest
               g == [f EXCEPT !.records = [there |-> there, rows |-> f.records.rows \o u, torn |-> torn],
                              !.manifest = m]
    <2>3. m \in [there : BOOLEAN, dedupe : BOOLEAN, sources : SUBSET Sources]
      BY <1>1 DEF WindowFiles
    <2>4. files' = [files EXCEPT ![w] = g]
      <3>1. [cut EXCEPT !.rows = f.records.rows \o @]
              = [there |-> there, rows |-> f.records.rows \o u, torn |-> torn]
        <4>1. cut.rows = u
          BY <2>2
        <4> DEFINE v == f.records.rows \o u
        <4>2. [cut EXCEPT !.rows = f.records.rows \o @] = [cut EXCEPT !.rows = v]
          BY <4>1
        <4> HIDE DEF v
        <4>3. [cut EXCEPT !.rows = v] = [there |-> there, rows |-> v, torn |-> torn]
          BY ONLY <2>2
        <4> QED BY <4>2, <4>3 DEF v
      <3>2. g = [f EXCEPT !.records = [there |-> there, rows |-> f.records.rows \o u, torn |-> torn]]
        BY <1>1 DEF WindowFiles
      <3> QED BY <2>1, <3>1, <3>2 DEF PipelineInv
    <2>5. last'.verdict = "killed" /\ kills' \in 0 .. MaxKills
      BY <1>4, KillsAssumption DEF IngestKilled, Kill, PipelineInv
    <2>6. Fits(g)
      <3> HIDE DEF m, f
      <3> QED BY <1>1, <2>3, AppendingFits DEF m
    <2> HIDE DEF g, f, m
    <2> QED BY <2>4, <2>5, <2>6, PutKeeps DEF Ends
  <1> QED BY <1>3, <1>4

\* So does score.
LEMMA ScoreKeeps ==
    ASSUME PipelineInv, NEW w \in Windows, NEW x \in Existing, Score(w, x) \/ ScoreKilled(w, x)
    PROVE  PipelineInv'
  <1> DEFINE f == files[w]
             s == ScoreRows(f, x)
  <1>1. Fits(f) /\ f \in WindowFiles
    BY DEF PipelineInv, Fits
  <1>2. s \in Seq(ScoreRow) /\ Len(s) = Len(f.records.rows) /\ Len(s) \in Nat
    BY <1>1, ScoreRowsTyped
  <1>3. PICK file : /\ files' = [files EXCEPT ![w]["scores"] = file]
                    /\ file \in Cuts(s)
    <2>1. CASE Score(w, x)
      <3>1. Len(s) \in 0 .. Len(s) /\ SubSeq(s, 1, Len(s)) = s
        <4> HIDE DEF s
        <4> QED BY <1>2
      <3>2. Whole(s) \in Cuts(s)
        <4> HIDE DEF s
        <4> QED BY <3>1 DEF Cuts
      <3> QED BY <2>1, <3>2 DEF Score, Put
    <2>2. CASE ScoreKilled(w, x)
      BY <2>2 DEF ScoreKilled, Put
    <2> QED BY <2>1, <2>2
  <1>4. PICK n \in 0 .. Len(f.records.rows), torn \in BOOLEAN :
          file = [there |-> TRUE, rows |-> SubSeq(s, 1, n), torn |-> torn]
    <2> HIDE DEF s
    <2>1. CASE \E n \in 0 .. Len(s) : file = Whole(SubSeq(s, 1, n))
      BY <1>2, <2>1 DEF Whole
    <2>2. CASE file = [Whole(<< >>) EXCEPT !.torn = TRUE]
      <3>1. SubSeq(s, 1, 0) = << >> /\ 0 \in 0 .. Len(f.records.rows)
        BY <1>2
      <3>2. file = [there |-> TRUE, rows |-> << >>, torn |-> TRUE]
        BY <2>2 DEF Whole
      <3> QED BY <3>1, <3>2
    <2> QED BY <1>3, <2>1, <2>2 DEF Cuts
  <1> DEFINE g == [f EXCEPT !.scores = file]
  <1>5. files' = [files EXCEPT ![w] = g]
    BY <1>1, <1>3 DEF WindowFiles, PipelineInv
  <1>6. Fits(g)
    <2> HIDE DEF f
    <2> QED BY <1>1, <1>4, ScoringFits DEF s
  <1>7. last'.verdict \in {"ok", "partial", "killed"} /\ kills' \in 0 .. MaxKills
    BY KillsAssumption DEF Score, ScoreKilled, End, Kill, PipelineInv
  <1> HIDE DEF g, f, s
  <1> QED BY <1>5, <1>6, <1>7, PutKeeps DEF Ends

\* So does cluster.
LEMMA ClusterKeeps ==
    ASSUME PipelineInv, NEW w \in Windows, Cluster(w)
    PROVE  PipelineInv'
  <1> DEFINE f == files[w]
             g == [f EXCEPT !.clusters = Whole(Partition(f))]
  <1>1. Fits(f) /\ f \in WindowFiles
    BY DEF PipelineInv, Fits
  <1>2. last'.verdict = Verdict(ClusterChecks(f)) /\ kills' \in 0 .. MaxKills
    BY DEF Cluster, End, PipelineInv
  <1>3. last'.verdict \in Ends
    BY <1>1, <1>2, ClusterVerdict, RefusalEnds
  <1>4. CASE files' = files
    BY <1>2, <1>3, <1>4, ReportKeeps
  <1>5. CASE files' = [files EXCEPT ![w]["clusters"] = Whole(Partition(f))]
    <2>1. files' = [files EXCEPT ![w] = g]
      BY <1>1, <1>5 DEF WindowFiles, PipelineInv
    <2>2. Fits(g)
      <3> HIDE DEF f
      <3> QED BY <1>1, ClusteringFits
    <2> HIDE DEF g, f
    <2> QED BY <1>2, <1>3, <2>1, <2>2, PutKeeps
  <1>6. files' = files \/ files' = [files EXCEPT ![w]["clusters"] = Whole(Partition(f))]
    BY DEF Cluster, Put
  <1> QED BY <1>4, <1>5, <1>6

\* Drift's "more occurrences than records" is never met.
LEMMA DriftNeverImpossible ==
    ASSUME NEW f, Fits(f), NEW g, Fits(g)
    PROVE  Verdict(DriftChecks(f, g)) # "impossible"
  <1>1. f \in WindowFiles /\ g \in WindowFiles
    BY DEF Fits
  <1>2. ~ \E s \in SignalNames : \E h \in {f, g} : Fired(h, s) > Len(h.records.rows)
    <2> SUFFICES ASSUME NEW s \in SignalNames, NEW h \in {f, g}, Fired(h, s) > Len(h.records.rows)
                 PROVE  FALSE
      OBVIOUS
    <2>1. Fits(h)
      OBVIOUS
    <2>2. h.records.rows \in Seq(Ids)
      BY <2>1, FilesTyped DEF Fits
    <2>3. Fired(h, s) \in Nat /\ Fired(h, s) <= Len(h.records.rows)
      BY <2>1, FiredBounded
    <2> QED BY <2>2, <2>3
  <1> QED BY <1>1, <1>2, DriftVerdict

\* So do the commands that only read.
LEMMA ReadersKeep ==
    ASSUME PipelineInv, NEW v \in Windows, NEW w \in Windows, NEW d,
           ScoreRefused(w) \/ Select(w) \/ Health(w, d) \/ Drift(v, w)
    PROVE  PipelineInv'
  <1>1. Fits(files[v]) /\ Fits(files[w]) /\ files[w] \in WindowFiles /\ files[v] \in WindowFiles
    BY DEF PipelineInv, Fits
  <1>2. files' = files /\ kills' \in 0 .. MaxKills
    BY DEF PipelineInv, ScoreRefused, Select, Health, Drift, End
  <1>3. last'.verdict \in Refusals \cup {"ok"} /\ last'.verdict # "impossible"
    <2>1. CASE ScoreRefused(w)
      BY <1>1, <2>1, ScoreVerdict DEF ScoreRefused, End
    <2>2. CASE Select(w)
      BY <1>1, <2>2, SelectVerdict DEF Select, End
    <2>3. CASE Health(w, d)
      BY <1>1, <2>3, HealthVerdict DEF Health
    <2>4. CASE Drift(v, w)
      <3>1. last'.verdict = Verdict(DriftChecks(files[v], files[w]))
        BY <2>4 DEF Drift
      <3> QED BY <1>1, <3>1, DriftVerdict, DriftNeverImpossible
    <2> QED BY <2>1, <2>2, <2>3, <2>4
  <1>4. last'.verdict \in Ends
    BY <1>3, RefusalEnds
  <1> QED BY <1>2, <1>4, ReportKeeps

\* Empty windows fit.
LEMMA PipelineInvInitially == Init => PipelineInv
  <1> SUFFICES ASSUME Init PROVE PipelineInv
    OBVIOUS
  <1>1. Empty \in WindowFiles
    <2>1. << >> \in Seq(Ids) /\ << >> \in Seq(ScoreRow) /\ << >> \in Seq(ClusterRow)
      OBVIOUS
    <2> QED BY <2>1 DEF Empty, NoFile, NoManifest, WindowFiles, File
  <1>2. ScoresFit(Empty) /\ ClustersFit(Empty)
    BY DEF Empty, NoFile, ScoresFit, ClustersFit, ToSet
  <1>3. \A w \in Windows : files[w] = Empty
    BY DEF Init
  <1>4. kills \in 0 .. MaxKills /\ last.verdict \in Ends
    BY KillsAssumption DEF Init, Ends
  <1>5. files \in [Windows -> WindowFiles]
    BY <1>1 DEF Init
  <1> QED BY <1>1, <1>2, <1>3, <1>4, <1>5 DEF PipelineInv, Fits

\* Every command keeps the invariant.
LEMMA PipelineInvKept == PipelineInv /\ [Next]_vars => PipelineInv'
  <1> SUFFICES ASSUME PipelineInv, [Next]_vars PROVE PipelineInv'
    OBVIOUS
  <1>1. CASE UNCHANGED vars
    <2>1. files' = files /\ kills' \in 0 .. MaxKills /\ last'.verdict \in Ends
      BY <1>1 DEF vars, PipelineInv
    <2> QED BY <2>1, ReportKeeps
  <1>2. CASE \E w \in Windows, s \in Sources : Ingest(w, s) \/ IngestKilled(w, s)
    BY <1>2, IngestKeeps
  <1>3. CASE \E w \in Windows : ScoreRefused(w) \/ Cluster(w) \/ Select(w)
    BY <1>3, ClusterKeeps, ReadersKeep
  <1>4. CASE \E w \in Windows, g \in Existing : Score(w, g) \/ ScoreKilled(w, g)
    BY <1>4, ScoreKeeps
  <1>5. CASE \E w \in Windows, d \in Datasets : Health(w, d)
    BY <1>5, ReadersKeep
  <1>6. CASE \E v, w \in Windows : Drift(v, w)
    BY <1>6, ReadersKeep
  <1> QED BY <1>1, <1>2, <1>3, <1>4, <1>5, <1>6 DEF Next

\* The invariant holds in every state, whatever commands were run or killed.
THEOREM PipelineInvAlways == Spec => []PipelineInv
  BY PipelineInvInitially, PipelineInvKept, PTL DEF Spec

\* The files are of their kinds and every command ends in a way it may
\* (window/store.py, score/run.py, cluster/run.py).
THEOREM PipelineTypeCorrect == Spec => []TypeOK
  <1>1. PipelineInv => TypeOK
    <2> SUFFICES ASSUME PipelineInv PROVE TypeOK
      OBVIOUS
    <2>1. files \in [Windows ->
         [ records : File(Ids),
           manifest : [there : BOOLEAN, dedupe : BOOLEAN, sources : SUBSET Sources],
           scores : File([id : Ids, names : SUBSET SignalNames, score : Nat]),
           clusters : File({c \in [representative : Ids, members : SUBSET Ids] :
                               c.representative \in c.members}) ]]
      BY DEF PipelineInv, WindowFiles, ScoreRow, ClusterRow
    <2>2. last.verdict \in {"ok", "partial", "refused", "killed", "traceback", "ingest",
                            "score", "cluster", "impossible"}
      BY DEF PipelineInv, Ends, Refusals
    <2> QED BY <2>1, <2>2 DEF PipelineInv, TypeOK
  <1> QED BY <1>1, PipelineInvAlways, PTL

\* No order of commands and kills leaves a scores or clusters file that knows a
\* record the window does not hold, and drift's count check never fires
\* (drift/run.py, drift/stats.py).
THEOREM DerivedFilesStayBehind == Spec => []NothingAheadOfRecords
  <1>1. PipelineInv => NothingAheadOfRecords
    <2> SUFFICES ASSUME PipelineInv PROVE NothingAheadOfRecords
      OBVIOUS
    <2>1. last.verdict # "impossible"
      BY DEF PipelineInv, Ends, Refusals
    <2>2. ASSUME NEW w \in Windows
          PROVE  ScoredIds(files[w]) \subseteq Held(files[w]) /\ Clustered(files[w]) \subseteq Held(files[w])
      <3>1. Fits(files[w])
        BY DEF PipelineInv
      <3>2. Clustered(files[w]) \subseteq Held(files[w])
        BY <3>1 DEF Fits, ClustersFit, Clustered
      <3> QED BY <3>1, <3>2, ScoredAreHeld
    <2> QED BY <2>1, <2>2 DEF NothingAheadOfRecords
  <1> QED BY <1>1, PipelineInvAlways, PTL

----------------------------------------------------------------------------
(***************************************************************************)
(* The readers and the exit of score, which see one or two windows.        *)
(***************************************************************************)
\* What select goes on with are the scores and a partition of the records.
LEMMA SelectedWell ==
    ASSUME NEW f, Fits(f), Verdict(SelectChecks(f)) = "ok", IsInjective(f.records.rows)
    PROVE  Current(f) /\ Partitioned(f)
  <1> DEFINE s == f.scores.rows
             r == f.records.rows
  <1>1. f \in WindowFiles /\ ScoresFit(f) /\ ClustersFit(f)
    BY DEF Fits
  <1>2. /\ f.scores.there /\ ~f.scores.torn /\ ScoredIds(f) = Held(f)
        /\ Held(f) \subseteq Clustered(f)
    BY <1>1, SelectVerdict
  <1>3. s \in Seq(ScoreRow) /\ r \in Seq(Ids)
    BY <1>1, FilesTyped
  <1>4. Len(s) = Len(r)
    <2>1. Len(s) <= Len(r) /\ Len(s) \in Nat /\ Len(r) \in Nat
          /\ DOMAIN r = 1 .. Len(r) /\ DOMAIN s = 1 .. Len(s)
      BY <1>1, <1>3 DEF ScoresFit
    <2>2. SUFFICES ASSUME Len(s) < Len(r) PROVE FALSE
      BY <2>1
    <2>3. Len(r) \in DOMAIN r /\ r[Len(r)] \in Held(f)
      BY <2>1, <2>2 DEF Held, ToSet
    <2>4. PICK k \in DOMAIN s : s[k].id = r[Len(r)]
      BY <1>2, <2>3 DEF ScoredIds, ToSet
    <2>5. r[k] = r[Len(r)] /\ k \in DOMAIN r /\ k # Len(r)
      BY <1>1, <2>1, <2>2, <2>4 DEF ScoresFit
    <2> QED BY <2>3, <2>5 DEF IsInjective
  <1>5. Current(f)
    BY <1>1, <1>2, <1>4 DEF ScoresFit, Current
  <1>6. Clustered(f) = Held(f)
    BY <1>1, <1>2 DEF ClustersFit, Clustered
  <1> QED BY <1>1, <1>5, <1>6 DEF ClustersFit, Partitioned

\* The rows that name such a signal are those of the records that fire it.
LEMMA FiringOwn ==
    ASSUME NEW f, Fits(f), NEW s \in Own
    PROVE  Firing(f, s) = {i \in ScoredIds(f) : s \in OwnOf(i)}
  <1>1. f \in WindowFiles /\ ScoresFit(f)
    BY DEF Fits
  <1>2. \A r \in ToSet(f.scores.rows) : s \in r.names <=> s \in OwnOf(r.id)
    <2> SUFFICES ASSUME NEW k \in DOMAIN f.scores.rows
                 PROVE  s \in f.scores.rows[k].names <=> s \in OwnOf(f.scores.rows[k].id)
      BY DEF ToSet
    <2>1. f.scores.rows[k].names \cap Own = OwnOf(f.scores.rows[k].id)
      BY <1>1 DEF ScoresFit
    <2> QED BY <2>1
  <1> QED BY <1>2 DEF Firing, ScoredIds

\* The rate of the signal "error" beside the error rate.
LEMMA ErrorsAgree ==
    ASSUME NEW f, Fits(f), NEW K, K = {k \in DOMAIN f.records.rows : Facts[f.records.rows[k]].failed}
    PROVE  /\ Fired(f, "error") <= Cardinality(K)
           /\ Held(f) \subseteq ScoredIds(f) /\ IsInjective(f.records.rows) =>
                Fired(f, "error") = Cardinality(K)
  <1> DEFINE rows == f.records.rows
             E == {i \in Held(f) : Facts[i].failed}
             F == Firing(f, "error")
             m == [k \in K |-> rows[k]]
  <1>1. rows \in Seq(Ids) /\ Held(f) \subseteq Ids
    BY FilesTyped, ToSetFinite DEF Fits, Held
  <1>2. F = {i \in ScoredIds(f) : Facts[i].failed}
    <2>1. "error" \in Own
      BY DEF Own
    <2>2. \A i \in Ids : "error" \in OwnOf(i) <=> Facts[i].failed
      BY OwnNames
    <2>3. ScoredIds(f) \subseteq Ids
      BY <1>1, ScoredAreHeld
    <2> QED BY <2>1, <2>2, <2>3, FiringOwn
  <1>3. F \in SUBSET E /\ (Held(f) \subseteq ScoredIds(f) => F = E)
    BY <1>2, ScoredAreHeld
  <1>4. m \in Surjection(K, E)
    BY DEF Surjection, Held, ToSet
  <1>5. IsFiniteSet(K)
    <2>1. DOMAIN rows = 1 .. Len(rows) /\ Len(rows) \in Nat
      BY <1>1
    <2>2. IsFiniteSet(DOMAIN rows)
      BY <2>1, UpToFinite
    <2>3. K \in SUBSET DOMAIN rows
      OBVIOUS
    <2> QED BY <2>2, <2>3, FS_Subset
  <1>6. IsInjective(rows) => m \in Injection(K, E)
    BY <1>4 DEF IsInjective, Injection, Surjection
  <1> HIDE DEF m, E, F
  <1>7. /\ IsFiniteSet(E) /\ Cardinality(E) <= Cardinality(K)
        /\ IsInjective(rows) => Cardinality(E) = Cardinality(K)
    BY <1>4, <1>5, <1>6, FS_Surjection
  <1>8. Cardinality(F) <= Cardinality(E) /\ Cardinality(F) \in Nat
        /\ Cardinality(E) \in Nat /\ Cardinality(K) \in Nat
    BY <1>3, <1>5, <1>7, FS_Subset, FS_CardinalityType
  <1>9. Fired(f, "error") = Cardinality(F)
    BY DEF Fired, F
  <1> QED BY <1>3, <1>7, <1>8, <1>9

\* A cluster that shares no word with the earlier window is new: whoever speaks for
\* it is one of its members.
LEMMA StrangersAreNew ==
    ASSUME NEW f, Fits(f), NEW g, Fits(g), NEW d \in ToSet(g.clusters.rows),
           \A i \in d.members, t \in Texts(f) : Facts[i].phrases \cap t = {}
    PROVE  d.members \in NewClusters(f, g)
  <1> DEFINE p == d.representative
  <1>1. f \in WindowFiles /\ g \in WindowFiles
    BY DEF Fits
  <1>2. d \in ClusterRow
    BY <1>1, FilesTyped, ToSetFinite
  <1>3. p \in d.members
    BY <1>2 DEF ClusterRow
  <1>4. ASSUME NEW t \in Texts(f) PROVE ~AtLeast(Jaccard(Facts[p].phrases, t), Fresh)
    <2>1. Facts[p].phrases \cap t = {}
      BY <1>3
    <2>2. Fresh[1] \in Nat /\ Fresh[1] > 0 /\ Fresh[2] \in Nat
      BY ThresholdsAssumption
    <2>3. IsFiniteSet(Facts[p].phrases) /\ IsFiniteSet(t)
      <3>1. p \in Ids
        BY <1>2, <1>3 DEF ClusterRow
      <3>2. Held(f) \subseteq Ids
        BY <1>1, FilesTyped, ToSetFinite DEF Held
      <3> QED BY <3>1, <3>2, FactsAssumption DEF Texts
    <2>4. CASE Facts[p].phrases = {} \/ t = {}
      BY <2>2, <2>4 DEF Jaccard, AtLeast
    <2>5. CASE ~(Facts[p].phrases = {} \/ t = {})
      <3> DEFINE u == Facts[p].phrases \cup t
      <3>1. Jaccard(Facts[p].phrases, t) = <<0, Cardinality(u)>>
        BY <2>1, <2>5, FS_EmptySet DEF Jaccard
      <3>2. IsFiniteSet(u) /\ u # {}
        BY <2>3, <2>5, FS_Union
      <3>3. Cardinality(u) \in Nat /\ Cardinality(u) > 0
        BY <3>2, FS_CardinalityType, FS_EmptySet
      <3> DEFINE n == Cardinality(u)
                 x == Fresh[1]
                 y == Fresh[2]
      <3> HIDE DEF u
      <3>4. n \in Nat /\ n > 0 /\ x \in Nat /\ x > 0 /\ y \in Nat
        BY <2>2, <3>3
      <3>5. ~(0 * y >= x * n)
        <4>1. PICK m \in Nat : n = 1 + m
          <5>1. n - 1 \in Nat /\ n = 1 + (n - 1)
            BY <3>4
          <5> QED BY <5>1
        <4>2. x * n = x + x * m /\ x * m \in Nat
          BY <3>4, <4>1
        <4>3. 0 * y = 0
          BY <3>4
        <4> QED BY <3>4, <4>2, <4>3
      <3> QED BY <3>1, <3>5 DEF AtLeast
    <2> QED BY <2>4, <2>5
  <1> QED BY <1>4 DEF NewClusters, Near

\* What DriftTellsOneStory says of two windows and a report.
DriftTold(f, g, report) ==
    LET signals == report.signals
        Scored(x) == Held(x) \subseteq ScoredIds(x)
    IN  /\ \A h \in {1, 2} :
             LET x == <<f, g>>[h]
                 failed == report.errors[h][1]
             IN  /\ signals["error"][h][1] <= failed
                 /\ Scored(x) /\ IsInjective(x.records.rows) => signals["error"][h][1] = failed
        /\ Held(f) = Held(g) /\ Scored(f) /\ Scored(g) =>
             \A s \in Own : signals[s][1][1] = signals[s][2][1]
        /\ \A c \in ToSet(g.clusters.rows) :
             (\A i \in c.members, t \in Texts(f) : Facts[i].phrases \cap t = {})
             => c.members \in report.new

\* The report of two windows that fit tells it.
LEMMA ReportTells ==
    ASSUME NEW f, Fits(f), NEW g, Fits(g), Verdict(DriftChecks(f, g)) = "ok"
    PROVE  DriftTold(f, g, DriftReport(f, g))
  <1> DEFINE report == DriftReport(f, g)
             K(x) == {k \in DOMAIN x.records.rows : Facts[x.records.rows[k]].failed}
  <1>1. /\ \A s \in SignalNames : /\ report.signals[s][1][1] = Fired(f, s)
                                   /\ report.signals[s][2][1] = Fired(g, s)
        /\ report.errors[1][1] = Cardinality(K(f))
        /\ report.errors[2][1] = Cardinality(K(g))
        /\ report.new = NewClusters(f, g)
    BY DEF DriftReport
  <1>2. Own \subseteq SignalNames /\ "error" \in SignalNames
    BY DEF Own, SignalNames
  <1>3. ASSUME NEW x \in {f, g}
        PROVE  /\ Fired(x, "error") <= Cardinality(K(x))
               /\ Held(x) \subseteq ScoredIds(x) /\ IsInjective(x.records.rows) =>
                    Fired(x, "error") = Cardinality(K(x))
    BY ErrorsAgree
  <1>4. ASSUME Held(f) = Held(g), Held(f) \subseteq ScoredIds(f), Held(g) \subseteq ScoredIds(g),
               NEW s \in Own
        PROVE  Fired(f, s) = Fired(g, s)
    <2>1. ScoredIds(f) = ScoredIds(g)
      BY <1>4, ScoredAreHeld
    <2>2. Firing(f, s) = Firing(g, s)
      BY <2>1, FiringOwn
    <2> QED BY <2>2 DEF Fired
  <1>5. \A c \in ToSet(g.clusters.rows) :
          (\A i \in c.members, t \in Texts(f) : Facts[i].phrases \cap t = {})
          => c.members \in report.new
    BY <1>1, StrangersAreNew
  <1> HIDE DEF report, K
  <1>6. ASSUME NEW h \in {1, 2}
        PROVE  LET x == <<f, g>>[h] IN
               /\ report.signals["error"][h][1] <= report.errors[h][1]
               /\ Held(x) \subseteq ScoredIds(x) /\ IsInjective(x.records.rows) =>
                    report.signals["error"][h][1] = report.errors[h][1]
    <2>1. CASE h = 1
      BY <1>1, <1>2, <1>3, <2>1
    <2>2. CASE h = 2
      BY <1>1, <1>2, <1>3, <2>2
    <2> QED BY <2>1, <2>2
  <1>7. Held(f) = Held(g) /\ Held(f) \subseteq ScoredIds(f) /\ Held(g) \subseteq ScoredIds(g) =>
          \A s \in Own : report.signals[s][1][1] = report.signals[s][2][1]
    BY <1>1, <1>2, <1>4
  <1> QED BY <1>5, <1>6, <1>7 DEF DriftTold, report

\* The names in a file that scoring wrote are those of the signals that fired.
LEMMA NamesAre ==
    ASSUME NEW f \in WindowFiles, NEW x, f.scores.rows = ScoreRows(f, x), NEW i \in Held(f)
    PROVE  /\ i \in Ids
           /\ NamesOf(f, i) = Row(i, Context(f.records.rows, f.manifest.dedupe, Declared(f), x)).names
  <1> DEFINE c == Context(f.records.rows, f.manifest.dedupe, Declared(f), x)
             r == f.records.rows
  <1>1. r \in Seq(Ids)
    BY FilesTyped
  <1>2. PICK k \in DOMAIN r : r[k] = i
    BY DEF Held, ToSet
  <1>3. i \in Ids
    BY <1>1, <1>2
  <1>4. ScoreRows(f, x) = [j \in DOMAIN r |-> Row(r[j], c)]
    BY DEF ScoreRows
  <1> HIDE DEF c
  <1>5. \A j \in DOMAIN r : Row(r[j], c).id = r[j]
    BY <1>1, RowTyped
  <1>6. ToSet(f.scores.rows) = {Row(r[j], c) : j \in DOMAIN r}
    BY <1>4 DEF ToSet
  <1>7. Rows(f, i) = {Row(i, c)}
    BY <1>2, <1>5, <1>6 DEF Rows
  <1>8. NamesOf(f, i) = Row(i, c).names
    BY <1>7 DEF NamesOf
  <1> QED BY <1>3, <1>8 DEF c

\* One outcome for a question and a version that are steady.
LEMMA SteadyOutcomes ==
    ASSUME NEW f, NEW i \in Held(f), Steady(f, i)
    PROVE  Outcomes(f.records.rows, Facts[i].question, Facts[i].version) = {Outcome(i)}
  BY DEF Steady, Outcomes, Held

\* Disagreements are told by the outcomes, whatever the order of the records.
LEMMA Disagree ==
    ASSUME NEW f \in WindowFiles, NEW i \in Held(f), NEW j \in Held(f),
           Steady(f, i), Steady(f, j), Outcome(i) # Outcome(j),
           Facts[i].question = Facts[j].question,
           Facts[i].question \in Questions, Facts[i].version \in Versions, Facts[j].version \in Versions
    PROVE  Facts[i].question \in Disagreements(f.records.rows)
  <1> DEFINE q == Facts[i].question
             A == {Outcome(i)}
             B == {Outcome(j)}
             T == {Outcomes(f.records.rows, q, v) : v \in Versions} \ {{}}
  <1>1. A \in T /\ B \in T /\ A # B
    BY SteadyOutcomes
  <1>2. IsFiniteSet(T)
    <2>1. IsFiniteSet({"failed", "passed"})
      <3>1. {"failed", "passed"} = {"failed"} \cup {"passed"}
        OBVIOUS
      <3>2. IsFiniteSet({"failed"})
        BY FS_Singleton
      <3>3. IsFiniteSet({"failed"} \cup {"passed"})
        BY <3>2, FS_AddElement
      <3> QED BY <3>1, <3>3
    <2>2. IsFiniteSet(SUBSET {"failed", "passed"})
      BY <2>1, FS_SUBSET
    <2>3. T \in SUBSET SUBSET {"failed", "passed"}
      BY DEF Outcomes, Outcome
    <2> HIDE DEF T
    <2> QED BY <2>2, <2>3, FS_Subset
  <1> HIDE DEF A, B
  <1>3. IsFiniteSet({A, B}) /\ Cardinality({A, B}) = 2
    <2>1. {A, B} = {A} \cup {B} /\ B \notin {A}
      BY <1>1
    <2>2. IsFiniteSet({A}) /\ Cardinality({A}) = 1
      BY FS_Singleton
    <2>3. IsFiniteSet({A} \cup {B}) /\ Cardinality({A} \cup {B}) = Cardinality({A}) + 1
      BY <2>1, <2>2, FS_AddElement
    <2> QED BY <2>1, <2>2, <2>3
  <1>4. Cardinality(T) \in Nat /\ Cardinality(T) > 1
    <2> HIDE DEF T
    <2>1. {A, B} \in SUBSET T
      BY <1>1
    <2>2. Cardinality({A, B}) <= Cardinality(T) /\ Cardinality(T) \in Nat
      BY <1>2, <2>1, FS_Subset, FS_CardinalityType
    <2> QED BY <1>3, <2>2
  <1> QED BY <1>4 DEF Disagreements

\* Of the two signals a window can silence.
LEMMA TwoSignals ==
    ASSUME NEW i \in Ids, NEW w, NEW dedupe, NEW declared, NEW x
    PROVE  LET c == Context(w, dedupe, declared, x) IN
           /\ "version_disagreement" \in Row(i, c).names <=>
                (~dedupe /\ Facts[i].question \in Disagreements(w))
           /\ "format_violation" \in Row(i, c).names <=>
                (JsonExpectation(declared) = "all" /\ Facts[i].outLen # None /\ ~Facts[i].parses)
  <1> DEFINE c == Context(w, dedupe, declared, x)
  <1>1. /\ c.disagreements = IF dedupe THEN {} ELSE Disagreements(w)
        /\ c.json = (JsonExpectation(declared) = "all")
    BY DEF Context
  <1>2. "version_disagreement" \in SignalNames /\ "format_violation" \in SignalNames
    BY DEF SignalNames
  <1> HIDE DEF c
  <1>3. /\ Fires(i, c)["version_disagreement"] = (Facts[i].question \in c.disagreements)
        /\ Fires(i, c)["format_violation"] = (c.json /\ Facts[i].outLen # None /\ ~Facts[i].parses)
    BY DEF Fires
  <1>4. Row(i, c).names = {s \in SignalNames : Fires(i, c)[s]}
    BY RowTyped
  <1> QED BY <1>1, <1>2, <1>3, <1>4 DEF c

\* Exit 0 says that nothing was invisible, exit 1 that something was.
LEMMA ExitTells ==
    ASSUME NEW f \in WindowFiles, NEW x, f.scores.rows = ScoreRows(f, x)
    PROVE  IF Blocked(f.manifest.dedupe, Declared(f))
           THEN \/ \A i \in Held(f) : "version_disagreement" \notin NamesOf(f, i)
                \/ \A i \in Held(f) : "format_violation" \notin NamesOf(f, i)
           ELSE /\ \A i, j \in Held(f) :
                       /\ Facts[i].question = Facts[j].question
                       /\ Facts[i].version # Facts[j].version
                       /\ None \notin {Facts[i].version, Facts[j].version}
                       /\ Steady(f, i) /\ Steady(f, j) /\ Outcome(i) # Outcome(j)
                       => "version_disagreement" \in NamesOf(f, i) \cap NamesOf(f, j)
                /\ \A i \in Held(f) :
                       TRUE \in Declared(f) /\ Facts[i].outLen # None /\ ~Facts[i].parses
                       => "format_violation" \in NamesOf(f, i)
  <1> DEFINE D == Declared(f)
  <1>1. /\ D \subseteq BOOLEAN
        /\ f.manifest.dedupe \in BOOLEAN
    <2>1. f.manifest.sources \in SUBSET Sources /\ f.manifest.dedupe \in BOOLEAN
      BY FilesTyped
    <2> QED BY <2>1, SourcesAssumption DEF Declared
  <1>2. \A i \in Held(f) :
          /\ i \in Ids
          /\ "version_disagreement" \in NamesOf(f, i) <=>
               (~f.manifest.dedupe /\ Facts[i].question \in Disagreements(f.records.rows))
          /\ "format_violation" \in NamesOf(f, i) <=>
               (JsonExpectation(D) = "all" /\ Facts[i].outLen # None /\ ~Facts[i].parses)
    BY NamesAre, TwoSignals
  <1> HIDE DEF D
  <1>3. CASE Blocked(f.manifest.dedupe, D)
    <2>1. CASE f.manifest.dedupe
      BY <1>2, <1>3, <2>1 DEF D
    <2>2. CASE JsonExpectation(D) = "mixed"
      BY <1>2, <1>3, <2>2 DEF D
    <2> QED BY <1>3, <2>1, <2>2 DEF Blocked
  <1>4. CASE ~Blocked(f.manifest.dedupe, D)
    <2>1. ~f.manifest.dedupe /\ JsonExpectation(D) # "mixed"
      BY <1>4 DEF Blocked
    <2>2. ASSUME NEW i \in Held(f), NEW j \in Held(f),
                 Facts[i].question = Facts[j].question,
                 Facts[i].version # Facts[j].version,
                 None \notin {Facts[i].version, Facts[j].version},
                 Steady(f, i), Steady(f, j), Outcome(i) # Outcome(j)
          PROVE  "version_disagreement" \in NamesOf(f, i) \cap NamesOf(f, j)
      <3>1. i \in Ids /\ j \in Ids
        BY <1>2
      <3>2. Facts[i] \in Fact /\ Facts[j] \in Fact
        BY <3>1, FactsAssumption
      <3>3. /\ Facts[i].question \in Questions
            /\ Facts[i].version \in Versions /\ Facts[j].version \in Versions
        BY <2>2, <3>2 DEF Fact
      <3>4. Facts[i].question \in Disagreements(f.records.rows)
        BY <2>2, <3>3, Disagree
      <3> QED BY <1>2, <2>1, <2>2, <3>4
    <2>3. ASSUME NEW i \in Held(f), TRUE \in D, Facts[i].outLen # None, ~Facts[i].parses
          PROVE  "format_violation" \in NamesOf(f, i)
      <3>1. JsonExpectation(D) = "all"
        BY <1>1, <2>1, <2>3 DEF JsonExpectation
      <3> QED BY <1>2, <2>3, <3>1
    <2> HIDE DEF Steady
    <2> QED BY <1>4, <2>2, <2>3 DEF D
  <1> QED BY <1>3, <1>4 DEF D

\* What is about traffic does not depend on the dataset scoring was given.
LEMMA TrafficIsPlain ==
    ASSUME NEW i \in Ids, NEW w, NEW dedupe, NEW declared, NEW x
    PROVE  Traffic(Row(i, Context(w, dedupe, declared, x)).names)
             = Row(i, Context(w, dedupe, declared, None)).names
  <1> DEFINE c == Context(w, dedupe, declared, x)
             p == Context(w, dedupe, declared, None)
  <1>1. /\ c.latency = p.latency /\ c.inLen = p.inLen /\ c.outLen = p.outLen
        /\ c.disagreements = p.disagreements /\ c.json = p.json /\ p.goldens = None
    BY DEF Context
  <1> HIDE DEF c, p
  <1>2. \A s \in SignalNames \ {"novelty"} : Fires(i, c)[s] = Fires(i, p)[s]
    BY <1>1 DEF Fires, SignalNames, Patterns
  <1>3. Fires(i, p)["novelty"] = FALSE
    BY <1>1 DEF Fires
  <1>4. /\ Row(i, c).names = {s \in SignalNames : Fires(i, c)[s]}
        /\ Row(i, p).names = {s \in SignalNames : Fires(i, p)[s]}
    BY RowTyped
  <1> HIDE DEF SignalNames
  <1>5. Row(i, c).names \ {"novelty"} = Row(i, p).names
    BY <1>2, <1>3, <1>4
  <1> QED BY <1>5 DEF Traffic, c, p

\* The report of a window whose files are current cannot contradict itself.
LEMMA ReportAdds ==
    ASSUME NEW f, Fits(f), Current(f), Partitioned(f), NEW cases
    PROVE  LET r == HealthReport(f, cases)
               clusters == ToSet(f.clusters.rows)
               plain == Context(f.records.rows, f.manifest.dedupe, Declared(f), None)
               loud == {c \in clusters : \E i \in c.members : Row(i, plain).names # {}}
           IN  /\ r.signalled[2] = Cardinality(loud)
               /\ r.signalled[1] = Cardinality({c \in loud : c.members \notin r.gaps})
               /\ r.ordinary[2] = Cardinality(clusters \ loud)
               /\ r.coverage[1] = r.signalled[1] + r.ordinary[1]
               /\ r.coverage[1] = 0 <=> r.stale = cases
  <1> DEFINE r == HealthReport(f, cases)
             clusters == ToSet(f.clusters.rows)
             plain == Context(f.records.rows, f.manifest.dedupe, Declared(f), None)
             loud == {c \in clusters : \E i \in c.members : Row(i, plain).names # {}}
             covered == Covered(f, cases)
             fired == {i \in Clustered(f) : Traffic(NamesOf(f, i)) # {}}
             reached(C) == {c \in C : c.members \cap covered # {}}
  <1>1. f \in WindowFiles /\ Clustered(f) = Held(f)
    BY DEF Fits, Partitioned
  <1>2. IsFiniteSet(clusters)
    BY <1>1, FilesTyped, ToSetFinite
  <1>3. fired = {i \in Held(f) : Row(i, plain).names # {}}
    <2>1. PICK x \in Existing : f.scores.rows = ScoreRows(f, x)
      BY DEF Current
    <2>2. \A i \in Held(f) : Traffic(NamesOf(f, i)) = Row(i, plain).names
      <3> SUFFICES ASSUME NEW i \in Held(f) PROVE Traffic(NamesOf(f, i)) = Row(i, plain).names
        OBVIOUS
      <3>1. /\ i \in Ids
            /\ NamesOf(f, i) = Row(i, Context(f.records.rows, f.manifest.dedupe, Declared(f), x)).names
        BY <1>1, <2>1, NamesAre
      <3> QED BY <3>1, TrafficIsPlain
    <2> HIDE DEF plain
    <2> QED BY <1>1, <2>2
  <1>4. \A c \in clusters : c.members \subseteq Held(f)
    BY <1>1 DEF Clustered
  <1>5. loud = {c \in clusters : (c.members \cap fired # {}) = TRUE}
    <2> HIDE DEF plain, clusters
    <2> SUFFICES ASSUME NEW c \in clusters
                 PROVE  (\E i \in c.members : Row(i, plain).names # {}) <=> c.members \cap fired # {}
      OBVIOUS
    <2> HIDE DEF fired
    <2> QED BY <1>3, <1>4
  <1>6. clusters \ loud = {c \in clusters : (c.members \cap fired # {}) = FALSE}
    <2> HIDE DEF loud, fired, clusters
    <2> QED BY <1>5
  <1>7. /\ r.coverage[1] = Cardinality(reached(clusters))
        /\ r.gaps = {d.members : d \in {c \in clusters : c.members \cap covered = {}}}
        /\ r.stale = {t \in cases : ~Near(t, {Facts[i].phrases : i \in Held(f)}, Neighbour)}
        /\ r.signalled = Half(clusters, covered, fired, TRUE)
        /\ r.ordinary = Half(clusters, covered, fired, FALSE)
    BY DEF HealthReport
  <1> HIDE DEF r, plain, loud, fired, clusters, covered
  <1>8. /\ r.signalled[1] = Cardinality(reached(loud)) /\ r.signalled[2] = Cardinality(loud)
        /\ r.ordinary[1] = Cardinality(reached(clusters \ loud))
        /\ r.ordinary[2] = Cardinality(clusters \ loud)
    <2> DEFINE yes == {c \in clusters : (c.members \cap fired # {}) = TRUE}
               no == {c \in clusters : (c.members \cap fired # {}) = FALSE}
    <2>1. r.signalled = <<Cardinality(reached(yes)), Cardinality(yes)>>
      BY <1>7 DEF Half
    <2>2. r.ordinary = <<Cardinality(reached(no)), Cardinality(no)>>
      BY <1>7 DEF Half
    <2>3. yes = loud /\ no = clusters \ loud
      BY <1>5, <1>6
    <2> HIDE DEF yes, no, reached
    <2> QED BY <2>1, <2>2, <2>3
  <1>9. reached(loud) = {c \in loud : c.members \notin r.gaps}
    <2>1. loud \subseteq clusters
      BY DEF loud
    <2> SUFFICES ASSUME NEW c \in loud
                 PROVE  c.members \cap covered # {} <=> c.members \notin r.gaps
      OBVIOUS
    <2>2. c.members \in r.gaps <=> \E d \in clusters : d.members = c.members /\ d.members \cap covered = {}
      BY <1>7
    <2> QED BY <2>1, <2>2
  <1>10. /\ r.coverage[1] = r.signalled[1] + r.ordinary[1]
         /\ r.coverage[1] = 0 <=> reached(clusters) = {}
    <2> DEFINE A == reached(loud)
               B == reached(clusters \ loud)
    <2>1. loud \subseteq clusters
      BY DEF loud
    <2>2. A \cup B = reached(clusters) /\ A \cap B = {} /\ A \subseteq clusters /\ B \subseteq clusters
      BY <2>1
    <2> HIDE DEF A, B
    <2>3. IsFiniteSet(A) /\ IsFiniteSet(B)
      BY <1>2, <2>2, FS_Subset
    <2>4. /\ IsFiniteSet(A \cup B)
          /\ Cardinality(A \cup B) = Cardinality(A) + Cardinality(B) - Cardinality(A \cap B)
      BY <2>3, FS_Union
    <2>5. Cardinality(A) \in Nat /\ Cardinality(B) \in Nat /\ Cardinality(A \cap B) = 0
      BY <2>2, <2>3, FS_CardinalityType, FS_EmptySet
    <2>6. Cardinality(A \cup B) = Cardinality(A) + Cardinality(B)
      BY <2>4, <2>5
    <2>7. Cardinality(A \cup B) = 0 <=> A \cup B = {}
      BY <2>4, FS_EmptySet
    <2>8. r.coverage[1] = Cardinality(A \cup B) /\ r.signalled[1] = Cardinality(A)
          /\ r.ordinary[1] = Cardinality(B)
      BY <1>7, <1>8, <2>2 DEF A, B
    <2> HIDE DEF reached
    <2> QED BY <2>2, <2>6, <2>7, <2>8
  <1>11. reached(clusters) = {} <=> covered = {}
    <2>1. covered \subseteq Held(f)
      BY DEF covered, Covered
    <2>2. \A i \in Held(f) : \E c \in clusters : i \in c.members
      BY <1>1 DEF Clustered, clusters
    <2> QED BY <2>1, <2>2
  <1>12. covered = {} <=> r.stale = cases
    <2>1. \A s, t : Jaccard(s, t) = Jaccard(t, s)
      <3> SUFFICES ASSUME NEW s, NEW t PROVE Jaccard(s, t) = Jaccard(t, s)
        OBVIOUS
      <3>1. s \cap t = t \cap s /\ s \cup t = t \cup s
        OBVIOUS
      <3> QED BY <3>1 DEF Jaccard
    <2>2. covered = {i \in Held(f) : \E t \in cases : AtLeast(Jaccard(Facts[i].phrases, t), Neighbour)}
      BY DEF covered, Covered, Near
    <2>3. r.stale = {t \in cases : ~ \E i \in Held(f) : AtLeast(Jaccard(t, Facts[i].phrases), Neighbour)}
      BY <1>7 DEF Near
    <2> QED BY <2>1, <2>2, <2>3
  <1>13. /\ r.signalled[2] = Cardinality(loud)
         /\ r.signalled[1] = Cardinality({c \in loud : c.members \notin r.gaps})
         /\ r.ordinary[2] = Cardinality(clusters \ loud)
         /\ r.coverage[1] = r.signalled[1] + r.ordinary[1]
         /\ r.coverage[1] = 0 <=> r.stale = cases
    <2> HIDE DEF reached
    <2> QED BY <1>8, <1>9, <1>10, <1>11, <1>12
  <1> QED BY <1>13 DEF r, loud, plain, clusters

----------------------------------------------------------------------------
(***************************************************************************)
(* What the last command told, in every state.                             *)
(***************************************************************************)
\* Which step a command's name stands for.
LEMMA CommandOf ==
    ASSUME [Next]_vars, ~UNCHANGED vars
    PROVE  /\ last'.command = "select" => \E w \in Windows : Select(w)
           /\ last'.command = "health" => \E w \in Windows, d \in Datasets : Health(w, d)
           /\ last'.command = "drift" => \E v, w \in Windows : Drift(v, w)
           /\ last'.command = "score" =>
                \/ \E w \in Windows : ScoreRefused(w)
                \/ \E w \in Windows, g \in Existing : Score(w, g) \/ ScoreKilled(w, g)
  <1>1. CASE \E w \in Windows, s \in Sources : Ingest(w, s) \/ IngestKilled(w, s)
    <2>1. last'.command = "ingest"
      <3>1. ASSUME NEW w, NEW s, Ingest(w, s) PROVE last'.command = "ingest"
        BY <3>1 DEF Ingest, End
      <3>2. ASSUME NEW w, NEW s, IngestKilled(w, s) PROVE last'.command = "ingest"
        BY <3>2 DEF IngestKilled, Kill
      <3> QED BY <1>1, <3>1, <3>2
    <2> QED BY <2>1
  <1>2. CASE \E w \in Windows : ScoreRefused(w)
    <2>1. last'.command = "score"
      BY <1>2 DEF ScoreRefused, End
    <2> QED BY <1>2, <2>1
  <1>3. CASE \E w \in Windows : Cluster(w)
    <2>1. last'.command = "cluster"
      BY <1>3 DEF Cluster, End
    <2> QED BY <2>1
  <1>4. CASE \E w \in Windows : Select(w)
    <2>1. last'.command = "select"
      BY <1>4 DEF Select, End
    <2> QED BY <1>4, <2>1
  <1>5. CASE \E w \in Windows, g \in Existing : Score(w, g) \/ ScoreKilled(w, g)
    <2>1. last'.command = "score"
      BY <1>5 DEF Score, ScoreKilled, End, Kill
    <2> QED BY <1>5, <2>1
  <1>6. CASE \E w \in Windows, d \in Datasets : Health(w, d)
    <2>1. last'.command = "health"
      BY <1>6 DEF Health
    <2> QED BY <1>6, <2>1
  <1>7. CASE \E v, w \in Windows : Drift(v, w)
    <2>1. last'.command = "drift"
      BY <1>7 DEF Drift
    <2> QED BY <1>7, <2>1
  <1> QED BY <1>1, <1>2, <1>3, <1>4, <1>5, <1>6, <1>7 DEF Next

\* What a select says is judged when it is made, and stays.
LEMMA SelectKept ==
    PipelineInv /\ PipelineInv' /\ SelectOverOneWindow /\ [Next]_vars => SelectOverOneWindow'
  <1> SUFFICES ASSUME PipelineInv, PipelineInv', SelectOverOneWindow, [Next]_vars,
                      last'.command = "select", last'.verdict = "ok",
                      IsInjective(files'[last'.window].records.rows)
               PROVE  Current(files'[last'.window]) /\ Partitioned(files'[last'.window])
    BY DEF SelectOverOneWindow, Current, Partitioned, Clustered, Held, ScoreRows, Declared
  <1>1. CASE UNCHANGED vars
    BY <1>1 DEF vars, SelectOverOneWindow
  <1>2. ASSUME NEW w \in Windows, Select(w)
        PROVE  Current(files'[last'.window]) /\ Partitioned(files'[last'.window])
    <2>1. files' = files /\ last'.window = w /\ Verdict(SelectChecks(files[w])) = "ok"
      BY <1>2 DEF Select, End
    <2>2. Fits(files[w])
      BY DEF PipelineInv
    <2>3. IsInjective(files[w].records.rows)
      BY <2>1
    <2>4. Current(files[w]) /\ Partitioned(files[w])
      BY <2>1, <2>2, <2>3, SelectedWell
    <2> QED BY <2>1, <2>4
  <1>3. CASE \E w \in Windows : Select(w)
    BY <1>2, <1>3
  <1> QED BY <1>1, <1>3, CommandOf

\* What select goes on with is the ranking and a partition of the records as they
\* are (select/run.py).
THEOREM SelectSeesOneWindow == Spec => []SelectOverOneWindow
  <1>1. Init => SelectOverOneWindow
    BY DEF Init, SelectOverOneWindow
  <1> QED BY <1>1, SelectKept, PipelineInvAlways, PTL DEF Spec

\* The drift property, by its windows.
LEMMA DriftIs ==
    /\ DriftTellsOneStory <=>
         (last.command = "drift" /\ last.verdict = "ok" =>
             DriftTold(files[last.windows[1]], files[last.windows[2]], last.report))
    /\ DriftTellsOneStory' <=>
         (last'.command = "drift" /\ last'.verdict = "ok" =>
             DriftTold(files'[last'.windows[1]], files'[last'.windows[2]], last'.report))
  <1>1. DriftTellsOneStory <=>
          (last.command = "drift" /\ last.verdict = "ok" =>
              DriftTold(files[last.windows[1]], files[last.windows[2]], last.report))
    BY Zenon DEF DriftTellsOneStory, DriftTold
  <1>2. DriftTellsOneStory' <=>
          (last'.command = "drift" /\ last'.verdict = "ok" =>
              DriftTold(files'[last'.windows[1]], files'[last'.windows[2]], last'.report))
    BY Zenon DEF DriftTellsOneStory, DriftTold, Held, ScoredIds, Texts
  <1> QED BY <1>1, <1>2

\* Every command leaves a drift report that agrees with itself.
LEMMA DriftKept ==
    PipelineInv /\ PipelineInv' /\ DriftTellsOneStory /\ [Next]_vars => DriftTellsOneStory'
  <1> SUFFICES ASSUME PipelineInv, DriftTellsOneStory, [Next]_vars
               PROVE  DriftTellsOneStory'
    OBVIOUS
  <1>1. CASE UNCHANGED vars
    BY <1>1, DriftIs DEF vars
  <1>2. ASSUME NEW v \in Windows, NEW w \in Windows, Drift(v, w)
        PROVE  DriftTellsOneStory'
    <2> DEFINE f == files[v]
               g == files[w]
    <2>1. Fits(f) /\ Fits(g)
      BY DEF PipelineInv
    <2>2. files' = files /\ last'.verdict = Verdict(DriftChecks(f, g))
      BY <1>2 DEF Drift
    <2>3. last'.verdict = "ok" =>
            /\ last'.windows[1] = v /\ last'.windows[2] = w
            /\ last'.report = DriftReport(f, g)
      BY <1>2 DEF Drift
    <2>4. last'.verdict = "ok" => DriftTold(f, g, DriftReport(f, g))
      BY <2>1, <2>2, ReportTells
    <2>5. last'.verdict = "ok" => files'[last'.windows[1]] = f /\ files'[last'.windows[2]] = g
      BY <2>2, <2>3
    <2> HIDE DEF f, g
    <2> QED BY <2>3, <2>4, <2>5, DriftIs
  <1>3. CASE last'.command = "drift" /\ ~UNCHANGED vars
    BY <1>2, <1>3, CommandOf
  <1>4. CASE last'.command # "drift"
    BY <1>4, DriftIs
  <1> QED BY <1>1, <1>3, <1>4

\* The two halves of a drift report agree with each other and with the records,
\* however the windows were ordered, clustered and scored before (drift/run.py).
THEOREM DriftIsOneStory == Spec => []DriftTellsOneStory
  <1>1. Init => DriftTellsOneStory
    BY DEF Init, DriftTellsOneStory
  <1> QED BY <1>1, DriftKept, PipelineInvAlways, PTL DEF Spec

\* What ScoreExitHonest says of one window.
ExitTold(f, partial) ==
    LET silent(s) == \A i \in Held(f) : s \notin NamesOf(f, i) IN
    IF partial
    THEN silent("version_disagreement") \/ silent("format_violation")
    ELSE /\ \A i, j \in Held(f) :
               /\ Facts[i].question = Facts[j].question
               /\ Facts[i].version # Facts[j].version
               /\ None \notin {Facts[i].version, Facts[j].version}
               /\ Steady(f, i) /\ Steady(f, j) /\ Outcome(i) # Outcome(j)
               => "version_disagreement" \in NamesOf(f, i) \cap NamesOf(f, j)
         /\ \A i \in Held(f) :
               TRUE \in Declared(f) /\ Facts[i].outLen # None /\ ~Facts[i].parses
               => "format_violation" \in NamesOf(f, i)

\* The two sides of the property.
LEMMA ScoreExitIs ==
    /\ ScoreExitHonest <=>
         (last.command = "score" /\ last.verdict \in {"ok", "partial"} =>
             ExitTold(files[last.window], last.verdict = "partial"))
    /\ ScoreExitHonest' <=>
         (last'.command = "score" /\ last'.verdict \in {"ok", "partial"} =>
             ExitTold(files'[last'.window], last'.verdict = "partial"))
  <1>1. ScoreExitHonest <=>
          (last.command = "score" /\ last.verdict \in {"ok", "partial"} =>
              ExitTold(files[last.window], last.verdict = "partial"))
    BY Zenon DEF ScoreExitHonest, ExitTold
  <1>2. ScoreExitHonest' <=>
          (last'.command = "score" /\ last'.verdict \in {"ok", "partial"} =>
              ExitTold(files'[last'.window], last'.verdict = "partial"))
    BY Zenon DEF ScoreExitHonest, ExitTold
  <1> QED BY <1>1, <1>2

\* A score that ends well leaves the window with the rows of its own records.
LEMMA AfterScore ==
    ASSUME PipelineInv, PipelineInv', NEW w \in Windows, NEW x \in Existing, Score(w, x)
    PROVE  /\ files'[w] \in WindowFiles
           /\ files'[w].scores.rows = ScoreRows(files'[w], x)
           /\ last'.window = w
           /\ last'.verdict =
                IF Blocked(files'[w].manifest.dedupe, Declared(files'[w])) THEN "partial" ELSE "ok"
  <1> DEFINE f == files[w]
             g == files'[w]
  <1>1. f \in WindowFiles /\ g \in WindowFiles
    BY DEF PipelineInv
  <1>2. files' = [files EXCEPT ![w]["scores"] = Whole(ScoreRows(f, x))]
    BY DEF Score, Put
  <1>3. g = [f EXCEPT !["scores"] = Whole(ScoreRows(f, x))]
    BY <1>2 DEF PipelineInv
  <1>4. /\ g.scores.rows = ScoreRows(f, x)
        /\ g.records = f.records /\ g.manifest = f.manifest
    BY <1>1, <1>3 DEF WindowFiles, Whole
  <1>5. /\ last'.window = w
        /\ last'.verdict = IF Blocked(f.manifest.dedupe, Declared(f)) THEN "partial" ELSE "ok"
    BY DEF Score, End
  <1> HIDE DEF f, g
  <1>6. ScoreRows(g, x) = ScoreRows(f, x) /\ Declared(g) = Declared(f)
    BY <1>4 DEF ScoreRows, Declared
  <1>7. g.scores.rows = ScoreRows(g, x)
    BY <1>4, <1>6
  <1>8. last'.verdict = IF Blocked(g.manifest.dedupe, Declared(g)) THEN "partial" ELSE "ok"
    BY <1>4, <1>5, <1>6
  <1> QED BY <1>1, <1>5, <1>7, <1>8 DEF g

\* Only a score that was neither refused nor killed ends so.
LEMMA SuccessIsScore ==
    ASSUME PipelineInv, [Next]_vars, ~UNCHANGED vars,
           last'.command = "score", last'.verdict \in {"ok", "partial"}
    PROVE  \E w \in Windows, x \in Existing : Score(w, x)
  <1>1. ASSUME NEW w \in Windows, NEW x \in Existing, ScoreKilled(w, x) PROVE FALSE
    <2>1. last'.verdict = "killed"
      BY <1>1 DEF ScoreKilled, Kill
    <2> QED BY <2>1
  <1>2. ASSUME NEW w \in Windows, ScoreRefused(w) PROVE FALSE
    <2>1. /\ last'.verdict = Verdict(ScoreChecks(files[w])) /\ last'.verdict # "ok"
          /\ files[w] \in WindowFiles
      BY <1>2 DEF ScoreRefused, End, PipelineInv
    <2>2. last'.verdict \in Refusals
      BY <2>1, ScoreVerdict
    <2> QED BY <2>2 DEF Refusals
  <1> QED BY <1>1, <1>2, CommandOf

\* Every command leaves the exit code of score right.
LEMMA ScoreExitKept ==
    PipelineInv /\ PipelineInv' /\ ScoreExitHonest /\ [Next]_vars => ScoreExitHonest'
  <1> SUFFICES ASSUME PipelineInv, PipelineInv', ScoreExitHonest, [Next]_vars
               PROVE  ScoreExitHonest'
    OBVIOUS
  <1>1. CASE UNCHANGED vars
    BY <1>1, ScoreExitIs DEF vars
  <1>2. CASE last'.command = "score" /\ last'.verdict \in {"ok", "partial"} /\ ~UNCHANGED vars
    <2>1. PICK w \in Windows, x \in Existing : Score(w, x)
      BY <1>2, SuccessIsScore
    <2> DEFINE g == files'[w]
    <2>2. /\ g \in WindowFiles /\ g.scores.rows = ScoreRows(g, x)
          /\ last'.window = w
          /\ last'.verdict = IF Blocked(g.manifest.dedupe, Declared(g)) THEN "partial" ELSE "ok"
      BY <2>1, AfterScore
    <2>3. files'[last'.window] = g
      BY <2>2
    <2> HIDE DEF g
    <2>4. CASE Blocked(g.manifest.dedupe, Declared(g))
      <3>1. last'.verdict = "partial"
        BY <2>2, <2>4
      <3> QED BY <2>2, <2>3, <2>4, <3>1, ExitTells, ScoreExitIs DEF ExitTold
    <2>5. CASE ~Blocked(g.manifest.dedupe, Declared(g))
      <3>1. last'.verdict # "partial"
        BY <2>2, <2>5
      <3> QED BY <2>2, <2>3, <2>5, <3>1, ExitTells, ScoreExitIs DEF ExitTold
    <2> QED BY <2>4, <2>5
  <1>3. CASE ~(last'.command = "score" /\ last'.verdict \in {"ok", "partial"})
    BY <1>3, ScoreExitIs
  <1> QED BY <1>1, <1>2, <1>3

\* Exit 0 of score says that nothing was invisible, exit 1 that something was
\* (cli_score.py, score/run.py, score/context.py).
THEOREM ScoreExitTells == Spec => []ScoreExitHonest
  <1>1. Init => ScoreExitHonest
    BY DEF Init, ScoreExitHonest
  <1> QED BY <1>1, ScoreExitKept, PipelineInvAlways, PTL DEF Spec

\* What HealthTellsOneStory says of one report of one window.
StoryTold(f, r, cases) ==
    LET clusters == ToSet(f.clusters.rows)
        plain == Context(f.records.rows, f.manifest.dedupe, Declared(f), None)
        loud == {c \in clusters : \E i \in c.members : Row(i, plain).names # {}}
    IN  Current(f) /\ Partitioned(f) =>
          /\ r.signalled[2] = Cardinality(loud)
          /\ r.signalled[1] = Cardinality({c \in loud : c.members \notin r.gaps})
          /\ r.ordinary[2] = Cardinality(clusters \ loud)
          /\ r.coverage[1] = r.signalled[1] + r.ordinary[1]
          /\ r.coverage[1] = 0 <=> r.stale = cases

\* The property, and the report it is about.
LEMMA HealthIs ==
    /\ HealthTellsOneStory <=>
         (last.command = "health" /\ last.verdict = "ok" =>
             StoryTold(files[last.window], last.report, last.cases))
    /\ HealthTellsOneStory' <=>
         (last'.command = "health" /\ last'.verdict = "ok" =>
             StoryTold(files'[last'.window], last'.report, last'.cases))
  <1>1. HealthTellsOneStory <=>
          (last.command = "health" /\ last.verdict = "ok" =>
              StoryTold(files[last.window], last.report, last.cases))
    BY Zenon DEF HealthTellsOneStory, StoryTold
  <1>2. HealthTellsOneStory' <=>
          (last'.command = "health" /\ last'.verdict = "ok" =>
              StoryTold(files'[last'.window], last'.report, last'.cases))
    BY Zenon DEF HealthTellsOneStory, StoryTold
  <1> QED BY <1>1, <1>2

\* Every command leaves the report of health right.
LEMMA HealthKept ==
    PipelineInv /\ PipelineInv' /\ HealthTellsOneStory /\ [Next]_vars => HealthTellsOneStory'
  <1> SUFFICES ASSUME PipelineInv, HealthTellsOneStory, [Next]_vars
               PROVE  HealthTellsOneStory'
    OBVIOUS
  <1>1. CASE UNCHANGED vars
    BY <1>1, HealthIs DEF vars
  <1>2. ASSUME NEW w \in Windows, NEW d \in Datasets, Health(w, d)
        PROVE  HealthTellsOneStory'
    <2> DEFINE f == files[w]
               r == HealthReport(f, d)
    <2>1. Fits(f)
      BY DEF PipelineInv
    <2>2. files' = files
      BY <1>2 DEF Health
    <2>3. last'.verdict = "ok" => last'.window = w /\ last'.cases = d /\ last'.report = r
      BY <1>2 DEF Health
    <2>4. StoryTold(f, r, d)
      BY <2>1, ReportAdds DEF StoryTold
    <2>5. last'.verdict = "ok" => files'[last'.window] = f
      BY <2>2, <2>3
    <2> HIDE DEF f, r
    <2> QED BY <2>3, <2>4, <2>5, HealthIs
  <1>3. CASE last'.command = "health" /\ ~UNCHANGED vars
    BY <1>2, <1>3, CommandOf
  <1>4. CASE last'.command # "health"
    BY <1>4, HealthIs
  <1> QED BY <1>1, <1>3, <1>4

\* A health report over current files cannot contradict itself (health/run.py).
THEOREM HealthIsOneStory == Spec => []HealthTellsOneStory
  <1>1. Init => HealthTellsOneStory
    BY DEF Init, HealthTellsOneStory
  <1> QED BY <1>1, HealthKept, PipelineInvAlways, PTL DEF Spec

\* As many of n observations as the rank counts: more than Percent of them, or
\* exactly so many where the floating product does not overshoot.
Reaches(c, n) == 100 * c > Percent * n \/ (100 * c = Percent * n /\ n \notin RoundsUp)

----------------------------------------------------------------------------
(***************************************************************************)
(* The outliers: the nearest rank of a sample, by the numbering of a       *)
(* finite total order.                                                     *)
(***************************************************************************)
\* The nearest rank is the least number of observations that is Percent of them.
LEMMA RankIs ==
    ASSUME NEW n \in Nat, n >= 1
    PROVE  /\ Rank(n) \in 1 .. n
           /\ \A c \in Nat : Reaches(c, n) <=> c >= Rank(n)
  <1> DEFINE m == Percent * n
             up == IF n \in RoundsUp THEN 1 ELSE 0
             q == (m + 99) \div 100
  <1>1. m \in Nat /\ m >= 1 /\ m + n <= 100 * n
    <2>1. Percent \in Nat /\ Percent >= 1 /\ Percent <= 99
      BY SettingsAssumption
    <2>2. \A a, b \in Nat : a >= 1 /\ b >= 1 /\ a <= 99 => a * b \in Nat /\ a * b >= 1 /\ a * b + b <= 100 * b
      <3> SUFFICES ASSUME NEW a \in Nat, NEW b \in Nat, a >= 1, b >= 1, a <= 99
                   PROVE  a * b \in Nat /\ a * b >= 1 /\ a * b + b <= 100 * b
        OBVIOUS
      <3>1. PICK d \in Nat : a = 1 + d
        <4>1. a - 1 \in Nat /\ a = 1 + (a - 1)
          OBVIOUS
        <4> QED BY <4>1
      <3>2. a * b = b + d * b /\ d * b \in Nat
        BY <3>1
      <3>3. PICK e \in Nat : 99 = a + e
        <4>1. 99 - a \in Nat /\ 99 = a + (99 - a)
          OBVIOUS
        <4> QED BY <4>1
      <3>4. 99 * b = a * b + e * b /\ e * b \in Nat
        BY <3>3
      <3> QED BY <3>2, <3>4
    <2> QED BY <2>1, <2>2
  <1>2. n \in RoundsUp => m % 100 = 0
    BY RoundsUpAssumption
  <1> HIDE DEF m
  <1>3. q \in Nat /\ q >= 1 /\ q <= n /\ \A c \in Nat : 100 * c >= m <=> c >= q
    BY <1>1
  <1>4. n \in RoundsUp => 100 * q = m /\ q + 1 <= n
    BY <1>1, <1>2
  <1> HIDE DEF q
  <1> DEFINE r == q + up
  <1>5. r \in Nat /\ r >= 1 /\ r <= n
    BY <1>3, <1>4
  <1>6. \A c \in Nat : (100 * c > m \/ (100 * c = m /\ n \notin RoundsUp)) <=> c >= r
    <2>1. CASE n \in RoundsUp
      BY <1>3, <1>4, <2>1
    <2>2. CASE n \notin RoundsUp
      <3>1. r = q
        BY <1>3, <2>2
      <3>2. \A c \in Nat : 100 * c >= m <=> 100 * c > m \/ 100 * c = m
        BY <1>1
      <3> QED BY <1>3, <2>2, <3>1, <3>2
    <2> QED BY <2>1, <2>2
  <1> HIDE DEF r
  <1>7. Max({r, 1}) = r
    <2>1. r \in {r, 1} /\ \A y \in {r, 1} : r >= y
      BY <1>5
    <2>2. \A x \in {r, 1} : (\A y \in {r, 1} : x >= y) => x = r
      BY <1>5
    <2> QED BY <2>1, <2>2 DEF Max
  <1>8. Rank(n) = r
    BY <1>7 DEF Rank, r, up, q, m
  <1> QED BY <1>5, <1>6, <1>8 DEF Reaches, m

\* A value reaches the percentile exactly when Percent of the sample does not pass it.
LEMMA PercentileIsTheTail ==
    ASSUME NEW S \in SUBSET Nat, IsFiniteSet(S), NEW sample \in [S -> Nat],
           Size(sample) >= 1, NEW v \in Nat
    PROVE  /\ \E k \in S : Percentile(sample) = sample[k]
           /\ v >= Percentile(sample) <=>
                Reaches(AtMost(sample, v), Size(sample))
  <1> DEFINE L == {d \in S \X S : \/ sample[d[1]] < sample[d[2]]
                                  \/ (sample[d[1]] = sample[d[2]] /\ d[1] < d[2])}
             n == Size(sample)
             at == CHOOSE k \in DOMAIN sample : Position(sample, k) = Rank(n)
             A == {k \in S : sample[k] <= v}
  <1>1. n = Cardinality(S) /\ n \in Nat /\ n >= 1
    BY FS_CardinalityType DEF Size
  <1>2. \A x \in S : x \in Nat /\ sample[x] \in Nat
    OBVIOUS
  <1>3. /\ \A x \in S : <<x, x>> \notin L
        /\ \A x, y, z \in S : <<x, y>> \in L /\ <<y, z>> \in L => <<x, z>> \in L
        /\ \A x, y \in S : x = y \/ <<x, y>> \in L \/ <<y, x>> \in L
    <2>1. \A x \in S : <<x, x>> \notin L
      BY <1>2
    <2>2. \A x, y, z \in S : <<x, y>> \in L /\ <<y, z>> \in L => <<x, z>> \in L
      <3> TAKE x, y, z \in S
      <3>1. /\ sample[x] \in Nat /\ sample[y] \in Nat /\ sample[z] \in Nat
            /\ x \in Nat /\ y \in Nat /\ z \in Nat
        BY <1>2
      <3> QED BY <3>1
    <2>3. \A x, y \in S : x = y \/ <<x, y>> \in L \/ <<y, x>> \in L
      <3> TAKE x, y \in S
      <3>1. sample[x] \in Nat /\ sample[y] \in Nat /\ x \in Nat /\ y \in Nat
        BY <1>2
      <3> QED BY <3>1
    <2> QED BY <2>1, <2>2, <2>3
  <1>4. \A k \in S : Position(sample, k) = Cardinality(UpTo(S, L, k))
    <2> SUFFICES ASSUME NEW k \in S PROVE Position(sample, k) = Cardinality(UpTo(S, L, k))
      OBVIOUS
    <2>1. {j \in DOMAIN sample : sample[j] < sample[k] \/ (sample[j] = sample[k] /\ j <= k)}
            = UpTo(S, L, k)
      <3>1. ASSUME NEW j \in S
            PROVE  (sample[j] < sample[k] \/ (sample[j] = sample[k] /\ j <= k))
                     <=> (j = k \/ <<j, k>> \in L)
        <4>1. /\ sample[j] \in Nat /\ sample[k] \in Nat /\ j \in Nat /\ k \in Nat
              /\ j = k => sample[j] = sample[k]
          BY <1>2
        <4>2. <<j, k>> \in L <=> (sample[j] < sample[k] \/ (sample[j] = sample[k] /\ j < k))
          OBVIOUS
        <4> HIDE DEF L
        <4> QED BY <4>1, <4>2
      <3> HIDE DEF L
      <3>2. DOMAIN sample = S
        OBVIOUS
      <3> QED BY <3>1, <3>2 DEF UpTo
    <2> QED BY <2>1 DEF Position
  <1> HIDE DEF n
  <1>5. Rank(n) \in 1 .. n /\ \A c \in Nat : Reaches(c, n) <=> c >= Rank(n)
    BY <1>1, RankIs
  <1>6. \E k \in S : Cardinality(UpTo(S, L, k)) = Rank(n)
    <2> HIDE DEF L
    <2>1. \A k \in 1 .. Cardinality(S) : \E x \in S : Cardinality(UpTo(S, L, x)) = k
      BY <1>3, Numbering
    <2>2. Rank(n) \in 1 .. Cardinality(S)
      BY <1>1, <1>5
    <2> QED BY <2>1, <2>2
  <1>7. at \in S /\ Cardinality(UpTo(S, L, at)) = Rank(n)
    <2>1. \E k \in DOMAIN sample : Position(sample, k) = Rank(n)
      <3> HIDE DEF L
      <3> QED BY <1>4, <1>6
    <2>2. at \in DOMAIN sample /\ Position(sample, at) = Rank(n)
      BY <2>1
    <2> HIDE DEF L, at
    <2> QED BY <1>4, <2>2
  <1>8. Percentile(sample) = sample[at]
    BY DEF Percentile, n
  <1> HIDE DEF at
  <1> DEFINE U == UpTo(S, L, at)
  <1>9. U \in SUBSET S /\ IsFiniteSet(U) /\ at \in U /\ Cardinality(U) = Rank(n)
    <2>1. U \in SUBSET S /\ at \in U
      BY <1>7 DEF UpTo
    <2> HIDE DEF U
    <2>2. IsFiniteSet(U)
      BY <2>1, FS_Subset
    <2> QED BY <1>7, <2>1, <2>2 DEF U
  <1>10. IsFiniteSet(A) /\ Cardinality(A) \in Nat
    BY FS_Subset, FS_CardinalityType
  <1>11. ASSUME v >= sample[at] PROVE Cardinality(A) >= Rank(n)
    <2>1. U \in SUBSET A
      <3> SUFFICES ASSUME NEW y \in U PROVE sample[y] <= v /\ y \in S
        OBVIOUS
      <3>1. y \in S /\ (y = at \/ <<y, at>> \in L)
        BY DEF UpTo
      <3>2. sample[y] <= sample[at] /\ sample[y] \in Nat /\ sample[at] \in Nat
        BY <1>2, <1>7, <3>1
      <3> QED BY <1>11, <3>1, <3>2
    <2> HIDE DEF U, A
    <2>2. Cardinality(U) <= Cardinality(A)
      BY <1>10, <2>1, FS_Subset
    <2> QED BY <1>5, <1>9, <1>10, <2>2
  <1>12. ASSUME ~(v >= sample[at]) PROVE ~(Cardinality(A) >= Rank(n))
    <2>1. A \in SUBSET (U \ {at})
      <3> SUFFICES ASSUME NEW y \in A PROVE y \in U /\ y # at
        OBVIOUS
      <3>1. y \in S /\ sample[y] <= v /\ sample[y] \in Nat /\ sample[at] \in Nat
        BY <1>2, <1>7
      <3>2. sample[y] < sample[at]
        BY <1>12, <3>1
      <3>3. <<y, at>> \in L
        BY <1>7, <3>1, <3>2
      <3> QED BY <3>1, <3>2, <3>3 DEF UpTo
    <2> HIDE DEF U, A
    <2>2. IsFiniteSet(U \ {at}) /\ Cardinality(U \ {at}) = Cardinality(U) - 1
      BY <1>9, CardRemove
    <2>3. Cardinality(A) <= Cardinality(U \ {at})
      BY <2>1, <2>2, FS_Subset
    <2> QED BY <1>5, <1>9, <1>10, <2>2, <2>3
  <1>13. v >= sample[at] <=> Reaches(Cardinality(A), n)
    <2> HIDE DEF A
    <2> QED BY <1>5, <1>10, <1>11, <1>12
  <1>14. Cardinality(A) = AtMost(sample, v)
    BY DEF AtMost
  <1> HIDE DEF A
  <1> QED BY <1>7, <1>8, <1>13, <1>14 DEF n

\* A value is one that the sample says is extreme.
InTail(sample, value) ==
    /\ value # None
    /\ Size(sample) >= MinSample
    /\ Reaches(AtMost(sample, value), Size(sample))

Fields == {"latency", "inLen", "outLen"}

\* A sample is over the places of a window.
LEMMA SampleOf ==
    ASSUME NEW w \in Seq(Ids), NEW field \in Fields
    PROVE  /\ DOMAIN Sample(w, field) \in SUBSET Nat
           /\ IsFiniteSet(DOMAIN Sample(w, field))
           /\ Sample(w, field) \in [DOMAIN Sample(w, field) -> Nat]
           /\ \A k \in DOMAIN Sample(w, field) : Sample(w, field)[k] # None
  <1> DEFINE S == {n \in DOMAIN w : Facts[w[n]][field] # None}
  <1>1. Sample(w, field) = [k \in S |-> Facts[w[k]][field]]
    BY DEF Sample
  <1>2. \A k \in DOMAIN w : w[k] \in Ids
    OBVIOUS
  <1>3. \A i \in Ids : Facts[i][field] \in Nat \cup {None}
    BY FactsAssumption DEF Fact, Fields
  <1>4. DOMAIN w = 1 .. Len(w) /\ Len(w) \in Nat
    OBVIOUS
  <1>5. S \in SUBSET Nat /\ IsFiniteSet(S)
    <2>1. IsFiniteSet(DOMAIN w)
      BY <1>4, UpToFinite
    <2>2. S \in SUBSET DOMAIN w
      OBVIOUS
    <2> HIDE DEF S
    <2> QED BY <1>4, <2>1, <2>2, FS_Subset
  <1>6. \A k \in S : Facts[w[k]][field] \in Nat /\ Facts[w[k]][field] # None
    BY <1>2, <1>3
  <1> HIDE DEF S
  <1> QED BY <1>1, <1>5, <1>6

\* Beyond the threshold is in the tail, and nowhere else.
LEMMA BeyondIsInTail ==
    ASSUME NEW w \in Seq(Ids), NEW field \in Fields, NEW value \in Nat \cup {None}
    PROVE  Beyond(value, Threshold(w, field)) <=> InTail(Sample(w, field), value)
  <1> DEFINE s == Sample(w, field)
             S == DOMAIN s
  <1>1. /\ S \in SUBSET Nat /\ IsFiniteSet(S) /\ s \in [S -> Nat]
        /\ \A k \in S : s[k] # None
    BY SampleOf
  <1>2. Size(s) \in Nat /\ MinSample \in Nat /\ MinSample >= 1
    BY <1>1, FS_CardinalityType, SettingsAssumption DEF Size
  <1>3. Threshold(w, field) = IF Size(s) < MinSample THEN None ELSE Percentile(s)
    BY DEF Threshold
  <1>0. s = Sample(w, field)
    OBVIOUS
  <1> HIDE DEF s
  <1>4. CASE Size(s) < MinSample
    BY <1>0, <1>2, <1>3, <1>4 DEF Beyond, InTail
  <1>5. CASE value = None
    BY <1>5 DEF Beyond, InTail
  <1>6. CASE ~(Size(s) < MinSample) /\ value # None
    <2>1. value \in Nat /\ Size(s) >= 1 /\ Size(s) >= MinSample
      BY <1>2, <1>6
    <2>2. /\ \E k \in S : Percentile(s) = s[k]
          /\ value >= Percentile(s) <=>
                Reaches(AtMost(s, value), Size(s))
      BY <1>1, <2>1, PercentileIsTheTail
    <2>3. Percentile(s) # None
      BY <1>1, <2>2
    <2>4. Beyond(value, Threshold(w, field)) <=> value >= Percentile(s)
      BY <1>3, <1>6, <2>3 DEF Beyond
    <2>5. InTail(s, value) <=> Reaches(AtMost(s, value), Size(s))
      BY <1>6, <2>1 DEF InTail
    <2> QED BY <1>0, <2>2, <2>4, <2>5
  <1> QED BY <1>4, <1>5, <1>6

\* A record is told an outlier exactly when it reaches its window's rank.
OutliersTold(f) ==
    \A r \in ToSet(f.scores.rows) :
        /\ "latency_outlier" \in r.names <=>
             InTail(Sample(f.records.rows, "latency"), Facts[r.id].latency)
        /\ "length_outlier" \in r.names <=>
             \/ InTail(Sample(f.records.rows, "inLen"), Facts[r.id].inLen)
             \/ InTail(Sample(f.records.rows, "outLen"), Facts[r.id].outLen)

\* A score that ended well has told the outliers of its window, by the rank the code
\* computes (score/context.py, percentile).
OutliersByRank ==
    last.command = "score" /\ last.verdict \in {"ok", "partial"} =>
        last.window \in Windows /\ OutliersTold(files[last.window])

\* The rows that scoring writes tell the tails of the records they score.
LEMMA ScoringTells ==
    ASSUME NEW f \in WindowFiles, NEW x, f.scores.rows = ScoreRows(f, x)
    PROVE  OutliersTold(f)
  <1> DEFINE w == f.records.rows
             c == Context(w, f.manifest.dedupe, Declared(f), x)
  <1>1. w \in Seq(Ids)
    BY FilesTyped
  <1>2. /\ c.latency = Threshold(w, "latency")
        /\ c.inLen = Threshold(w, "inLen")
        /\ c.outLen = Threshold(w, "outLen")
    BY DEF Context
  <1>3. f.scores.rows = [j \in DOMAIN w |-> Row(w[j], c)]
    BY DEF ScoreRows
  <1> SUFFICES ASSUME NEW r \in ToSet(f.scores.rows)
               PROVE  /\ "latency_outlier" \in r.names <=>
                           InTail(Sample(w, "latency"), Facts[r.id].latency)
                      /\ "length_outlier" \in r.names <=>
                           \/ InTail(Sample(w, "inLen"), Facts[r.id].inLen)
                           \/ InTail(Sample(w, "outLen"), Facts[r.id].outLen)
    BY DEF OutliersTold
  <1> HIDE DEF c, w
  <1>4. PICK j \in DOMAIN w : r = Row(w[j], c)
    BY <1>3 DEF ToSet
  <1> DEFINE i == w[j]
  <1>5. i \in Ids
    BY <1>1
  <1> HIDE DEF i
  <1>6. r.id = i /\ r.names = {s \in SignalNames : Fires(i, c)[s]}
    BY <1>4, <1>5, RowTyped DEF i
  <1>7. /\ Facts[i].latency \in Nat \cup {None}
        /\ Facts[i].inLen \in Nat \cup {None}
        /\ Facts[i].outLen \in Nat \cup {None}
    BY <1>5, FactsAssumption DEF Fact
  <1>8. /\ "latency_outlier" \in SignalNames
        /\ "length_outlier" \in SignalNames
    BY DEF SignalNames
  <1>9. /\ Fires(i, c)["latency_outlier"] <=> Beyond(Facts[i].latency, c.latency)
        /\ Fires(i, c)["length_outlier"] <=>
             Beyond(Facts[i].inLen, c.inLen) \/ Beyond(Facts[i].outLen, c.outLen)
    BY DEF Fires
  <1>10. /\ Beyond(Facts[i].latency, c.latency) <=> InTail(Sample(w, "latency"), Facts[i].latency)
         /\ Beyond(Facts[i].inLen, c.inLen) <=> InTail(Sample(w, "inLen"), Facts[i].inLen)
         /\ Beyond(Facts[i].outLen, c.outLen) <=> InTail(Sample(w, "outLen"), Facts[i].outLen)
    BY <1>1, <1>2, <1>7, BeyondIsInTail DEF Fields
  <1> QED BY <1>6, <1>8, <1>9, <1>10

\* Every command leaves the outliers right.
LEMMA OutliersKept ==
    PipelineInv /\ PipelineInv' /\ OutliersByRank /\ [Next]_vars => OutliersByRank'
  <1> SUFFICES ASSUME PipelineInv, PipelineInv', OutliersByRank, [Next]_vars,
                      last'.command = "score", last'.verdict \in {"ok", "partial"}
               PROVE  last'.window \in Windows /\ OutliersTold(files'[last'.window])
    BY Zenon DEF OutliersByRank, OutliersTold
  <1>1. CASE UNCHANGED vars
    BY <1>1 DEF vars, OutliersByRank
  <1>2. CASE ~UNCHANGED vars
    <2>1. PICK w \in Windows, x \in Existing : Score(w, x)
      BY <1>2, SuccessIsScore
    <2>2. files'[w] \in WindowFiles /\ files'[w].scores.rows = ScoreRows(files'[w], x)
          /\ last'.window = w
      BY <2>1, AfterScore
    <2> QED BY <2>2, ScoringTells
  <1> QED BY <1>1, <1>2

\* For every percentage, sample and rounding: an outlier is a record with more than
\* Percent of the sample at or below it, or exactly Percent where the floating
\* product is not above it (score/context.py, percentile and build_context;
\* score/signals.py).
THEOREM OutliersFollowRank == Spec => []OutliersByRank
  <1>1. Init => OutliersByRank
    BY DEF Init, OutliersByRank
  <1> QED BY <1>1, OutliersKept, PipelineInvAlways, PTL DEF Spec

\* Where the product is exact, a value reaches the rank with Percent of the sample
\* at or below it.
LEMMA TailWhenExact ==
    ASSUME RoundsUp = {}, NEW w \in Seq(Ids), NEW field \in Fields, NEW value \in Nat \cup {None}
    PROVE  LET sample == Sample(w, field) IN
           InTail(sample, value) <=>
             /\ value # None
             /\ Size(sample) >= MinSample
             /\ 100 * AtMost(sample, value) >= Percent * Size(sample)
  <1> DEFINE sample == Sample(w, field)
             n == Size(sample)
  <1>1. /\ DOMAIN sample \in SUBSET Nat /\ IsFiniteSet(DOMAIN sample)
    BY SampleOf
  <1>2. n \in Nat
    BY <1>1, FS_CardinalityType DEF Size
  <1>3. AtMost(sample, value) \in Nat
    <2>1. {k \in DOMAIN sample : sample[k] <= value} \in SUBSET DOMAIN sample
      OBVIOUS
    <2>2. IsFiniteSet({k \in DOMAIN sample : sample[k] <= value})
      BY <1>1, <2>1, FS_Subset
    <2> QED BY <2>2, FS_CardinalityType DEF AtMost
  <1>4. Percent * n \in Nat
    BY <1>2, SettingsAssumption
  <1> HIDE DEF sample, n
  <1> DEFINE c == AtMost(sample, value)
             m == Percent * n
  <1>5. 100 * c >= m <=> 100 * c > m \/ 100 * c = m
    <2> HIDE DEF c, m
    <2>1. c \in Nat /\ m \in Nat
      BY <1>3, <1>4 DEF c, m
    <2> QED BY <2>1
  <1>6. Reaches(c, n) <=> 100 * c >= m
    BY <1>5 DEF Reaches, c, m
  <1> QED BY <1>6 DEF InTail, sample, n

\* A record is told an outlier exactly when it is in the tail of its own window,
\* for every percentage whose floating product is exact, the default among them
\* (score/context.py, percentile and build_context; score/signals.py).
THEOREM OutliersAreTail ==
    ASSUME RoundsUp = {}
    PROVE  Spec => []OutliersAreTheTail
  <1>1. PipelineInv /\ OutliersByRank => OutliersAreTheTail
    <2> SUFFICES ASSUME PipelineInv, last.window \in Windows, OutliersTold(files[last.window])
                 PROVE  OutliersAreTheTail
      BY DEF OutliersAreTheTail, OutliersByRank
    <2> DEFINE f == files[last.window]
               w == f.records.rows
               Extreme(sample, value) ==
                   /\ value # None
                   /\ Size(sample) >= MinSample
                   /\ 100 * AtMost(sample, value) >= Percent * Size(sample)
    <2>1. f \in WindowFiles
      BY DEF PipelineInv
    <2>2. w \in Seq(Ids) /\ f.scores.rows \in Seq(ScoreRow)
      BY <2>1, FilesTyped
    <2>3. ASSUME NEW r \in ToSet(f.scores.rows), NEW field \in Fields
          PROVE  InTail(Sample(w, field), Facts[r.id][field]) <=>
                   Extreme(Sample(w, field), Facts[r.id][field])
      <3>0. ToSet(f.scores.rows) \subseteq ScoreRow
        <4> DEFINE rows == f.scores.rows
        <4> HIDE DEF rows
        <4>1. rows \in Seq(ScoreRow) => ToSet(rows) \subseteq ScoreRow
          BY ToSetFinite
        <4> QED BY <2>2, <4>1 DEF rows
      <3>1. r.id \in Ids
        BY <3>0 DEF ScoreRow
      <3>2. Facts[r.id][field] \in Nat \cup {None}
        BY <3>1, FactsAssumption DEF Fact, Fields
      <3> HIDE DEF w
      <3> QED BY <2>2, <3>2, TailWhenExact
    <2>4. {"latency", "inLen", "outLen"} = Fields
      BY DEF Fields
    <2>5. ASSUME NEW r \in ToSet(f.scores.rows)
          PROVE  /\ "latency_outlier" \in r.names <=>
                      Extreme(Sample(w, "latency"), Facts[r.id].latency)
                 /\ "length_outlier" \in r.names <=>
                      \/ Extreme(Sample(w, "inLen"), Facts[r.id].inLen)
                      \/ Extreme(Sample(w, "outLen"), Facts[r.id].outLen)
      <3>1. /\ "latency_outlier" \in r.names <=> InTail(Sample(w, "latency"), Facts[r.id].latency)
            /\ "length_outlier" \in r.names <=>
                 \/ InTail(Sample(w, "inLen"), Facts[r.id].inLen)
                 \/ InTail(Sample(w, "outLen"), Facts[r.id].outLen)
        BY DEF OutliersTold
      <3>2. /\ InTail(Sample(w, "latency"), Facts[r.id].latency) <=> Extreme(Sample(w, "latency"), Facts[r.id].latency)
            /\ InTail(Sample(w, "inLen"), Facts[r.id].inLen) <=> Extreme(Sample(w, "inLen"), Facts[r.id].inLen)
            /\ InTail(Sample(w, "outLen"), Facts[r.id].outLen) <=> Extreme(Sample(w, "outLen"), Facts[r.id].outLen)
        <4> HIDE DEF Extreme, w, f
        <4> QED BY <2>3, <2>4
      <3> HIDE DEF Extreme, w, f
      <3> QED BY <3>1, <3>2
    <2> QED BY <2>5 DEF OutliersAreTheTail
  <1> QED BY <1>1, OutliersFollowRank, PipelineInvAlways, PTL
=============================================================================
