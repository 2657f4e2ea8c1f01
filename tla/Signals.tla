------------------------------ MODULE Signals ------------------------------
(***************************************************************************)
(* Stage 03 as functions: what a window says about its records (the score  *)
(* context) and which of the thirteen signals a record then fires          *)
(* (src/loghog/score/context.py, signals.py).                              *)
(*                                                                         *)
(* A record is an id with facts: what the signals can tell apart of it.    *)
(* Ids are numbers because they are only compared.  Which texts the fixed  *)
(* patterns match is a fact; which records are outliers, novel or answered *)
(* two ways is computed from the window.                                   *)
(***************************************************************************)
EXTENDS Shingles, Integers, Sequences, SequencesExt, TLC

CONSTANTS
    Ids,            \* record ids, in the order of their names
    Facts,          \* what is known of each record
    Phrases,        \* the shingles a text can hold
    Questions,      \* input fingerprints
    Versions,       \* prompt versions
    None,           \* an optional field left out
    Weight,         \* [score.weights]
    Percent,        \* [score] outlier_percentile
    RoundsUp,       \* sample sizes whose share the floating product overshoots
    MinSample,      \* [score] min_outlier_sample
    Novel           \* [score] novelty_max_jaccard, <<num, den>>

Patterns == {"injection_pattern", "refusal_pattern", "non_ascii_ratio", "tiny_input"}

Fact == [ question : Questions, phrases : SUBSET Phrases,
          inLen : Nat, outLen : Nat \cup {None}, latency : Nat \cup {None},
          failed : BOOLEAN,                 \* record.error is set
          judged : BOOLEAN,                 \* a judged criterion did not pass
          feedback : {"none", "negative", "positive"},
          version : Versions \cup {None},
          parses : BOOLEAN,                 \* the output is JSON
          matches : SUBSET Patterns ]

ASSUME IdsAreOrdered == Ids \subseteq Nat
ASSUME FactsAssumption ==
    /\ Facts \in [Ids -> Fact]
    /\ \A i \in Ids : /\ Facts[i].outLen = None <=> Facts[i].failed
                      /\ IsFiniteSet(Facts[i].phrases)
ASSUME SettingsAssumption ==
    /\ Percent \in 1 .. 99
    /\ MinSample \in Nat \ {0}
    /\ Novel \in (Nat \ {0}) \X (Nat \ {0})
\* percent / 100 * n is a product of doubles.  Where Percent of n is a whole
\* number it may come out a little above it (28 or 56 of 25, 7 or 55 of 100; never
\* the default 95), and ceil takes the next; where it is not, rounding is too small
\* to matter.
ASSUME RoundsUpAssumption ==
    RoundsUp \subseteq Nat \ {0} /\ \A n \in RoundsUp : (Percent * n) % 100 = 0

----------------------------------------------------------------------------
(***************************************************************************)
(* The context of a window, a sequence of record ids.                      *)
(***************************************************************************)

\* The values of a field, at the places of the records that carry it.
Sample(w, field) ==
    [k \in {n \in DOMAIN w : Facts[w[n]][field] # None} |-> Facts[w[k]][field]]

Size(sample) == Cardinality(DOMAIN sample)

\* Slip: rounded down.
RankDown(n) == Max({(Percent * n) \div 100, 1})

\* ceil(percent / 100 * n), at least 1.
Rank(n) == Max({(Percent * n + 99) \div 100 + (IF n \in RoundsUp THEN 1 ELSE 0), 1})

\* Where sorting puts the value of place k: sorted is stable.
Position(sample, k) ==
    Cardinality({j \in DOMAIN sample :
        sample[j] < sample[k] \/ (sample[j] = sample[k] /\ j <= k)})

\* percentile: the nearest rank, an observation.
Percentile(sample) ==
    sample[CHOOSE k \in DOMAIN sample : Position(sample, k) = Rank(Size(sample))]

Threshold(w, field) ==
    IF Size(Sample(w, field)) < MinSample THEN None ELSE Percentile(Sample(w, field))

Outcome(i) == IF Facts[i].failed \/ Facts[i].judged THEN "failed" ELSE "passed"

Outcomes(w, q, v) ==
    {Outcome(i) : i \in {j \in ToSet(w) : Facts[j].question = q /\ Facts[j].version = v}}

\* _disagreements: the questions two versions answered with other outcomes.
Disagreements(w) ==
    {q \in Questions : Cardinality({Outcomes(w, q, v) : v \in Versions} \ {{}}) > 1}

\* json_expectation: what the sources of the manifest declare, all or none.
JsonExpectation(declared) ==
    IF declared = {TRUE} THEN "all" ELSE IF declared = {FALSE} THEN "none" ELSE "mixed"

\* Slip: sources that disagree are a choice too.
BlockedByDedupe(dedupe, declared) == dedupe

\* A signal silenced by the window itself, not because somebody chose so.
Blocked(dedupe, declared) == dedupe \/ JsonExpectation(declared) = "mixed"

\* build_context.  goldens: the texts of --existing, or None.
Context(w, dedupe, declared, goldens) ==
    [ latency |-> Threshold(w, "latency"),
      inLen |-> Threshold(w, "inLen"),
      outLen |-> Threshold(w, "outLen"),
      disagreements |-> IF dedupe THEN {} ELSE Disagreements(w),
      goldens |-> goldens,
      json |-> JsonExpectation(declared) = "all" ]

----------------------------------------------------------------------------
(***************************************************************************)
(* The signals of one record.                                              *)
(***************************************************************************)
Beyond(value, threshold) == threshold # None /\ value # None /\ value >= threshold

\* SIGNAL_FUNCTIONS.
Fires(i, c) ==
    LET f == Facts[i] IN
    [ error |-> f.failed,
      judge_failure |-> f.judged,
      negative_feedback |-> f.feedback = "negative",
      feedback_conflict |-> f.feedback = "positive" /\ (f.failed \/ f.judged),
      version_disagreement |-> f.question \in c.disagreements,
      injection_pattern |-> "injection_pattern" \in f.matches,
      refusal_pattern |-> "refusal_pattern" \in f.matches,
      format_violation |-> c.json /\ f.outLen # None /\ ~f.parses,
      novelty |-> c.goldens # None /\ ~Near(f.phrases, c.goldens, Novel),
      latency_outlier |-> Beyond(f.latency, c.latency),
      length_outlier |-> Beyond(f.inLen, c.inLen) \/ Beyond(f.outLen, c.outLen),
      non_ascii_ratio |-> "non_ascii_ratio" \in f.matches,
      tiny_input |-> "tiny_input" \in f.matches ]

SignalNames == {"error", "judge_failure", "negative_feedback", "feedback_conflict",
                "version_disagreement", "novelty", "format_violation",
                "latency_outlier", "length_outlier"} \cup Patterns

ASSUME WeightAssumption ==
    Weight \in [SignalNames -> Nat] /\ \E s \in SignalNames : Weight[s] > 0

\* signals_for and score_of.
Row(i, c) ==
    LET fires == Fires(i, c)
        fired == {s \in SignalNames : fires[s]}
    IN  [id |-> i, names |-> fired, score |-> Cardinality(UNION {{s} \X (1 .. Weight[s]) : s \in fired})]
=============================================================================
