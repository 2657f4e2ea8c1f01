----------------------------- MODULE MCPipeline -----------------------------
(***************************************************************************)
(* Four records in two sources for the pipeline model: near-duplicates     *)
(* in a chain, a text without a word, a question two prompt versions       *)
(* answer differently, a failed call, slow and long ones.                  *)
(***************************************************************************)
EXTENDS Pipeline

CONSTANTS wa, wb, s1, s2, s3, p1, p2, p3, none

Plain == [ question |-> "q1", phrases |-> {p1, p2}, inLen |-> 2, outLen |-> 2,
           latency |-> 3, failed |-> FALSE, judged |-> FALSE, feedback |-> "none",
           version |-> "v1", parses |-> TRUE, matches |-> {} ]

MCFacts == <<
    [Plain EXCEPT !.parses = FALSE],
    [Plain EXCEPT !.version = "v2", !.judged = TRUE, !.feedback = "positive", !.latency = 5],
    [Plain EXCEPT !.version = none, !.phrases = {p2, p3}, !.outLen = none, !.failed = TRUE,
                  !.matches = {"tiny_input"}],
    [Plain EXCEPT !.question = "q2", !.phrases = {}, !.inLen = 1, !.outLen = 1, !.latency = none] >>

\* For drift, no chain: a text that is half of another and one that shares no word
\* with either.
MCApart == [MCFacts EXCEPT ![2].phrases = {p2}, ![3].phrases = {p3}]

\* The second source, deduplicated, loses its last record in a window that
\* holds the first; each is a source the other's mapping disagrees with.
MCLog == s1 :> [records |-> <<1, 2>>, dedupe |-> FALSE, json |-> TRUE]
      @@ s2 :> [records |-> <<4, 3>>, dedupe |-> TRUE, json |-> FALSE]

\* For one window, a third source that brings back an id the window may hold.
MCLogTwice == MCLog @@ s3 :> [records |-> <<2>>, dedupe |-> FALSE, json |-> TRUE]

MCWeight == [s \in SignalNames |-> IF s = "novelty" THEN 9 ELSE 1]

MCDatasets == {{{p1}}}

MCTwoDatasets == {{{p1}}, {{p3}, {p1, p2}}}

Symmetry == Permutations(Windows)

AThird == <<1, 3>>
AHalf == <<1, 2>>
=============================================================================
