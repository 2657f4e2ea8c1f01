----------------------------- MODULE Redaction -----------------------------
(***************************************************************************)
(* Personal data in a text and its replacement: candidates, overlaps, and  *)
(* the Redactor whose numbering lasts for one run over many texts          *)
(* (src/loghog/privacy/detect.py, redact.py).                              *)
(*                                                                         *)
(* A text is a sequence of words.  What the patterns match is a set of     *)
(* word sequences with their class, each past its checksum or length test; *)
(* Canonical says which of them are spellings of one value.                *)
(***************************************************************************)
EXTENDS Integers, Sequences, SequencesExt, FiniteSets, TLC

CONSTANTS
    Patterns,       \* what the detectors match: [class, words]
    Canonical,      \* words of a pattern -> the value they spell
    Allowed         \* [privacy] name_allowlist, as values

Classes == <<"EMAIL", "IBAN", "CARD", "SSN", "IPV4", "PHONE", "ADDRESS", "NAME">>

\* re.finditer gives no two overlapping matches of one pattern.
ASSUME PatternsAssumption ==
    /\ \A p \in Patterns : p.class \in ToSet(Classes) /\ p.words \in Seq(STRING) \ {<<>>}
    /\ \A p \in Patterns : \A i, j \in DOMAIN p.words : p.words[i] = p.words[j] => i = j

Priority(class) == CHOOSE i \in DOMAIN Classes : Classes[i] = class

\* redaction_token, and the words that are one already.
Token(class, index) == "[" \o class \o "_" \o ToString(index) \o "]"
MaxIndex == 9
Tokens == {Token(c, i) : c \in ToSet(Classes), i \in 1 .. MaxIndex}

Overlap(s, t) == s.start < t.end /\ t.start < s.end

\* The patterns but the names the allowlist leaves alone.
Detectors == {p \in Patterns : ~(p.class = "NAME" /\ Canonical[p.words] \in Allowed)}

\* finditer of one pattern.
Matches(text, p) ==
    { [start |-> i, end |-> i + Len(p.words), class |-> p.class, value |-> Canonical[p.words]] :
        i \in {j \in 1 .. Len(text) - Len(p.words) + 1 :
                  SubSeq(text, j, j + Len(p.words) - 1) = p.words} }

Candidates(text) == UNION {Matches(text, p) : p \in Detectors}

\* Tokens already placed are protected.
Protected(text) == {[start |-> i, end |-> i + 1] : i \in {j \in DOMAIN text : text[j] \in Tokens}}

Open(text) == {s \in Candidates(text) : \A t \in Protected(text) : ~Overlap(s, t)}

\* The order of resolve_overlaps: class, then length, then place.
Outranks(s, t) ==
    LET Rank(u) == <<Priority(u.class), u.start - u.end, u.start>>
        Before(a, b) == \E i \in 1 .. 3 : a[i] < b[i] /\ \A j \in 1 .. i - 1 : a[j] = b[j]
    IN  Before(Rank(s), Rank(t))

Kept(kept, s) == IF \E t \in kept : Overlap(s, t) THEN kept ELSE kept \cup {s}

\* The n-th of some matches in that order.
Ranked(spans, n) == CHOOSE s \in spans : Cardinality({t \in spans : Outranks(t, s)}) = n - 1

\* find_spans: the survivors of the greedy pass.
FindSpans(text) ==
    LET open == Open(text)
        kept[n \in 0 .. Cardinality(open)] ==
            IF n = 0 THEN {} ELSE Kept(kept[n - 1], Ranked(open, n))
    IN  kept[Cardinality(open)]

\* No two survivors share a place, so reading order is that of the places
\* where they start.
StartsAt(spans, i) == \E s \in spans : s.start = i
SpanAt(spans, i) == CHOOSE s \in spans : s.start = i

----------------------------------------------------------------------------
(***************************************************************************)
(* A Redactor: the index of each value, what was replaced, and the texts   *)
(* seen and changed.                                                       *)
(***************************************************************************)

NewRedactor(enabled) ==
    [ enabled |-> enabled, index |-> <<>>, counts |-> [c \in ToSet(Classes) |-> 0],
      seen |-> 0, changed |-> 0 ]

Key(s) == <<s.class, s.value>>

OfClass(index, class) == {k \in DOMAIN index : k[1] = class}

\* _token_for: the next index of its class, unless the value has one.
WithToken(index, s) ==
    [k \in DOMAIN index \cup {Key(s)} |->
        IF k \in DOMAIN index THEN index[k] ELSE Cardinality(OfClass(index, s.class)) + 1]

WithTokenAt(index, spans, i) ==
    IF StartsAt(spans, i) THEN WithToken(index, SpanAt(spans, i)) ELSE index

\* Slip: it runs with the replacements, right to left.
NumberedBackwards(index, spans, size) ==
    LET numbered[i \in 0 .. size] ==
            IF i = 0 THEN index ELSE WithTokenAt(numbered[i - 1], spans, size + 1 - i)
    IN  numbered[size]

\* Numbering runs left to right, over a text of this size.
Numbered(index, spans, size) ==
    LET numbered[i \in 0 .. size] ==
            IF i = 0 THEN index ELSE WithTokenAt(numbered[i - 1], spans, i)
    IN  numbered[size]

\* One replacement; offsets to the left of it stay what they were.
Replaced(text, s, token) ==
    SubSeq(text, 1, s.start - 1) \o <<token>> \o SubSeq(text, s.end, Len(text))

ReplacedAt(text, spans, index, i) ==
    IF StartsAt(spans, i)
    THEN LET s == SpanAt(spans, i) IN Replaced(text, s, Token(s.class, index[Key(s)]))
    ELSE text

\* Slip: left to right, with the offsets of the text as it came.
RewrittenForward(text, spans, index) ==
    LET rewritten[i \in 0 .. Len(text)] ==
            IF i = 0 THEN text ELSE ReplacedAt(rewritten[i - 1], spans, index, i)
    IN  rewritten[Len(text)]

\* Replacement runs right to left.
Rewritten(text, spans, index) ==
    LET rewritten[i \in 0 .. Len(text)] ==
            IF i = 0 THEN text ELSE ReplacedAt(rewritten[i - 1], spans, index, Len(text) + 1 - i)
    IN  rewritten[Len(text)]

Redact(redactor, text) ==
    LET spans == FindSpans(text)
        index == Numbered(redactor.index, spans, Len(text))
    IN  IF ~redactor.enabled THEN [text |-> text, redactor |-> redactor]
        ELSE [ text |-> Rewritten(text, spans, index),
               redactor |->
                 [ enabled |-> TRUE, index |-> index,
                   counts |-> [c \in ToSet(Classes) |->
                       redactor.counts[c] + Cardinality({s \in spans : s.class = c})],
                   seen |-> redactor.seen + 1,
                   changed |-> redactor.changed + (IF spans = {} THEN 0 ELSE 1) ] ]
=============================================================================
