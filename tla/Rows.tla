-------------------------------- MODULE Rows --------------------------------
(***************************************************************************)
(* Stage 01 inside one line: a mapping file is checked, each line of the   *)
(* log is a row, a blank or a failure, each row becomes a canonical record *)
(* or a typed failure (src/loghog/ingest/mapping.py, sidecar.py,           *)
(* readers.py, normalise.py, record.py), and each record goes through the  *)
(* Redactor the whole run shares (ingest/run.py, _redacted).               *)
(*                                                                         *)
(* A record is a function from the fields it carries; an optional field it *)
(* does not carry is not in its domain.  What the run does with the lines  *)
(* that come out -- counts, deduplication, files -- is Ingest.             *)
(***************************************************************************)
EXTENDS Coerce, Redaction

CONSTANTS
    Sources,        \* [mapping, lines, redact], with a sidecar if one is given
                    \* and a header if the lines are those of a CSV file
    HashOf          \* the SHA-256 of a text, as a word

Required == <<"record_id", "ts_utc", "input_text">>
TextFields == {"input_text", "output_text"}
CountFields == {"latency_ms", "input_tokens", "output_tokens", "cost_micro_usd"}
OptionalText == {"prompt_version", "arm", "feedback", "error"}
RecordKeys == ToSet(Required) \cup TextFields \cup CountFields \cup OptionalText
                \cup {"judge_verdicts"}
RedactedTextFields == <<"input_text", "output_text", "feedback", "error">>

\* What a row may fail with and be counted; anything else leaves the run.
RecordErrors == {"RecordError", "MissingFieldError", "FieldTypeError", "TimestampError"}
LoghogErrors == RecordErrors \cup {"MappingError", "SourceFormatError"}

VARIABLES
    source,         \* what the run was given
    pc,             \* "load", "read", "built", "done", or why it stopped
    outcomes,       \* of the lines read so far: a record, or what it failed with
    made,           \* what was made of each line before redaction
    redactor

vars == <<source, pc, outcomes, made, redactor>>

file == source.mapping

----------------------------------------------------------------------------
(***************************************************************************)
(* mapping.py                                                              *)
(***************************************************************************)

PlainSpec == [path |-> <<>>, extractor |-> "identity", criterion |-> "criterion",
              passed |-> "passed"]

\* FieldSpec: a bare path, or a table with what it leaves out filled in.
FieldSpec(raw) ==
    LET Or(key, otherwise) == IF key \in DOMAIN raw THEN raw[key] ELSE otherwise
    IN  [ target |-> raw.target,
          path |-> Or("short", Or("path", PlainSpec.path)),
          extractor |-> Or("extractor", PlainSpec.extractor),
          criterion |-> Or("criterion", PlainSpec.criterion),
          passed |-> Or("passed", PlainSpec.passed) ]

\* What a run is given, as the JSON, CSV and TOML readers hand it over.
ASSUME SourcesAssumption ==
    \A s \in Sources :
        /\ s.redact \in BOOLEAN
        /\ s.lines \in Seq([json : Json] \cup [cells : Seq(Seq(STRING))]
                             \cup {[garbled |-> TRUE], [blank |-> TRUE]})
        /\ "header" \in DOMAIN s => s.header \in Seq(STRING)
        /\ \A line \in ToSet(s.lines) :
             Is(line, "cells") => /\ "header" \in DOMAIN s
                                  /\ \A i \in DOMAIN line.cells : Str(line.cells[i]) \in Json
        /\ "sidecar" \in DOMAIN s => s.sidecar \in Seq(Json)
        /\ s.mapping.fields \in Seq(ToSet(s.mapping.fields))
        /\ \A i \in DOMAIN s.mapping.fields :
             FieldSpec(s.mapping.fields[i]).path \in Seq(STRING)
        /\ \A i, j \in DOMAIN s.mapping.fields :
             s.mapping.fields[i].target = s.mapping.fields[j].target => i = j
        /\ \A f \in DOMAIN s.mapping.defaults : s.mapping.defaults[f] \in Json

FieldRefused(raw) ==
    \/ raw.target \notin RecordKeys
    \/ "path" \in DOMAIN raw /\ raw.path = <<"">>
    \/ FieldSpec(raw).extractor \notin Extractors

SidecarTarget(m) == IF "sidecar" \in DOMAIN m THEN {m.sidecar.target} ELSE {}

Supplied(m) ==
    {m.fields[i].target : i \in DOMAIN m.fields} \cup DOMAIN m.defaults \cup SidecarTarget(m)

\* load_mapping
MappingRefused(m) ==
    \/ m.version # 1
    \/ m.format \notin {"jsonl", "csv"}
    \/ m.fields = <<>>
    \/ \E i \in DOMAIN m.fields : FieldRefused(m.fields[i])
    \/ ~(DOMAIN m.defaults \subseteq RecordKeys)
    \/ ~(SidecarTarget(m) \subseteq TextFields)
    \/ ~(ToSet(Required) \subseteq Supplied(m))

----------------------------------------------------------------------------
(***************************************************************************)
(* sidecar.py                                                              *)
(***************************************************************************)

HasText(entry, field) == Is(Follow(entry, field), "str") /\ ~Blank(Follow(entry, field).str)

\* A text has a hash, and a hash is not blank.
ASSUME HashesAssumption ==
    /\ \A t \in DOMAIN HashOf : HashOf[t] \notin Space
    /\ \A s \in Sources : "sidecar" \in DOMAIN s \cap DOMAIN s.mapping =>
         LET text == s.mapping.sidecar.text
         IN  \A i \in DOMAIN s.sidecar :
               HasText(s.sidecar[i], text) => Follow(s.sidecar[i], text).str \in DOMAIN HashOf

\* A line of the sidecar.  One nobody declared has no text field to look in.
SidecarLine(m, line) ==
    CASE ~Is(line, "dict") -> Bad("SourceFormatError")
      [] OTHER -> IF "sidecar" \notin DOMAIN m THEN Bad("AttributeError")
                  ELSE IF ~HasText(line, m.sidecar.text) THEN Bad("MissingFieldError")
                  ELSE Good(Follow(line, m.sidecar.text).str)

\* load_sidecar: its texts by their hash.
LoadSidecar(m, lines) ==
    LET texts == Gathered([i \in DOMAIN lines |-> SidecarLine(m, lines[i])])
    IN  IF ~IsGood(texts) THEN texts
        ELSE Good([h \in {HashOf[t] : t \in ToSet(texts.ok)} |->
                      CHOOSE t \in ToSet(texts.ok) : HashOf[t] = h])

Loaded == IF "sidecar" \in DOMAIN source THEN LoadSidecar(file, source.sidecar) ELSE Good(<<>>)

----------------------------------------------------------------------------
(***************************************************************************)
(* readers.py: a line is blank, a row, or not readable.                    *)
(***************************************************************************)

Format == IF "header" \in DOMAIN source THEN "csv" ELSE "jsonl"

\* _check_header
HeaderRefused ==
    Format = "csv" /\ (source.header = <<>> \/ "" \in ToSet(source.header)
                         \/ ~IsInjective(source.header))

\* A cell the line is too short for is a null, not a blank.
CsvRow(header, cells) ==
    [dict |-> [c \in ToSet(header) |->
        LET i == CHOOSE k \in DOMAIN header : header[k] = c
        IN  IF i <= Len(cells) THEN Str(cells[i]) ELSE Null]]

ReadLine(line) ==
    CASE Is(line, "cells") -> IF Len(line.cells) > Len(source.header) THEN Bad("LineParseError")
                              ELSE Good(CsvRow(source.header, line.cells))
      [] Is(line, "json") -> IF Is(line.json, "dict") THEN Good(line.json)
                             ELSE Bad("LineParseError")
      [] Is(line, "garbled") -> Bad("LineParseError")
      [] Is(line, "blank") -> [blank |-> TRUE]

----------------------------------------------------------------------------
(***************************************************************************)
(* normalise.py and record.py                                              *)
(***************************************************************************)

\* Slip: a blank cell is a value.
AbsentOrNull(v) == Is(v, "missing") \/ Is(v, "null")

\* _absent
Absent(v) == Is(v, "missing") \/ Is(v, "null") \/ (Is(v, "str") /\ Blank(v.str))

\* _raw_value
RawValue(row, spec) ==
    IF spec.path = <<>> THEN Good(Missing)
    ELSE LET found == ExtractPath(row, spec.path)
         IN  IF IsGood(found) THEN Good(Extract(spec.extractor, found.ok)) ELSE found

\* _coerce
Coerced(m, target, v, spec) ==
    CASE target = "ts_utc" -> CoerceTimestamp(v, m.naive)
      [] target \in CountFields -> CoerceInt(v)
      [] target = "judge_verdicts" -> CoerceVerdicts(v, spec)
      [] OTHER -> CoerceText(v, target = "record_id")

\* _from_sidecar: joined on the key as it stands in the row.
FromSidecar(m, row, index) ==
    LET key == Follow(row, m.sidecar.key)
    IN  IF Is(key, "str") /\ ~Blank(key.str) /\ Len(key.str) = 1 /\ Word(key.str) \in DOMAIN index
        THEN Good(index[Word(key.str)])
        ELSE Bad("MissingFieldError")

With(values, target, result) ==
    IF ~IsGood(result) THEN result
    ELSE Good([f \in DOMAIN values.ok \cup {target} |->
                  IF f = target THEN result.ok ELSE values.ok[f]])

\* Slip: the default is for every row.
DefaultOrRow(m, target, v) == IF target \in DOMAIN m.defaults THEN m.defaults[target] ELSE v

\* The row's own word if it says one, else the default, else nothing at all.
RowOrDefault(m, target, v) ==
    CASE ~Absent(v) -> v
      [] OTHER -> IF target \in DOMAIN m.defaults THEN m.defaults[target] ELSE Missing

\* One field of the mapping, given what its path leads to.
WithField(m, values, spec, found) ==
    IF spec.target \in DOMAIN values.ok THEN values
    ELSE IF ~IsGood(found) THEN found
    ELSE LET value == RowOrDefault(m, spec.target, found.ok)
         IN  IF ~Is(value, "missing")
             THEN With(values, spec.target, Coerced(m, spec.target, value, spec))
             ELSE IF spec.target \in ToSet(Required) THEN Bad("MissingFieldError")
             ELSE values

Mapped(m, row, values, spec) ==
    IF IsGood(values) THEN WithField(m, values, spec, RawValue(row, spec)) ELSE values

\* A default for a field the mapping does not read.
Defaulted(m, values, target) ==
    IF IsGood(values) /\ target \notin DOMAIN values.ok
    THEN With(values, target, Coerced(m, target, m.defaults[target], PlainSpec))
    ELSE values

Joined(m, row, index) ==
    IF "sidecar" \in DOMAIN m THEN With(Good(<<>>), m.sidecar.target, FromSidecar(m, row, index))
    ELSE Good(<<>>)

FieldsRead(m, row, values) ==
    LET read[i \in 0 .. Len(m.fields)] ==
            IF i = 0 THEN values ELSE Mapped(m, row, read[i - 1], FieldSpec(m.fields[i]))
    IN  read[Len(m.fields)]

DefaultsFilled(m, values) ==
    LET targets == SetToSeq(DOMAIN m.defaults)
        filled[i \in 0 .. Len(targets)] ==
            IF i = 0 THEN values ELSE Defaulted(m, filled[i - 1], targets[i])
    IN  filled[Len(targets)]

\* The values of a row, before any of them is cut.
Values(m, row, index) == DefaultsFilled(m, FieldsRead(m, row, Joined(m, row, index)))

Cut(values) ==
    [f \in DOMAIN values |-> IF f \in TextFields THEN Truncate(values[f]) ELSE values[f]]

Verdicts(record) == IF "judge_verdicts" \in DOMAIN record THEN record.judge_verdicts ELSE <<>>

AnsweredTwice(verdicts) ==
    \E i, j \in DOMAIN verdicts : i # j /\ verdicts[i].criterion = verdicts[j].criterion

\* Record.__post_init__
Validated(r) ==
    CASE Blank(r.record_id) -> Bad("MissingFieldError")
      [] OTHER ->
        IF "\n" \in ToSet(r.record_id) THEN Bad("FieldTypeError")
        ELSE IF \E f \in DOMAIN r \cap (TextFields \cup OptionalText) : Blank(r[f])
             THEN Bad("MissingFieldError")
        ELSE IF \E f \in DOMAIN r \cap CountFields : r[f] < 0 THEN Bad("FieldTypeError")
        ELSE IF "output_text" \in DOMAIN r <=> "error" \in DOMAIN r THEN Bad("RecordError")
        ELSE IF AnsweredTwice(Verdicts(r)) THEN Bad("RecordError")
        ELSE Good(r)

Assembled(values) ==
    IF ~IsGood(values) THEN values
    ELSE IF ~(ToSet(Required) \subseteq DOMAIN values.ok) THEN Bad("MissingFieldError")
    ELSE Validated(Cut(values.ok))

BuildRecord(m, row, index) == Assembled(Values(m, row, index))

----------------------------------------------------------------------------
(***************************************************************************)
(* run.py: the texts of a record through the Redactor, criteria first, and *)
(* the record validated once more.                                         *)
(***************************************************************************)

Slots(r) ==
    [i \in DOMAIN Verdicts(r) |-> [field |-> "judge_verdicts", at |-> i]]
        \o [i \in DOMAIN RedactedTextFields |-> [field |-> RedactedTextFields[i], at |-> 0]]

TextSlots(r) == {slot \in ToSet(Slots(r)) : slot.field \in DOMAIN r}

TextAt(r, slot) ==
    IF slot.field = "judge_verdicts" THEN r.judge_verdicts[slot.at].criterion ELSE r[slot.field]

WithText(r, slot, text) ==
    IF slot.field = "judge_verdicts"
    THEN [r EXCEPT !.judge_verdicts[slot.at].criterion = text]
    ELSE [r EXCEPT ![slot.field] = text]

\* An absent field stays absent.
RedactedAt(done, slot) ==
    LET one == Redact(done.redactor, TextAt(done.record, slot))
    IN  IF slot.field \notin DOMAIN done.record THEN done
        ELSE [record |-> WithText(done.record, slot, one.text), redactor |-> one.redactor]

\* _redacted, up to the second validation.
Redacted(r, with) ==
    LET done[i \in 0 .. Len(Slots(r))] ==
            IF i = 0 THEN [record |-> r, redactor |-> with] ELSE RedactedAt(done[i - 1], Slots(r)[i])
    IN  done[Len(Slots(r))]

----------------------------------------------------------------------------
(***************************************************************************)
(* The run                                                                 *)
(***************************************************************************)

Init ==
    /\ source \in Sources
    /\ pc = "load"
    /\ outcomes = <<>>
    /\ made = <<>>
    /\ redactor = NewRedactor(source.redact)

Stop(exception) ==
    /\ pc' = IF exception \in LoghogErrors THEN "refused" ELSE "raised"
    /\ UNCHANGED <<source, outcomes, made, redactor>>

\* The mapping, the format it declares, and the sidecar it asks for.
Usable ==
    /\ ~MappingRefused(file)
    /\ file.format = Format
    /\ "sidecar" \in DOMAIN file => "sidecar" \in DOMAIN source

RefuseMapping ==
    /\ pc = "load"
    /\ ~Usable
    /\ Stop("MappingError")

RefuseSidecar ==
    /\ pc = "load" /\ Usable
    /\ ~IsGood(Loaded)
    /\ Stop(Loaded.bad)

Start ==
    /\ pc = "load" /\ Usable
    /\ IsGood(Loaded)
    /\ pc' = "read"
    /\ UNCHANGED <<source, outcomes, made, redactor>>

\* The header is checked when the first line is asked for.
RefuseHeader ==
    /\ pc = "read" /\ outcomes = <<>>
    /\ HeaderRefused
    /\ Stop("SourceFormatError")

Line == ReadLine(source.lines[Len(outcomes) + 1])
AtLine == pc = "read" /\ Len(outcomes) < Len(source.lines) /\ ~HeaderRefused

\* A blank, or a line that is no row: the next one is read.
PassLine ==
    /\ AtLine /\ ~IsGood(Line)
    /\ outcomes' = Append(outcomes, Line)
    /\ made' = Append(made, Line)
    /\ UNCHANGED <<source, pc, redactor>>

Row == Line.ok

BuildRow ==
    /\ AtLine /\ IsGood(Line)
    /\ made' = Append(made, BuildRecord(file, Row, Loaded.ok))
    /\ pc' = "built"
    /\ UNCHANGED <<source, outcomes, redactor>>

Built == Last(made)
Failed == pc = "built" /\ ~IsGood(Built)

\* Slip: whatever goes wrong with a line is one of its failures.
FailRowWhatever ==
    /\ Failed
    /\ outcomes' = Append(outcomes, Built)
    /\ pc' = "read"
    /\ UNCHANGED <<source, made, redactor>>

\* A RecordError is a counted failure of its line.
FailRow ==
    /\ Failed /\ Built.bad \in RecordErrors
    /\ outcomes' = Append(outcomes, Built)
    /\ pc' = "read"
    /\ UNCHANGED <<source, made, redactor>>

\* Anything else leaves the loop: a malformed path, or what int() raises.
StopAtRow ==
    /\ Failed /\ Built.bad \notin RecordErrors
    /\ Stop(Built.bad)

\* The Redactor keeps what it numbered of a record that then fails.
RedactRow ==
    LET done == Redacted(Built.ok, redactor)
    IN  /\ pc = "built" /\ IsGood(Built)
        /\ redactor' = done.redactor
        /\ outcomes' = Append(outcomes, Validated(done.record))
        /\ pc' = "read"
        /\ UNCHANGED <<source, made>>

Finish ==
    /\ pc = "read" /\ Len(outcomes) = Len(source.lines) /\ ~HeaderRefused
    /\ pc' = "done"
    /\ UNCHANGED <<source, outcomes, made, redactor>>

Next == RefuseMapping \/ RefuseSidecar \/ Start \/ RefuseHeader \/ PassLine
          \/ BuildRow \/ FailRow \/ StopAtRow \/ RedactRow \/ Finish

Spec == Init /\ [][Next]_vars

----------------------------------------------------------------------------
(***************************************************************************)
(* What a line says, said without reading it in any order: the reference   *)
(* the reading layer is checked against.                                   *)
(***************************************************************************)

Unreadable(line) ==
    \/ Is(line, "garbled")
    \/ Is(line, "json") /\ ~Is(line.json, "dict")
    \/ Is(line, "cells") /\ Len(line.cells) > Len(source.header)

\* The columns of a line that is a row: the cells there are, under their names.
Cells(line) ==
    IF Is(line, "json") THEN line.json
    ELSE [dict |-> [c \in {source.header[i] : i \in DOMAIN line.cells} |->
             Str(line.cells[CHOOSE i \in DOMAIN line.cells : source.header[i] = c])]]

IsMapped(f) == \E i \in DOMAIN file.fields : file.fields[i].target = f
SpecOf(f) == FieldSpec(file.fields[CHOOSE i \in DOMAIN file.fields : file.fields[i].target = f])
SpecFor(f) == IF IsMapped(f) THEN SpecOf(f) ELSE PlainSpec

\* What the row holds where the mapping looks for a field.
Found(result) == IF IsGood(result) THEN result.ok ELSE Missing
Stated(row, f) == IF IsMapped(f) THEN Found(RawValue(row, SpecOf(f))) ELSE Missing

\* Where the value of a field comes from.
Origin(row, f) ==
    CASE f \in SidecarTarget(file) -> "sidecar"
      [] OTHER -> IF ~Absent(Stated(row, f)) THEN "row"
                  ELSE IF f \in DOMAIN file.defaults THEN "default" ELSE "nowhere"

Offered(row, f) == IF Origin(row, f) = "row" THEN Stated(row, f) ELSE file.defaults[f]

\* The whole numbers a value is a spelling of.
NumberOf(v) ==
    CASE Is(v, "int") -> {v.int}
      [] Is(v, "float") -> IF Is(v.float, "whole") THEN {v.float.whole} ELSE {}
      [] Is(v, "str") -> {IntOf[w] : w \in {Word(v.str)} \cap DOMAIN IntOf}
           \cup {FloatOf[w].whole : w \in {x \in {Word(v.str)} \cap (DOMAIN FloatOf \ DOMAIN IntOf) :
                                                Is(FloatOf[x], "whole")}}
      [] OTHER -> {}

\* The instants it can mean: an epoch in one of two units, or a zoned reading,
\* or a naive one the mapping vouches for.
InstantsOf(v) ==
    LET epochs == NumberOf(v) \cup
                    (IF Is(v, "float") /\ Is(v.float, "fraction") THEN {v.float.fraction} ELSE {})
        word == IF Is(v, "str") THEN Word(v.str) ELSE "several"
        spelled == IF word \in DOMAIN InstantOf THEN {InstantOf[word]} ELSE {}
    IN  IF Is(v, "str") /\ word \notin Digits
        THEN {m.second.int : m \in {n \in spelled : (n.zoned \/ file.naive) /\ Is(n.second, "int")}}
        ELSE {e \in epochs : e \in 0 .. Threshold - 1}
               \cup {e \div PerSecond : e \in {n \in epochs : n >= Threshold /\
                                                    n \div PerSecond \in 0 .. LastSecond}}

\* The pairs a verdict column spells, in no order; none if one of them is not a verdict.
Under(entry, key) == IF Is(entry, "dict") THEN Follow(entry, key) ELSE Missing

PairsOf(v, spec) ==
    IF Is(v, "dict") THEN {<<Str(<<c>>), v.dict[c]>> : c \in DOMAIN v.dict}
    ELSE {<<Under(v.list[i], spec.criterion), Under(v.list[i], spec.passed)>> :
              i \in DOMAIN v.list}

TruthOf(v) ==
    CASE Is(v, "bool") -> {v.bool}
      [] Is(v, "int") -> {b \in BOOLEAN : v.int = IF b THEN 1 ELSE 0}
      [] Is(v, "str") -> {b \in BOOLEAN : Word(v.str) \in IF b THEN TrueWords ELSE FalseWords}
      [] OTHER -> {}

IsVerdict(pair) == Is(pair[1], "str") /\ ~Blank(pair[1].str) /\ TruthOf(pair[2]) # {}

VerdictSets(v, spec) ==
    IF ~(Is(v, "list") \/ Is(v, "dict")) THEN {}
    ELSE IF \E pair \in PairsOf(v, spec) : ~IsVerdict(pair) THEN {}
    ELSE {{[criterion |-> x[1][1].str, passed |-> x[2]] :
              x \in {y \in PairsOf(v, spec) \X BOOLEAN : y[2] \in TruthOf(y[1][2])}}}

\* What a field may hold, given what is offered for it.
JoinedTo(key) ==
    {t \in DOMAIN HashOf : key = Str(<<HashOf[t]>>) /\
        \E i \in DOMAIN source.sidecar : Follow(source.sidecar[i], file.sidecar.text) = Str(t)}

ReadingsOf(f, v) ==
    CASE f = "ts_utc" -> InstantsOf(v)
      [] f \in CountFields -> NumberOf(v)
      [] f = "judge_verdicts" -> VerdictSets(v, SpecFor(f))
      [] OTHER -> IF Is(v, "str") THEN {v.str}
                  ELSE IF f = "record_id" /\ Is(v, "int") THEN {<<ToString(v.int)>>} ELSE {}

Meanings(row, f) ==
    IF f \in SidecarTarget(file) THEN JoinedTo(Follow(row, file.sidecar.key))
    ELSE ReadingsOf(f, Offered(row, f))

OfferedFields(row) == {f \in RecordKeys : Origin(row, f) # "nowhere"}

Carries(value, f, meaning) ==
    CASE f = "judge_verdicts" -> ToSet(value) = meaning
      [] f \in TextFields /\ value # meaning ->
            Len(meaning) > MaxText /\ value = Truncated(meaning)
      [] OTHER -> value = meaning

\* The spans to be replaced: those no disjoint choice of better ones rules out.
Dominant(text) ==
    IF ~redactor.enabled THEN {}
    ELSE CHOOSE kept \in SUBSET Open(text) :
            /\ \A s, t \in kept : s # t => ~Overlap(s, t)
            /\ \A s \in Open(text) \ kept : \E t \in kept : Overlap(s, t) /\ Outranks(t, s)

\* The text as a reader of the window finds it.
Retold(text) ==
    FlattenSeq([i \in DOMAIN text |->
        LET over == {s \in Dominant(text) : s.start <= i /\ i < s.end}
        IN  IF over = {} THEN <<text[i]>>
            ELSE LET s == CHOOSE t \in over : TRUE
                 IN  IF i = s.start THEN <<Token(s.class, redactor.index[Key(s)])>> ELSE <<>>])

CriteriaIn(v) ==
    LET names == SetToSeq(DOMAIN v.dict)
    IN  IF Is(v, "dict") THEN [i \in DOMAIN names |-> <<names[i]>>]
        ELSE [i \in DOMAIN v.list |-> Follow(v.list[i], SpecFor("judge_verdicts").criterion).str]

Criteria(row) == CriteriaIn(Offered(row, "judge_verdicts"))

AskedTwice(criteria) ==
    \E i, j \in DOMAIN criteria :
        /\ i # j
        /\ criteria[i] = criteria[j] \/ Retold(criteria[i]) = Retold(criteria[j])

\* A meaning a record may not have.
Unfit(f, meaning) ==
    CASE f \in CountFields -> meaning < 0
      [] f \in {"record_id"} \cup TextFields \cup OptionalText ->
            Blank(meaning) \/ (f = "record_id" /\ "\n" \in ToSet(meaning))
      [] OTHER -> FALSE

\* Why no record can be made of a row.
Hopeless(row) ==
    LET offered == OfferedFields(row)
    IN  \/ \E f \in ToSet(Required) : IsMapped(f) /\ f \notin offered
        \/ \E f \in offered : \A m \in Meanings(row, f) : Unfit(f, m)
        \/ "output_text" \in offered <=> "error" \in offered
        \/ "judge_verdicts" \in offered /\ AskedTwice(Criteria(row))

\* The values found in the texts of the records built so far, in reading order.
ValuesIn(text) ==
    LET spans == Dominant(text)
    IN  FlattenSeq([i \in DOMAIN text |->
            IF StartsAt(spans, i) THEN <<Key(SpanAt(spans, i))>> ELSE <<>>])

ValuesAt(r, slot) == IF slot \in TextSlots(r) THEN ValuesIn(TextAt(r, slot)) ELSE <<>>

ReadSoFar ==
    FlattenSeq([n \in DOMAIN outcomes |->
        IF ~IsGood(made[n]) THEN <<>>
        ELSE LET r == made[n].ok
             IN  FlattenSeq([i \in DOMAIN Slots(r) |-> ValuesAt(r, Slots(r)[i])])])

FirstIn(read, key) == CHOOSE i \in DOMAIN read :
                          read[i] = key /\ \A j \in 1 .. i - 1 : read[j] # key

----------------------------------------------------------------------------
(***************************************************************************)
(* Properties                                                              *)
(***************************************************************************)

\* Every line read is a record with an id, a time and an input, or one of the
\* failures a line may have; a record is in hand only between its two steps.
TypeOK ==
    /\ pc \in {"load", "read", "built", "done", "refused", "raised"}
    /\ Len(outcomes) <= Len(source.lines)
    /\ \A n \in DOMAIN outcomes :
         \/ IsGood(outcomes[n]) /\ ToSet(Required) \subseteq DOMAIN outcomes[n].ok
         \/ Is(outcomes[n], "bad") /\ outcomes[n].bad \in RecordErrors \cup {"LineParseError"}
         \/ Is(outcomes[n], "blank")
    /\ Len(made) = Len(outcomes)
         + (IF pc = "built" \/ (pc \in {"refused", "raised"} /\ made # <<>>) THEN 1 ELSE 0)
    /\ redactor.changed <= redactor.seen

\* The row itself is the verdicts: each of its columns is a criterion, and one
\* left blank is a criterion without an answer.
RowIsVerdicts ==
    \E i \in DOMAIN file.fields :
        LET spec == FieldSpec(file.fields[i])
        IN  /\ spec.target = "judge_verdicts" /\ spec.path = WholePayload
            /\ spec.extractor = "identity"

\* A record carries the fields its row, the sidecar or a default offers, each
\* with a meaning of what was offered -- the default only where the row says
\* nothing -- and a line is failed only when no record can be made of it: with
\* a mapping that was loaded, never because the mapping supplies too little
\* (normalise.py, "Nothing here guesses").
ReadsAsMapped ==
    Format = "jsonl" \/ ~RowIsVerdicts =>
      /\ pc = "built" /\ IsGood(Built) =>
           LET row == Cells(source.lines[Len(made)])
           IN  /\ DOMAIN Built.ok = OfferedFields(row)
               /\ \A f \in DOMAIN Built.ok :
                    \E m \in Meanings(row, f) : Carries(Built.ok[f], f, m)
      /\ \A n \in DOMAIN outcomes :
           Is(outcomes[n], "bad") => Unreadable(source.lines[n]) \/ Hopeless(Cells(source.lines[n]))

\* A column left blank, a null and no column at all are one fact: whichever of
\* them the producer writes, the line comes out the same (normalise.py, _absent).
AbsentIsAbsent ==
    pc = "built" /\ ~RowIsVerdicts =>
        LET row == ReadLine(source.lines[Len(made)]).ok.dict
        IN  \A c \in DOMAIN row :
              row[c] = Null \/ (Is(row[c], "str") /\ Blank(row[c].str)) =>
                  Built = BuildRecord(file, [dict |-> Restrict(row, DOMAIN row \ {c})], Loaded.ok)

\* Each text of a record reads as the row's does, with a token for each value
\* that no overlapping better match rules out, numbered as it stands at the end
\* of the run: no offset slips, no value is left behind, no token changes hands
\* (detect.py, resolve_overlaps; redact.py, redact).
TextsInReadingOrder ==
    \A n \in DOMAIN outcomes :
        IsGood(outcomes[n]) =>
            \A slot \in TextSlots(made[n].ok) :
                TextAt(outcomes[n].ok, slot) = Retold(TextAt(made[n].ok, slot))

\* A token stands for one value of its class and a value has one token; they
\* are numbered in the order in which a reader of the run meets them, whatever
\* spelling, text or line they stand in, and the report counts each reading
\* (redact.py, Redactor).
TokensTellValues ==
    pc \in {"read", "done"} =>
        LET read == ReadSoFar
            index == redactor.index
        IN  /\ DOMAIN index = ToSet(read)
            /\ \A k \in DOMAIN index :
                 index[k] = Cardinality({j \in OfClass(index, k[1]) :
                                            FirstIn(read, j) <= FirstIn(read, k)})
            /\ \A c \in ToSet(Classes) :
                 redactor.counts[c] = Cardinality({i \in DOMAIN read : read[i][1] = c})

\* What run.py says of ingest: a problem with an individual line is never a
\* raise, it is a counted failure.
LineNeverRaises == pc = "raised" => ~(Usable /\ IsGood(Loaded))
=============================================================================
