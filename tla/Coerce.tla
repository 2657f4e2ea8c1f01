------------------------------- MODULE Coerce -------------------------------
(***************************************************************************)
(* The values a log holds and what the reading layer makes of one of them: *)
(* the path into a row, the extractor, and the coercion to the type the    *)
(* record insists on (src/loghog/ingest/paths.py, extractors.py,           *)
(* coerce.py).                                                             *)
(*                                                                         *)
(* A JSON value is a record with one field, named for its type.  A text is *)
(* a sequence of words, white space among them; what int(), float() and    *)
(* the ISO reader make of a word is given by partial functions.  The       *)
(* coercions return Good(v) or Bad(exception).                             *)
(***************************************************************************)
EXTENDS Integers, Sequences, SequencesExt, FiniteSets, TLC

CONSTANTS
    Json,           \* the values a log, a sidecar or a mapping's default can hold
    IntOf,          \* the words int() reads, and the numbers
    FloatOf,        \* the words float() reads, and the floats
    Digits,         \* the words that are digits after any number of "-"
    InstantOf,      \* the words the ISO reader resolves: [zoned, second]
    TrueWords, FalseWords,
    Threshold,      \* EPOCH_MILLISECOND_THRESHOLD
    PerSecond,      \* milliseconds in a second
    LastSecond,     \* the last epoch second a datetime can hold
    MaxText         \* [ingest] max_text_chars, in words

ASSUME WordsAssumption ==
    /\ DOMAIN IntOf \subseteq DOMAIN FloatOf
    /\ Digits \cap DOMAIN InstantOf = {}
    /\ TrueWords \cap FalseWords = {}
    /\ "several" \notin DOMAIN FloatOf \cup Digits \cup DOMAIN InstantOf
    /\ \A w \in DOMAIN IntOf : IntOf[w] \in Int
ASSUME EpochAssumption ==
    /\ PerSecond \in Nat \ {0} /\ LastSecond \in Nat /\ Threshold \in 1 .. LastSecond
    /\ MaxText \in Nat \ {0}

Good(v) == [ok |-> v]
Bad(exception) == [bad |-> exception]
IsGood(result) == "ok" \in DOMAIN result

Is(v, type) == DOMAIN v = {type}
IsFloat(f) == /\ Is(f, "whole") => f.whole \in Int
              /\ Is(f, "fraction") => f.fraction \in Int
Missing == [missing |-> TRUE]       \* paths.MISSING: no such key at all
Null == [null |-> TRUE]
Str(text) == [str |-> text]

ASSUME ReadersAssumption ==
    /\ \A w \in DOMAIN FloatOf : IsFloat(FloatOf[w])
    /\ \A w \in DOMAIN InstantOf : Is(InstantOf[w].second, "int") \/ Is(InstantOf[w].second, "beyond")
ASSUME JsonAssumption ==
    /\ Null \in Json
    /\ \A v \in Json :
         /\ v = [type \in DOMAIN v |-> v[type]]
         /\ ~Is(v, "missing")
         /\ Is(v, "int") => v.int \in Int
         /\ Is(v, "float") => IsFloat(v.float)
         /\ Is(v, "bool") => v.bool \in BOOLEAN
         /\ Is(v, "str") => v.str \in Seq(STRING)
         /\ Is(v, "list") => v.list \in Seq(Json)
         /\ Is(v, "dict") => /\ IsFiniteSet(DOMAIN v.dict)
                            /\ \A key \in DOMAIN v.dict : v.dict[key] \in Json

Space == {" ", "\n"}
Blank(text) == ToSet(text) \subseteq Space          \* not text.strip()

\* The word a text is, for the readers of one: int(), float(), fromisoformat().
Word(text) ==
    LET words == {i \in DOMAIN text : text[i] \notin Space}
    IN  IF Cardinality(words) = 1 THEN text[CHOOSE i \in words : TRUE] ELSE "several"

----------------------------------------------------------------------------
(***************************************************************************)
(* paths.py and extractors.py                                              *)
(***************************************************************************)

WholePayload == <<".">>

\* int(segment), of the segments that index a list.
IndexOf == ("0" :> 0) @@ ("1" :> 1) @@ ("-1" :> -1)

Entry(list, i) ==
    IF i \in -Len(list) .. Len(list) - 1 THEN list[(IF i < 0 THEN Len(list) + i ELSE i) + 1]
    ELSE Missing

\* _step: a key of an object, else an index into a list, else nothing.
Follow(v, segment) ==
    CASE Is(v, "dict") /\ segment \in DOMAIN v.dict -> v.dict[segment]
      [] Is(v, "list") /\ segment \in DOMAIN IndexOf -> Entry(v.list, IndexOf[segment])
      [] OTHER -> Missing

Reached(payload, path) ==
    LET found[i \in 0 .. Len(path)] ==
            IF i = 0 THEN payload ELSE Follow(found[i - 1], path[i])
    IN  found[Len(path)]

\* extract_path: a path with an empty segment stops the run.
ExtractPath(payload, path) ==
    CASE path = WholePayload -> Good(payload)
      [] "" \in ToSet(path) -> Bad("MappingError")
      [] OTHER -> Good(Reached(payload, path))

Extractors == {"identity", "join_text", "openai_last_user_message", "openai_assistant_message"}

Holds(v, key, text) == Is(v, "dict") /\ key \in DOMAIN v.dict /\ v.dict[key] = Str(text)

\* "\n".join of the entries that are texts, if there is one.
JoinedText(entries) ==
    LET lines == FlattenSeq([i \in DOMAIN entries |->
                     IF Is(entries[i], "str") THEN <<"\n">> \o entries[i].str ELSE <<>>])
    IN  IF lines = <<>> THEN Missing ELSE Str(Tail(lines))

JoinText(v) ==
    CASE Is(v, "str") -> v
      [] Is(v, "list") -> JoinedText(v.list)
      [] OTHER -> Missing

\* _message_content: a string, or the text parts of a multimodal message.
TextPart(e) == IF Holds(e, "type", <<"text">>) THEN Follow(e, "text") ELSE Missing

MessageContent(message) ==
    LET content == Follow(message, "content")
    IN  CASE Is(content, "str") -> content
          [] Is(content, "list") ->
                JoinedText([i \in DOMAIN content.list |-> TextPart(content.list[i])])
          [] OTHER -> Missing

\* _last_message_with_role: the last one, whatever its content.
LastMessage(v, role) ==
    LET said == IF Is(v, "list") THEN {i \in DOMAIN v.list : Holds(v.list[i], "role", <<role>>)}
                ELSE {}
    IN  IF said = {} THEN Missing ELSE MessageContent(v.list[Max(said)])

Extract(extractor, v) ==
    CASE extractor = "identity" -> v
      [] extractor = "join_text" -> JoinText(v)
      [] extractor = "openai_last_user_message" -> LastMessage(v, "user")
      [] extractor = "openai_assistant_message" -> LastMessage(v, "assistant")

----------------------------------------------------------------------------
(***************************************************************************)
(* coerce.py                                                               *)
(***************************************************************************)

Truncated(text) == SubSeq(text, 1, MaxText) \o <<"...">>
Truncate(text) == IF Len(text) <= MaxText THEN text ELSE Truncated(text)

CoerceText(v, allowNumber) ==
    CASE Is(v, "null") -> Bad("MissingFieldError")
      [] Is(v, "str") -> Good(v.str)
      [] Is(v, "int") /\ allowNumber -> Good(<<ToString(v.int)>>)
      [] OTHER -> Bad("FieldTypeError")

\* _whole: int() itself raises on what is not finite.
Whole(f) ==
    CASE Is(f, "whole") -> Good(f.whole)
      [] Is(f, "fraction") -> Bad("FieldTypeError")
      [] Is(f, "infinite") -> Bad("OverflowError")
      [] OTHER -> Bad("ValueError")                     \* not a number

\* A ValueError from a numeric string is caught; an OverflowError is not.
CoerceNumeral(word) ==
    IF word \in DOMAIN IntOf THEN Good(IntOf[word])
    ELSE IF word \in DOMAIN FloatOf /\ ~Is(FloatOf[word], "nan") THEN Whole(FloatOf[word])
    ELSE Bad("FieldTypeError")

CoerceInt(v) ==
    CASE Is(v, "null") -> Bad("MissingFieldError")
      [] Is(v, "int") -> Good(v.int)
      [] Is(v, "float") -> Whole(v.float)
      [] Is(v, "str") -> IF Blank(v.str) THEN Bad("MissingFieldError")
                         ELSE CoerceNumeral(Word(v.str))
      [] OTHER -> Bad("FieldTypeError")

CoerceBool(v) ==
    CASE Is(v, "null") -> Bad("MissingFieldError")
      [] Is(v, "bool") -> Good(v.bool)
      [] Is(v, "int") /\ v.int \in {0, 1} -> Good(v.int = 1)
      [] Is(v, "str") /\ Word(v.str) \in TrueWords -> Good(TRUE)
      [] Is(v, "str") /\ Word(v.str) \in FalseWords -> Good(FALSE)
      [] OTHER -> Bad("FieldTypeError")

\* _from_epoch, on the whole part: what is below a second is dropped.
FromEpoch(n) ==
    LET second == IF n >= Threshold THEN n \div PerSecond ELSE n
    IN  IF second \in 0 .. LastSecond THEN Good(second) ELSE Bad("TimestampError")

FloatEpoch(f) ==
    CASE Is(f, "whole") -> FromEpoch(f.whole)
      [] Is(f, "fraction") -> FromEpoch(f.fraction)
      [] OTHER -> Bad("TimestampError")

\* The ISO reader: a naive instant needs the mapping's word for it, and one
\* before the first year in UTC is more than a datetime can be moved to.
FromIso(instant, naiveIsUtc) ==
    IF ~(instant.zoned \/ naiveIsUtc) THEN Bad("TimestampError")
    ELSE IF Is(instant.second, "beyond") THEN Bad("OverflowError")
    ELSE Good(instant.second.int)

\* _parse_moment, of a text: digits are an epoch, if int() will have them.
CoerceMoment(text, naiveIsUtc) ==
    LET word == Word(text)
    IN  CASE Blank(text) -> Bad("MissingFieldError")
          [] ~Blank(text) /\ word \in Digits ->
                IF word \in DOMAIN IntOf THEN FromEpoch(IntOf[word]) ELSE Bad("ValueError")
          [] ~Blank(text) /\ word \in DOMAIN InstantOf -> FromIso(InstantOf[word], naiveIsUtc)
          [] OTHER -> Bad("TimestampError")

CoerceTimestamp(v, naiveIsUtc) ==
    CASE Is(v, "null") -> Bad("MissingFieldError")
      [] Is(v, "int") -> FromEpoch(v.int)
      [] Is(v, "float") -> FloatEpoch(v.float)
      [] Is(v, "str") -> CoerceMoment(v.str, naiveIsUtc)
      [] OTHER -> Bad("TimestampError")

\* The first failure of a sequence of results, or all they gave.
Gathered(results) ==
    LET failed == {i \in DOMAIN results : ~IsGood(results[i])}
    IN  IF failed # {} THEN results[Min(failed)] ELSE Good([i \in DOMAIN results |-> results[i].ok])

\* JudgeVerdict(criterion, passed), its own check included.
Verdict(criterion, passed) ==
    LET text == CoerceText(criterion, FALSE)
        flag == CoerceBool(passed)
    IN  CASE ~IsGood(text) -> text
          [] IsGood(text) /\ ~IsGood(flag) -> flag
          [] OTHER -> IF Blank(text.ok) THEN Bad("MissingFieldError")
                      ELSE Good([criterion |-> text.ok, passed |-> flag.ok])

\* One entry of the list shape.
VerdictEntry(e, keys) ==
    CASE ~Is(e, "dict") -> Bad("FieldTypeError")
      [] Is(e, "dict") /\ ~({keys.criterion, keys.passed} \subseteq DOMAIN e.dict) ->
            Bad("MissingFieldError")
      [] OTHER -> Verdict(e.dict[keys.criterion], e.dict[keys.passed])

\* coerce_verdicts: a list of objects, or one object keyed by criterion, whose
\* items are taken in one fixed order.
CoerceVerdicts(v, keys) ==
    LET names == SetToSeq(DOMAIN v.dict)
    IN  CASE Is(v, "null") -> Bad("MissingFieldError")
          [] Is(v, "list") -> Gathered([i \in DOMAIN v.list |-> VerdictEntry(v.list[i], keys)])
          [] Is(v, "dict") ->
                Gathered([i \in DOMAIN names |-> Verdict(Str(<<names[i]>>), v.dict[names[i]])])
          [] OTHER -> Bad("FieldTypeError")
=============================================================================
