------------------------------- MODULE MCRows -------------------------------
(***************************************************************************)
(* Rows on three families of runs: a plain line with up to two columns     *)
(* varied over the values a log can hold, under three mappings; chat lines *)
(* and sidecar joins; and two lines whose texts run over the ways matches  *)
(* of the patterns can touch, repeat and overlap.                          *)
(***************************************************************************)
EXTENDS Rows

T(word) == Str(<<word>>)
N(n) == [int |-> n]
Obj(pairs) == [dict |-> pairs]
List(entries) == [list |-> entries]
Empty == Str(<<>>)
Floats == {[float |-> [whole |-> 7]], [float |-> [fraction |-> 7]],
           [float |-> [infinite |-> TRUE]], [float |-> [nan |-> TRUE]]}

MCIntOf == ("7" :> 7) @@ ("1" :> 1) @@ ("-3" :> -3) @@ ("24" :> 24)
MCFloatOf == ("7" :> [whole |-> 7]) @@ ("1" :> [whole |-> 1]) @@ ("-3" :> [whole |-> -3])
    @@ ("24" :> [whole |-> 24]) @@ ("7.0" :> [whole |-> 7]) @@ ("7.5" :> [fraction |-> 7])
    @@ ("1e999" :> [infinite |-> TRUE]) @@ ("nan" :> [nan |-> TRUE])
MCDigits == {"7", "1", "-3", "24", "--7"}
MCInstantOf == ("noonZ" :> [zoned |-> TRUE, second |-> [int |-> 12]])
    @@ ("noon" :> [zoned |-> FALSE, second |-> [int |-> 12]])
    @@ ("year1+5" :> [zoned |-> TRUE, second |-> [beyond |-> TRUE]])
MCTrueWords == {"yes", "1"}
MCFalseWords == {"no"}

\* Patterns that touch, overlap and contain one another.
P(class, words) == [class |-> class, words |-> words]
MCPatterns == {
    P("EMAIL", <<"sam@x">>), P("EMAIL", <<"SAM@x">>), P("EMAIL", <<"kim@x">>),
    P("CARD", <<"42", "43">>), P("PHONE", <<"43", "55">>), P("PHONE", <<"55", "sam@x">>),
    P("ADDRESS", <<"55", "dr">>), P("ADDRESS", <<"dr", "42", "55">>), P("ADDRESS", <<"dr", "[EMAIL_1]">>),
    P("NAME", <<"dr", "55">>), P("NAME", <<"dr", "dr@">>) }
MCCanonical == [w \in {p.words : p \in MCPatterns} |-> IF w = <<"SAM@x">> THEN <<"sam@x">> ELSE w]
MCAllowed == {<<"dr", "dr@">>}

Hello == <<"hello">>
Long == <<"hello", "hello", "sam@x", "42", "43">>       \* cut inside a card number
MCHashOf == (Hello :> "h1") @@ (Long :> "h2")

----------------------------------------------------------------------------
F(target, path) == [target |-> target, short |-> path]

Columns == << F("record_id", <<"id">>), F("ts_utc", <<"at">>), F("input_text", <<"q">>),
              F("output_text", <<"a">>), F("latency_ms", <<"ms">>), F("error", <<"err">>),
              F("feedback", <<"fb">>), F("judge_verdicts", <<"v">>) >>
NoDefaults == [f \in {} |-> 0]

Plain == [version |-> 1, format |-> "jsonl", fields |-> Columns, defaults |-> NoDefaults, naive |-> FALSE]

Generous == [Plain EXCEPT !.naive = TRUE,
    !.fields = SubSeq(Columns, 2, 7) \o <<[target |-> "judge_verdicts", path |-> <<"v">>,
                                           criterion |-> "c", passed |-> "p"]>>,
    !.defaults = [record_id |-> N(24), input_text |-> T("none"), latency_ms |-> T(" "),
                  feedback |-> T("none"), input_tokens |-> N(1)]]

Chat == [Plain EXCEPT
    !.fields = SubSeq(Columns, 1, 2) \o
        << [target |-> "input_text", path |-> <<"m">>, extractor |-> "openai_last_user_message"],
           [target |-> "output_text", path |-> <<"m">>, extractor |-> "openai_assistant_message"],
           [target |-> "feedback", path |-> <<"m", "-1", "fb">>, extractor |-> "join_text"],
           [target |-> "arm", extractor |-> "identity"] >>]

Hashed == Plain @@ [sidecar |-> [key |-> "h", text |-> "t", target |-> "input_text"]]
OutputHashed == [Plain EXCEPT !.fields = SubSeq(Columns, 1, 2)]
    @@ [sidecar |-> [key |-> "h", text |-> "t", target |-> "output_text"]]

Refused == {
    [Plain EXCEPT !.version = 2], [Plain EXCEPT !.format = "csv"], [Plain EXCEPT !.format = "xml"],
    [Plain EXCEPT !.fields = <<>>],
    [Plain EXCEPT !.fields = Tail(Columns)],
    [Plain EXCEPT !.fields = Append(Columns, F("model", <<"m">>))],
    [Plain EXCEPT !.fields = Append(Columns, [target |-> "arm", extractor |-> "eval"])],
    [Plain EXCEPT !.fields = Append(Columns, [target |-> "arm", path |-> <<"">>])],
    [Plain EXCEPT !.defaults = [model |-> N(1)]],
    Plain @@ [sidecar |-> [key |-> "h", text |-> "t", target |-> "arm"]],
    Hashed, OutputHashed }
\* The whole row is the verdicts, or is taken for a text.
RowVerdicts == [Plain EXCEPT !.fields = <<F("judge_verdicts", WholePayload)>>,
    !.defaults = [record_id |-> N(24), ts_utc |-> T("noonZ"), input_text |-> T("none"),
                  output_text |-> T("none")]]
RowText == [Plain EXCEPT !.fields = Append(Columns, F("arm", WholePayload))]
Malformed == [Plain EXCEPT !.fields = Append(Columns, F("arm", <<"a", "">>))]

----------------------------------------------------------------------------
Base == [id |-> T("r1"), at |-> T("noonZ"), q |-> Str(Hello), a |-> T("fine")]

Scalars == {Null, Empty, Str(<<" ", "\n">>), T("yes"), N(1), N(-3), N(24), N(400),
            [bool |-> TRUE], List(<<T("a")>>), Str(Long), Str(<<" ", "7", "\n">>)}
           \cup {T(w) : w \in {"7", "-3", "24", "7.0", "7.5", "1e999", "nan", "--7",
                               "noon", "noonZ", "year1+5"}} \cup Floats

Judged(c, p) == Obj([criterion |-> c, passed |-> p])
VerdictColumns == { List(<<>>), Obj([polite |-> T("yes"), short |-> [bool |-> FALSE]]),
    Obj([polite |-> T("7")]),
    List(<<Judged(T("polite"), T("no")), Judged(T("short"), N(1))>>),
    List(<<Judged(T("polite"), T("no")), Judged(T("polite"), N(1))>>),
    List(<<Judged(T("sam@x"), T("no")), Judged(T("SAM@x"), N(1))>>),
    List(<<Judged(T("polite"), Null)>>), List(<<Judged(N(7), T("yes"))>>),
    List(<<Judged(Empty, T("yes"))>>), List(<<N(1)>>),
    List(<<Obj([criterion |-> T("polite")])>>),
    List(<<Obj([c |-> T("polite"), p |-> N(0)])>>) }

Vary(row, column, v) == (column :> v) @@ row
Without(row, column) == Restrict(row, DOMAIN row \ {column})

OneVaried == {Vary(Base, c, v) : c \in {"id", "at", "q", "a", "ms", "err", "fb", "v"}, v \in Scalars}
    \cup {Without(Base, c) : c \in DOMAIN Base} \cup {Vary(Base, "v", v) : v \in VerdictColumns}
    \cup {Vary(Base, "id", Str(<<"r", "\n", "1">>))}
TwoVaried == {Vary(Vary(Base, "a", v), "err", w) : v, w \in Scalars}
    \cup {Vary(Vary(Base, "ms", v), "at", w) : v, w \in Scalars}

Run(mapping, rows) == [mapping |-> mapping, lines |-> [i \in DOMAIN rows |-> [json |-> Obj(rows[i])]],
                       redact |-> TRUE]

Plainly == {Run(m, <<row>>) : m \in {Plain, Generous, Malformed}, row \in OneVaried}
    \cup {Run(RowVerdicts, <<[polite |-> T("yes"), short |-> v]>>) : v \in Scalars}
    \cup {Run(RowText, <<Base>>)}
    \cup {Run(m, <<row>>) : m \in {Plain, Generous}, row \in TwoVaried}
    \cup {Run(m, <<Base>>) : m \in Refused}

Message(role, content) == Obj([role |-> T(role), content |-> content])
Contents == {T("hi"), Null, Empty, List(<<>>),
             List(<<Obj([type |-> T("text"), text |-> T("hi")]), Obj([type |-> T("image")]),
                    Obj([type |-> T("text"), text |-> T("there")])>>)}
Chats == {Run(Chat, <<Vary(Base, "m", List(<<Message("user", c), Message(r, d),
                       Obj([fb |-> fb])>>))>>) :
              c, d \in Contents, r \in {"user", "assistant"},
              fb \in {Null, T("thanks"), List(<<T("thanks"), N(1), T("sam@x")>>)}}

\* Joins: a sidecar that holds the text, one that does not, one that cannot be read.
Joins == {Run(m, <<Vary(Vary(Base, "h", h), "err", Null)>>) @@ [sidecar |-> s] :
            m \in {Hashed, OutputHashed, Plain},
            h \in {Null, Empty, N(1), T("h1"), T("h2"), T("h3")},
            s \in { <<Obj([t |-> Str(Hello)]), Obj([t |-> Str(Long)])>>, <<>>,
                    <<Obj([t |-> Str(Hello)]), Obj([t |-> Empty])>>, <<N(1)>>}}

\* Lines of a CSV file, short and long, and lines of JSON that are no row.
Header == <<"id", "at", "q", "a", "ms">>
CellsOf == {<<>>, <<"r1">>, <<"noonZ">>, <<"7">>, <<" ">>}
Csv(header, lines) == [mapping |-> [Plain EXCEPT !.format = "csv"], redact |-> TRUE,
                       header |-> header, lines |-> lines]
Files ==
    {Csv(Header, <<[cells |-> <<<<"r1">>, <<"noonZ">>, <<"sam@x">>>> \o rest], [blank |-> TRUE]>>) :
        rest \in UNION {[1..k -> CellsOf] : k \in 0..3}}
    \cup {Csv(Header, <<[cells |-> cells]>>) : cells \in UNION {[1..k -> CellsOf] : k \in 1..4}}
    \cup {[Csv(<<"polite", "short">>, <<[cells |-> <<<<"yes">>>>]>>)
              EXCEPT !.mapping = [RowVerdicts EXCEPT !.format = "csv"]]}
    \cup {Csv(h, <<>>) : h \in {<<>>, <<"id", "">>, <<"id", "id">>}}
    \cup {[Run(Plain, <<>>) EXCEPT !.lines = <<line, [json |-> Obj(Base)]>>] :
            line \in {[garbled |-> TRUE], [blank |-> TRUE], [json |-> List(<<>>)]}}

\* Texts: every one of up to four words, before a fixed line that repeats them.
Alphabet == {"sam@x", "SAM@x", "kim@x", "42", "43", "55", "dr"}
Texts(n) == UNION {[1..k -> Alphabet] : k \in 1..n}
Echo == Vary(Vary(Base, "q", Str(<<"55", "dr", "sam@x">>)), "fb", Str(<<"42", "43", "55", "dr">>))
Redactions ==
    {Run(Plain, <<Vary(Base, "q", Str(t)), Echo>>) : t \in Texts(4)}
    \cup {Run(Plain, <<Vary(Base, "q", Str(<<w, "[EMAIL_1]", x>>)), Echo>>) : w, x \in Alphabet}
    \cup {[Run(Plain, <<Vary(Vary(Base, "q", Str(t)), "a", Str(u)), Echo>>) EXCEPT !.redact = on] :
            t, u \in Texts(1) \cup {<<"42", "43">>, <<"dr", "42", "55">>}, on \in BOOLEAN}
    \cup {Run(Plain, <<Vary(Vary(Base, "fb", Str(t)), "v", v), Echo>>) :
            t \in Texts(1), v \in VerdictColumns}
    \cup {Run(Plain, <<Vary(Base, "q", Str(<<"dr", "dr@", "dr", "55">>)), Echo>>)}

MCSources == Plainly \cup Chats \cup Joins \cup Files \cup Redactions
\* The values in them, entries and all: a line's reach a depth of six.
Entries(v) ==
    IF Is(v, "dict") THEN {v.dict[key] : key \in DOMAIN v.dict}
    ELSE IF Is(v, "list") THEN ToSet(v.list) ELSE {}

ValuesGiven(s) ==
    {line.json : line \in {l \in ToSet(s.lines) : Is(l, "json")}}
    \cup UNION {{Str(cell) : cell \in ToSet(line.cells)} :
                   line \in {l \in ToSet(s.lines) : Is(l, "cells")}}
    \cup (IF "sidecar" \in DOMAIN s THEN ToSet(s.sidecar) ELSE {})
    \cup {s.mapping.defaults[f] : f \in DOMAIN s.mapping.defaults}

Deeper(values, depth) == {v : v \in values \cup UNION {Entries(v) : v \in values}}
AllValues ==
    FoldLeft(Deeper, {Null} \cup UNION {ValuesGiven(s) : s \in MCSources}, [depth \in 1 .. 6 |-> depth])
MCJson == AllValues
=============================================================================
