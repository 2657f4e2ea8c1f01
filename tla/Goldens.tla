------------------------------ MODULE Goldens ------------------------------
(***************************************************************************)
(* From a shortlist to golden cases: `loghog label`, `loghog emit` and     *)
(* `loghog promote` (stages 06 and 07) over one window, typed by one       *)
(* operator in any order, while `loghog select` replaces the shortlist     *)
(* between them (src/loghog/label, src/loghog/emit).                       *)
(*                                                                         *)
(* The commands share nothing but files.  candidates.jsonl, labels.jsonl,  *)
(* the candidates YAML and the review are written in place, so a kill can  *)
(* leave the start of one; the goldens file is renamed into place.  Label  *)
(* holds every draft in memory until the last call has answered.           *)
(*                                                                         *)
(* A label or a case is the record it is about, whether it was drafted,    *)
(* and by whom: the model, the dry run's placeholder, or the operator.     *)
(* label.md repeats labels.jsonl and no command reads it: it is left out.  *)
(***************************************************************************)
EXTENDS Integers, Sequences, FiniteSets

CONSTANTS
    Records,        \* record ids
    CaseIds, CaseId,\* CaseId[r]: the case id `case_id_for` builds from r's slug
    Shortlists,     \* what `loghog select` may write: sequences of records
    Standing,       \* the ids a goldens file may hold before
    MaxCalls,       \* [label] max_calls
    MaxCommands,    \* bound: commands typed
    MaxKills        \* bound: commands killed

ASSUME CaseIdAssumption == CaseId \in [Records -> CaseIds]
ASSUME ShortlistsAssumption == Shortlists \subseteq Seq(Records)
ASSUME StandingAssumption ==
    /\ Standing \subseteq Seq(CaseIds)
    /\ \A ids \in Standing : Cardinality({ids[k] : k \in DOMAIN ids}) = Len(ids)
ASSUME BoundsAssumption == MaxCalls \in Nat /\ MaxCommands \in Nat /\ MaxKills \in Nat

Authors == {"model", "dry run", "operator"}

Label == [rec : Records, drafted : BOOLEAN, by : Authors]

Case == [id : CaseIds, rec : Records, by : Authors]

Golden == [id : CaseIds, by : Authors \cup {"before"}]

VARIABLES
    candidates,     \* candidates.jsonl
    labels,         \* labels.jsonl
    yaml,           \* goldens/candidates-<window>.yaml
    review,         \* goldens/review-<window>.md: its cases, its failures
    goldens,        \* the target of promote; << >> while it is not there
    pc,             \* where the command is
    dry,            \* --dry-run
    todo, batch,    \* label: rows without a draft yet, labels so far
    calls,          \* label: calls made by this run
    last, exit,     \* the last command, and how it ended
    commands, kills

disk == <<candidates, labels, yaml, review, goldens>>
memory == <<dry, todo, batch, calls>>
vars == <<disk, memory, pc, last, exit, commands, kills>>

Absent == [state |-> "absent", rows |-> << >>]
Whole(rows) == [state |-> "whole", rows |-> rows]
NoReview == [there |-> FALSE, cases |-> << >>, failed |-> << >>]

Readable(f) == f.state = "whole"

\* What a kill leaves of a file being written: its first rows, whether or not
\* the last one is cut in the middle.
Cut(rows) ==
    { [state |-> s, rows |-> SubSeq(rows, 1, n)] : s \in {"whole", "torn"}, n \in 0 .. Len(rows) }

Ids(cases) == {cases[k].id : k \in DOMAIN cases}

\* regression_detect.goldens.load_goldens, as src/ describes it: a dataset has
\* a case, and no id twice.
Loads(cases) == cases # << >> /\ Cardinality(Ids(cases)) = Len(cases)

----------------------------------------------------------------------------
Init ==
    /\ candidates = Absent /\ labels = Absent /\ yaml = Absent
    /\ review = NoReview
    /\ \E ids \in Standing :
         goldens = [k \in DOMAIN ids |-> [id |-> ids[k], by |-> "before"]]
    /\ pc = "idle"
    /\ dry = FALSE /\ todo = << >> /\ batch = << >> /\ calls = 0
    /\ last = "none" /\ exit = "none"
    /\ commands = 0 /\ kills = 0

\* The operator types a command.
Type(command) ==
    /\ pc = "idle" /\ commands < MaxCommands
    /\ commands' = commands + 1
    /\ last' = command

End(how) == pc' = "idle" /\ exit' = how

\* One line on standard error, exit 2.
RefuseCommand(command) ==
    /\ Type(command)
    /\ End("refused")
    /\ UNCHANGED <<disk, memory, kills>>

\* `loghog select`, finished or killed while it wrote (see Select).
Select(rows) ==
    /\ Type("select")
    /\ \/ End("ok") /\ candidates' = Whole(rows) /\ UNCHANGED kills
       \/ /\ kills < MaxKills /\ kills' = kills + 1
          /\ End("killed") /\ candidates' \in Cut(rows)
    /\ UNCHANGED <<labels, yaml, review, goldens, memory>>

(***************************************************************************)
(* label_window.                                                           *)
(***************************************************************************)
LabelRefused ==
    \/ ~Readable(candidates)
    \/ candidates.rows = << >>
    \/ Len(candidates.rows) > MaxCalls

RefuseLabel == LabelRefused /\ RefuseCommand("label")

StartLabel(d) ==
    /\ ~LabelRefused
    /\ Type("label")
    /\ pc' = "draft"
    /\ dry' = d
    /\ todo' = candidates.rows
    /\ batch' = << >>
    /\ calls' = 0
    /\ UNCHANGED <<disk, exit, kills>>

\* One call of the drafter.  The placeholder always parses; a provider error
\* or a reply that is not a draft is a row.
Draft ==
    /\ pc = "draft" /\ todo # << >>
    /\ \E drafted \in IF dry THEN {TRUE} ELSE BOOLEAN :
         batch' = Append(batch, [ rec |-> Head(todo), drafted |-> drafted,
                                  by |-> IF dry THEN "dry run" ELSE "model" ])
    /\ todo' = Tail(todo)
    /\ calls' = calls + 1
    /\ UNCHANGED <<disk, pc, dry, last, exit, commands, kills>>

\* The labels that have a draft, or have none, in their order.
Picked(ls, drafted) ==
    LET picked[k \in 0 .. Len(ls)] ==
            IF k = 0 THEN << >>
            ELSE IF ls[k].drafted = drafted THEN Append(picked[k - 1], ls[k])
            ELSE picked[k - 1]
    IN  picked[Len(ls)]

Drafted(ls) == Picked(ls, TRUE)
Failed(ls) == Picked(ls, FALSE)

Outcome(done, failed) ==
    IF done = << >> THEN "nothing" ELSE IF failed # << >> THEN "partial" ELSE "ok"

\* Slip: only the drafts are kept.
WriteLabelsDrafted ==
    /\ pc = "draft" /\ todo = << >>
    /\ labels' = Whole(Drafted(batch))
    /\ End(Outcome(Drafted(batch), Failed(batch)))
    /\ UNCHANGED <<candidates, yaml, review, goldens, memory, last, commands, kills>>

WriteLabels ==
    /\ pc = "draft" /\ todo = << >>
    /\ labels' = Whole(batch)
    /\ End(Outcome(Drafted(batch), Failed(batch)))
    /\ UNCHANGED <<candidates, yaml, review, goldens, memory, last, commands, kills>>

(***************************************************************************)
(* emit_window.  The labels may be older than the shortlist: only their    *)
(* records are looked up in it.                                            *)
(***************************************************************************)
Listed == {candidates.rows[k] : k \in DOMAIN candidates.rows}

\* Slip: the shortlist is taken as it is.
EmitRefusedLabelsOnly == ~Readable(labels)

EmitRefused ==
    \/ ~Readable(labels)
    \/ ~Readable(candidates)
    \/ \E k \in DOMAIN labels.rows : labels.rows[k].rec \notin Listed

RefuseEmit == EmitRefused /\ RefuseCommand("emit")

StartEmit ==
    /\ ~EmitRefused
    /\ Type("emit")
    /\ pc' = IF Drafted(labels.rows) = << >> THEN "review" ELSE "yaml"
    /\ UNCHANGED <<disk, memory, exit, kills>>

CaseOf(l) == [id |-> CaseId[l.rec], rec |-> l.rec, by |-> l.by]

\* Slip: a failed draft is emitted with placeholder criteria.
CasesAll == [k \in DOMAIN labels.rows |-> CaseOf(labels.rows[k])]

Cases ==
    LET done == Drafted(labels.rows) IN [k \in DOMAIN done |-> CaseOf(done[k])]

\* render_cases_yaml checks that every case parses back; that two of them have
\* different ids is left to whoever loads the file.
WriteYaml ==
    /\ pc = "yaml"
    /\ yaml' = Whole(Cases)
    /\ pc' = "review"
    /\ UNCHANGED <<candidates, labels, review, goldens, memory, last, exit, commands, kills>>

WriteReview ==
    /\ pc = "review"
    /\ LET done == Drafted(labels.rows)
       IN  review' = [ there |-> TRUE, failed |-> Failed(labels.rows),
                       cases |-> [k \in DOMAIN done |-> CaseOf(done[k])] ]
    /\ End(Outcome(Drafted(labels.rows), Failed(labels.rows)))
    /\ UNCHANGED <<candidates, labels, yaml, goldens, memory, last, commands, kills>>

(***************************************************************************)
(* promote.  The operator names ids in order; parse_ids refuses a repeat.  *)
(***************************************************************************)
Wanted == {ids \in UNION {[1 .. n -> CaseIds] : n \in 1 .. 2} :
              \A j, k \in DOMAIN ids : ids[j] = ids[k] => j = k}

Named(id) == yaml.rows[CHOOSE k \in DOMAIN yaml.rows : yaml.rows[k].id = id]

Placeholder(c) == c.by = "dry run"

\* The goldens with the named cases after them.
Adopted(ids) ==
    goldens \o [k \in DOMAIN ids |-> [id |-> ids[k], by |-> Named(ids[k]).by]]

\* Slips: neither the target nor the result is looked at; the marker is not.
PromotableUnverified(ids) ==
    /\ Readable(yaml) /\ Loads(yaml.rows)
    /\ \A k \in DOMAIN ids : ids[k] \in Ids(yaml.rows) /\ ~Placeholder(Named(ids[k]))

PromotableDecorative(ids) ==
    /\ Readable(yaml) /\ Loads(yaml.rows)
    /\ \A k \in DOMAIN ids : ids[k] \in Ids(yaml.rows) \ Ids(goldens)

Promotable(ids) ==
    /\ Readable(yaml) /\ Loads(yaml.rows)
    /\ \A k \in DOMAIN ids : /\ ids[k] \in Ids(yaml.rows)
                              /\ ~Placeholder(Named(ids[k]))
                              /\ ids[k] \notin Ids(goldens)
    /\ Loads(Adopted(ids))

RefusePromote(ids) == ~Promotable(ids) /\ RefuseCommand("promote")

\* Slip: the file is loaded and dumped again with the new cases first.
PromoteFirst(ids) ==
    /\ Promotable(ids)
    /\ Type("promote")
    /\ goldens' = SubSeq(Adopted(ids), Len(goldens) + 1, Len(Adopted(ids))) \o goldens
    /\ End("ok")
    /\ UNCHANGED <<candidates, labels, yaml, review, memory, kills>>

Promote(ids) ==
    /\ Promotable(ids)
    /\ Type("promote")
    /\ goldens' = Adopted(ids)
    /\ End("ok")
    /\ UNCHANGED <<candidates, labels, yaml, review, memory, kills>>

\* The operator writes a case's criteria by hand and takes its marker out.
HandWrite ==
    /\ pc = "idle" /\ Readable(yaml)
    /\ \E k \in DOMAIN yaml.rows :
         /\ Placeholder(yaml.rows[k])
         /\ yaml' = [yaml EXCEPT !.rows[k].by = "operator"]
    /\ last' = "edit" /\ exit' = "none"
    /\ UNCHANGED <<candidates, labels, review, goldens, memory, pc, commands, kills>>

(***************************************************************************)
(* The process is killed, or an exception no handler names ends it: what   *)
(* it held is lost, and the file it was writing may be cut.                *)
(***************************************************************************)
Kill ==
    /\ pc # "idle" /\ kills < MaxKills
    /\ kills' = kills + 1
    /\ End("killed")
    /\ labels' \in {labels} \cup IF pc = "draft" /\ todo = << >> THEN Cut(batch) ELSE {}
    /\ yaml' \in {yaml} \cup IF pc = "yaml" THEN Cut(Cases) ELSE {}
    /\ review' \in {review} \cup IF pc = "review" THEN {NoReview} ELSE {}
    /\ UNCHANGED <<candidates, goldens, memory, last, commands>>

Rest == pc = "idle" /\ commands = MaxCommands /\ UNCHANGED vars

Next ==
    \/ \E rows \in Shortlists : Select(rows)
    \/ RefuseLabel \/ (\E d \in BOOLEAN : StartLabel(d)) \/ Draft \/ WriteLabels
    \/ RefuseEmit \/ StartEmit \/ WriteYaml \/ WriteReview
    \/ \E ids \in Wanted : RefusePromote(ids) \/ Promote(ids)
    \/ HandWrite
    \/ Kill
    \/ Rest

Spec == Init /\ [][Next]_vars

----------------------------------------------------------------------------
(***************************************************************************)
(* Properties.                                                             *)
(***************************************************************************)
File(S) == [state : {"absent", "whole", "torn"}, rows : Seq(S)]

TypeOK ==
    /\ candidates \in File(Records)
    /\ labels \in File(Label)
    /\ yaml \in File(Case)
    /\ review \in [there : BOOLEAN, cases : Seq(Case), failed : Seq(Label)]
    /\ goldens \in Seq(Golden)
    /\ pc \in {"idle", "draft", "yaml", "review"}
    /\ dry \in BOOLEAN /\ todo \in Seq(Records) /\ batch \in Seq(Label)
    /\ calls \in Nat /\ commands \in 0 .. MaxCommands /\ kills \in 0 .. MaxKills
    /\ pc \in {"yaml", "review"} => Readable(labels) /\ Readable(candidates)

\* The goldens file never holds an id twice: not when two records share a slug,
\* not when the same case is promoted again after a new select, label and emit
\* ("a golden id is stable for ever").
GoldenIdsUnique == Cardinality(Ids(goldens)) = Len(goldens)

\* No case of the goldens was drafted by a dry run, whatever was labelled and
\* emitted before or since ("so the sentence is enforced rather than printed").
NoPlaceholderAdopted == \A k \in DOMAIN goldens : goldens[k].by # "dry run"

\* The goldens file only grows, at its end, and only by a promote.
GoldensOnlyGrow ==
    [][ goldens' # goldens =>
          /\ Len(goldens') > Len(goldens)
          /\ SubSeq(goldens', 1, Len(goldens)) = goldens
          /\ last' = "promote" /\ exit' = "ok" ]_vars

\* "Exactly one call per candidate" and "the budget refuses rather than
\* truncating": a run of label never makes more than max_calls calls, and one
\* that was not killed leaves a row for every candidate, in the order of the
\* shortlist, failed drafts among them.
OneCallEach ==
    /\ calls <= MaxCalls
    /\ pc = "draft" => calls = Len(batch) /\ calls + Len(todo) = Len(candidates.rows)
    /\ last = "label" /\ exit # "killed" /\ exit # "refused" /\ pc = "idle" =>
         /\ calls = Len(candidates.rows)
         /\ [k \in DOMAIN labels.rows |-> labels.rows[k].rec] = candidates.rows

\* After an emit that exits 0 or 1 the two files tell one story: the same cases
\* in the same order, each of a record the shortlist holds, and together with
\* the failures in the review as many as there are labels.
EmitTellsOneStory ==
    last = "emit" /\ pc = "idle" /\ exit \in {"ok", "partial"} =>
        /\ yaml.rows = review.cases
        /\ Len(review.cases) + Len(review.failed) = Len(labels.rows)
        /\ exit = "ok" <=> review.failed = << >>
        /\ \A k \in DOMAIN yaml.rows : yaml.rows[k].rec \in Listed
=============================================================================
