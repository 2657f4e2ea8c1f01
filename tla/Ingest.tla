------------------------------- MODULE Ingest -------------------------------
(***************************************************************************)
(* `loghog ingest`: stages 01 and 02 of the pipeline, one window, any      *)
(* number of runs of the command into it (src/loghog/ingest/run.py).       *)
(*                                                                         *)
(* A run checks its arguments against the window on disk, reads its source *)
(* line by line -- map, redact, deduplicate -- holding everything in       *)
(* memory, and only then writes four files one after the other:            *)
(* records.jsonl, errors.jsonl, manifest.json and ingest.md.  The process  *)
(* may be killed between any two steps; the files are all that survives.   *)
(*                                                                         *)
(* A log line is abstracted to what the run can tell apart: whether it     *)
(* reads, whether it makes a record, which words its input holds up to the *)
(* normalisation deduplication applies, which personal values stand in it, *)
(* and whether the redactor leaves something the write guard recognises.   *)
(***************************************************************************)
EXTENDS Integers, Sequences, FiniteSets

CONSTANTS
    Sources,            \* (path, sha256) pairs that can be handed to a run
    Log,                \* Log[s]: the lines of source s
    Topics,             \* inputs up to normalisation, personal values apart
    Values, NoValue,    \* personal values, in canonical form; none at all
    Classes, ClassOf,   \* the PII class of each value
    Redact,             \* the values of [privacy] redact in the config files
    Dedupe,             \* the values of [ingest] dedupe
    Synthetic,          \* whether --synthetic may be passed
    MaxRuns,            \* bound: runs of the command
    MaxCrashes          \* bound: runs that are killed

Kinds == {
    "blank",        \* nothing on the line
    "unparsed",     \* the source format cannot read it
    "unbuildable",  \* reads, and build_record raises a RecordError
    "clash",        \* builds, and two of its criteria are equal once redacted
    "fatal",        \* raises a LoghogError that is not about this line
    "row" }         \* becomes a record

Line == [ kind : Kinds,
          topic : Topics,
          ask : Values \cup {NoValue},      \* the value in its input_text
          reply : Values \cup {NoValue},    \* the value in its other texts
          residue : BOOLEAN ]               \* redaction leaves structural PII

ASSUME LogAssumption == Log \in [Sources -> Seq(Line)]

ASSUME ValuesAssumption ==
    /\ IsFiniteSet(Values)
    /\ NoValue \notin Values
    /\ ClassOf \in [Values -> Classes]

ASSUME SettingsAssumption ==
    /\ Redact \subseteq BOOLEAN
    /\ Dedupe \subseteq BOOLEAN
    /\ Synthetic \subseteq BOOLEAN

ASSUME BoundsAssumption == MaxRuns \in Nat /\ MaxCrashes \in Nat

(***************************************************************************)
(* The window on disk, and the run in memory.                              *)
(***************************************************************************)
VARIABLES
    records,    \* records.jsonl: the records whose every character is there
    file,       \* records.jsonl: whether it is there, and how it ends
    errors,     \* errors.jsonl: its number of lines
    manifest,   \* manifest.json; its sources are {} when it is not there
    report,     \* ingest.md: the sources it names
    pc,         \* where the run is
    cmd,        \* its arguments and settings
    line,       \* lines_read
    tokens,     \* the Redactor's map, 0 for a value it has not met
    seen,       \* the Deduper's set
    batch,      \* the records built so far
    counts,     \* the counters of the loop
    failures,   \* the number of LineFailures collected
    written,    \* how many of batch are in the file
    exit,       \* how the last run ended
    runs,       \* runs started
    crashes,    \* runs killed
    before      \* history: the window as the last run found it

disk == <<records, file, errors, manifest, report>>
memory == <<cmd, line, tokens, seen, batch, counts, failures, written>>
vars == <<disk, memory, pc, exit, runs, crashes, before>>

Commands == [ src : Sources, append : BOOLEAN,
              redact : Redact, dedupe : Dedupe, synthetic : Synthetic ]

ASSUME CommandsAssumption == Commands # {}

L == INSTANCE WindowLedger WITH
        Lines <- [s \in Sources |-> Len(Log[s])],
        sources <- manifest.sources,
        counts <- manifest.counts,
        redacted <- manifest.redacted

NoManifest == [ sources |-> {}, counts |-> L!NoCounts, redacted |-> TRUE,
                synthetic |-> FALSE, dedupe |-> FALSE ]

NoTokens == [v \in Values |-> 0]

(***************************************************************************)
(* Redaction: Redactor.redact and _token_for.  A value met for the first   *)
(* time takes the next index of its class.                                 *)
(***************************************************************************)
Known(t, c) == {v \in Values : ClassOf[v] = c /\ t[v] # 0}

Learn(t, v) ==
    IF v \in Values /\ t[v] = 0
    THEN [t EXCEPT ![v] = Cardinality(Known(t, ClassOf[v])) + 1]
    ELSE t

\* Slip: the texts after the input are redacted against a map never extended.
RedactedAskOnly(t, l) == Learn(t, l.ask)

\* Slip: a Redactor for every record.
RedactedPerRecord(t, l) == Learn(Learn(NoTokens, l.ask), l.reply)

\* The criteria and the input are redacted before the other texts.
Redacted(t, l) == Learn(Learn(t, l.ask), l.reply)

\* The text in the place of value v: its token, or v itself, or nothing.
Tag(t, v) ==
    IF v \in Values /\ cmd.redact THEN <<ClassOf[v], t[v]>> ELSE <<v, 0>>

\* The record a row becomes.  from, by and run are history: the line, the
\* settings and the run it came from.
Record(t, l) == [ topic |-> l.topic, ask |-> Tag(t, l.ask),
                  reply |-> Tag(t, l.reply),
                  from |-> l, by |-> cmd, run |-> runs ]

Fingerprint(r) == <<r.topic, r.ask>>

Fingerprints(rs) == {Fingerprint(rs[i]) : i \in DOMAIN rs}

(***************************************************************************)
(* Starting a run.  Everything that can refuse it looks at its arguments   *)
(* and at the window, before the first line is read.                       *)
(***************************************************************************)
Init ==
    /\ records = <<>> /\ file = "absent" /\ errors = 0
    /\ manifest = NoManifest /\ report = {}
    /\ pc = "idle" /\ exit = "none" /\ runs = 0 /\ crashes = 0
    /\ cmd = CHOOSE c \in Commands : TRUE
    /\ line = 0 /\ tokens = NoTokens /\ seen = {} /\ batch = <<>>
    /\ counts = L!NoCounts /\ failures = 0 /\ written = 0
    /\ before = disk

WindowExists == file # "absent" \/ manifest.sources # {}

\* Slip: the (path, sha256) pairs already ingested are not looked at.
RefusedAnyAgain(c, fits, allow) ==
    \/ ~fits
    \/ ~c.redact /\ ~allow
    \/ c.append # WindowExists
    \/ c.append /\ manifest.sources = {}

\* fits: the mapping, the format, the sidecar and the source file agree.
\* allow: --allow-unredacted was typed.
Refused(c, fits, allow) ==
    \/ ~fits
    \/ ~c.redact /\ ~allow
    \/ c.append # WindowExists
    \/ c.append /\ manifest.sources = {}
    \/ c.src \in manifest.sources

\* existing_fingerprints reads the whole file and fails on a line that is not JSON.
Unreadable(c) == c.append /\ file = "corrupt"

\* The run ends; what it held in memory is gone but for what it reports.
End(how) ==
    /\ pc' = "idle"
    /\ exit' = how

RefuseRun(c) ==
    /\ pc = "idle" /\ runs < MaxRuns
    /\ \E fits, allow \in BOOLEAN : Refused(c, fits, allow)
    /\ End("refused")
    /\ cmd' = c /\ runs' = runs + 1 /\ before' = disk
    /\ UNCHANGED <<disk, line, tokens, seen, batch, counts, failures, written, crashes>>

BreakRun(c) ==
    /\ pc = "idle" /\ runs < MaxRuns
    /\ \E fits, allow \in BOOLEAN : ~Refused(c, fits, allow)
    /\ Unreadable(c)
    /\ End("traceback")
    /\ cmd' = c /\ runs' = runs + 1 /\ before' = disk
    /\ UNCHANGED <<disk, line, tokens, seen, batch, counts, failures, written, crashes>>

\* Slip: the Deduper starts empty on --append too.
StartRunUnseeded(c) ==
    /\ pc = "idle" /\ runs < MaxRuns
    /\ \E fits, allow \in BOOLEAN : ~Refused(c, fits, allow)
    /\ ~Unreadable(c)
    /\ pc' = "read" /\ exit' = "none"
    /\ cmd' = c /\ runs' = runs + 1 /\ before' = disk
    /\ line' = 0 /\ tokens' = NoTokens /\ batch' = <<>> /\ seen' = {}
    /\ counts' = L!NoCounts /\ failures' = 0 /\ written' = 0
    /\ UNCHANGED <<disk, crashes>>

\* The Redactor is new in every run; the Deduper starts from the window.
StartRun(c) ==
    /\ pc = "idle" /\ runs < MaxRuns
    /\ \E fits, allow \in BOOLEAN : ~Refused(c, fits, allow)
    /\ ~Unreadable(c)
    /\ pc' = "read" /\ exit' = "none"
    /\ cmd' = c /\ runs' = runs + 1 /\ before' = disk
    /\ line' = 0 /\ tokens' = NoTokens /\ batch' = <<>>
    /\ seen' = IF c.append THEN Fingerprints(records) ELSE {}
    /\ counts' = L!NoCounts /\ failures' = 0 /\ written' = 0
    /\ UNCHANGED <<disk, crashes>>

(***************************************************************************)
(* Reading the source: the loop of ingest, one line at a time, in memory.  *)
(***************************************************************************)
Count(names) ==
    [n \in L!CountNames |-> IF n \in names THEN counts[n] + 1 ELSE counts[n]]

\* The run is at a line of one of these kinds.
Reading(kinds) ==
    /\ pc = "read"
    /\ line < Len(Log[cmd.src])
    /\ Log[cmd.src][line + 1].kind \in kinds

Current == Log[cmd.src][line + 1]

ReadBlank ==
    /\ Reading({"blank"})
    /\ line' = line + 1
    /\ counts' = Count({"lines", "blanks"})
    /\ UNCHANGED <<disk, cmd, tokens, seen, batch, failures, written, pc, exit, runs, crashes, before>>

\* Slip: rows += 1 moved above the check for a line the format cannot read.
ReadUnparsedAsRow ==
    /\ Reading({"unparsed"})
    /\ line' = line + 1
    /\ counts' = Count({"lines", "rows", "unparsed"})
    /\ failures' = failures + 1
    /\ UNCHANGED <<disk, cmd, tokens, seen, batch, written, pc, exit, runs, crashes, before>>

ReadUnparsed ==
    /\ Reading({"unparsed"})
    /\ line' = line + 1
    /\ counts' = Count({"lines", "unparsed"})
    /\ failures' = failures + 1
    /\ UNCHANGED <<disk, cmd, tokens, seen, batch, written, pc, exit, runs, crashes, before>>

\* A RecordError out of build_record, or out of the second validation that
\* _redacted runs: by then the redactor has met the line's values.
ReadInvalid ==
    /\ Reading({"unbuildable", "clash"})
    /\ Current.kind = "clash" => cmd.redact
    /\ line' = line + 1
    /\ counts' = Count({"lines", "rows", "invalid"})
    /\ failures' = failures + 1
    /\ tokens' = IF Current.kind = "clash" THEN Redacted(tokens, Current) ELSE tokens
    /\ UNCHANGED <<disk, cmd, seen, batch, written, pc, exit, runs, crashes, before>>

\* Criteria that only redaction makes equal are no clash when it is off.
ReadRow ==
    /\ Reading({"row", "clash"})
    /\ Current.kind = "clash" => ~cmd.redact
    /\ LET t == IF cmd.redact THEN Redacted(tokens, Current) ELSE tokens
           r == Record(t, Current)
           new == Fingerprint(r) \notin seen \/ ~cmd.dedupe
       IN  /\ tokens' = t
           /\ seen' = seen \cup {Fingerprint(r)}
           /\ batch' = IF new THEN Append(batch, r) ELSE batch
           /\ counts' = Count({"lines", "rows", IF new THEN "written" ELSE "dropped"})
    /\ line' = line + 1
    /\ UNCHANGED <<disk, cmd, failures, written, pc, exit, runs, crashes, before>>

ReadFatal ==
    /\ Reading({"fatal"})
    /\ End("refused")
    /\ line' = line + 1
    /\ counts' = Count({"lines", "rows"})
    /\ UNCHANGED <<disk, cmd, tokens, seen, batch, failures, written, runs, crashes, before>>

(***************************************************************************)
(* The end of the source: nothing to write, a refusal, or four writes.     *)
(***************************************************************************)
AtEnd == pc = "read" /\ line = Len(Log[cmd.src])

\* WindowStore._guard: a record still carries structural personal data.
Guarded == cmd.redact /\ \E i \in DOMAIN batch : batch[i].from.residue

\* Slip: the rejected lines are written even when there is no record.
EndWithErrors ==
    /\ AtEnd /\ batch = <<>>
    /\ End("nothing")
    /\ errors' = errors + failures
    /\ UNCHANGED <<records, file, manifest, report, memory, runs, crashes, before>>

EndWithNothing ==
    /\ AtEnd /\ batch = <<>>
    /\ End("nothing")
    /\ UNCHANGED <<disk, memory, runs, crashes, before>>

RefuseWrite ==
    /\ AtEnd /\ batch # <<>> /\ Guarded
    /\ End("refused")
    /\ UNCHANGED <<disk, memory, runs, crashes, before>>

\* Slip: the manifest is written before the records it describes.
OpenManifestFirst ==
    /\ AtEnd /\ batch # <<>> /\ ~Guarded
    /\ pc' = "manifest"
    /\ file' = IF file = "absent" THEN "whole" ELSE file
    /\ UNCHANGED <<records, errors, manifest, report, memory, exit, runs, crashes, before>>

OpenRecords ==
    /\ AtEnd /\ batch # <<>> /\ ~Guarded
    /\ pc' = "records"
    /\ file' = IF file = "absent" THEN "whole" ELSE file
    /\ UNCHANGED <<records, errors, manifest, report, memory, exit, runs, crashes, before>>

\* A line after one whose newline is missing makes one line of the two.
WriteRecord ==
    /\ pc = "records" /\ written < Len(batch)
    /\ records' = Append(records, batch[written + 1])
    /\ file' = IF file = "unterminated" THEN "corrupt" ELSE file
    /\ written' = written + 1
    /\ UNCHANGED <<errors, manifest, report, cmd, line, tokens, seen, batch, counts, failures,
                   pc, exit, runs, crashes, before>>

CloseRecords ==
    /\ pc = "records" /\ written = Len(batch)
    /\ pc' = "errors"
    /\ UNCHANGED <<disk, memory, exit, runs, crashes, before>>

AppendErrors ==
    /\ pc = "errors"
    /\ errors' = errors + failures
    /\ pc' = "manifest"
    /\ UNCHANGED <<records, file, manifest, report, memory, exit, runs, crashes, before>>

\* Manifest(...) for the first run, existing.merge(...) for the others, which
\* takes neither the synthetic flag nor the dedupe setting of the new run.
Merged ==
    IF manifest.sources = {}
    THEN [ sources |-> {cmd.src}, counts |-> counts, redacted |-> cmd.redact,
           synthetic |-> cmd.synthetic, dedupe |-> cmd.dedupe ]
    ELSE [ manifest EXCEPT !.sources = @ \cup {cmd.src},
                           !.counts = L!Plus(@, counts),
                           !.redacted = @ /\ cmd.redact ]

WriteManifest ==
    /\ pc = "manifest"
    /\ manifest' = Merged
    /\ pc' = "report"
    /\ UNCHANGED <<records, file, errors, report, memory, exit, runs, crashes, before>>

\* Slip: only invalid rows make a run partial.
WriteReportInvalidOnly ==
    /\ pc = "report"
    /\ report' = manifest.sources
    /\ End(IF counts["invalid"] > 0 THEN "partial" ELSE "ok")
    /\ UNCHANGED <<records, file, errors, manifest, memory, runs, crashes, before>>

WriteReport ==
    /\ pc = "report"
    /\ report' = manifest.sources
    /\ End(IF failures > 0 THEN "partial" ELSE "ok")
    /\ UNCHANGED <<records, file, errors, manifest, memory, runs, crashes, before>>

(***************************************************************************)
(* The process is killed.  A file being appended to keeps any part of what *)
(* was on its way, a report being replaced may be left empty, and the      *)
(* manifest is renamed into place whole or not at all.                     *)
(***************************************************************************)
Torn ==
    {file} \cup (IF written < Len(batch) THEN {"corrupt"} ELSE {})
           \cup (IF written > 0 /\ file = "whole" THEN {"unterminated"} ELSE {})

Crash ==
    /\ pc # "idle" /\ crashes < MaxCrashes
    /\ file' \in IF pc = "records" THEN Torn ELSE {file}
    /\ errors' \in IF pc = "errors" THEN errors .. (errors + failures) ELSE {errors}
    /\ report' \in IF pc = "report" THEN {report, {}} ELSE {report}
    /\ End("killed")
    /\ crashes' = crashes + 1
    /\ UNCHANGED <<records, manifest, memory, runs, before>>

\* The operator types no further command.
Rest == pc = "idle" /\ runs = MaxRuns /\ UNCHANGED vars

Read == ReadBlank \/ ReadUnparsed \/ ReadInvalid \/ ReadRow \/ ReadFatal

Finish == EndWithNothing \/ RefuseWrite

Write == OpenRecords \/ WriteRecord \/ CloseRecords \/ AppendErrors \/ WriteManifest \/ WriteReport

Next ==
    \/ \E c \in Commands : RefuseRun(c) \/ BreakRun(c) \/ StartRun(c)
    \/ Read \/ Finish \/ Write
    \/ Crash
    \/ Rest

Spec == Init /\ [][Next]_vars

(***************************************************************************)
(* Properties.                                                             *)
(***************************************************************************)
Tags == (Classes \X (Nat \ {0})) \cup ((Values \cup {NoValue}) \X {0})

Records == [ topic : Topics, ask : Tags, reply : Tags,
             from : Line, by : Commands, run : 1 .. MaxRuns ]

Manifests == [ sources : SUBSET Sources, counts : L!Counts, redacted : BOOLEAN,
               synthetic : BOOLEAN, dedupe : BOOLEAN ]

\* The files and the run have their shape; above all no token is ever numbered
\* 0, which redaction_token refuses (src/loghog/privacy/redact.py).
TypeOK ==
    /\ records \in Seq(Records)
    /\ file \in {"absent", "whole", "unterminated", "corrupt"}
    /\ errors \in Nat
    /\ manifest \in Manifests
    /\ report \subseteq Sources
    /\ pc \in {"idle", "read", "records", "errors", "manifest", "report"}
    /\ exit \in {"none", "ok", "partial", "nothing", "refused", "traceback", "killed"}
    /\ cmd \in Commands
    /\ line \in Nat
    /\ tokens \in [Values -> Nat]
    /\ seen \subseteq Topics \X Tags
    /\ batch \in Seq(Records)
    /\ counts \in L!Counts
    /\ failures \in Nat
    /\ written \in 0 .. Len(batch)
    /\ runs \in 0 .. MaxRuns
    /\ pc # "idle" => line <= Len(Log[cmd.src]) /\ runs > 0
    /\ crashes \in 0 .. MaxCrashes

Rejected(c) == c["unparsed"] + c["invalid"]

\* The two sums Manifest.__post_init__ checks hold of the loop's counters after
\* every line and of every manifest: that check never stops a run at its end,
\* after the whole source was read.
CountsClose ==
    /\ L!Closes(manifest.counts)
    /\ pc # "idle" =>
        /\ L!Closes(counts)
        /\ counts["lines"] = line
        /\ counts["written"] = Len(batch)
        /\ Rejected(counts) = failures

\* At no moment, not even after a kill between two writes, does the manifest
\* count a record or a rejected line that is not in its file: the order of the
\* four writes of ingest (src/loghog/window/store.py:10-11).
ManifestNeverAhead ==
    /\ manifest.counts["written"] <= Len(records)
    /\ Rejected(manifest.counts) <= errors
    /\ manifest.sources # {} => file # "absent"

\* A record written by a run with dedupe on has an input no record before it
\* has, whichever run wrote that one and whether or not that run was killed
\* half way and typed again (Deduper, existing_fingerprints).
NoDuplicateInputs ==
    \A j \in DOMAIN records : records[j].by.dedupe =>
        \A i \in 1 .. (j - 1) : Fingerprint(records[i]) # Fingerprint(records[j])

\* The values standing in a record, each with the text in its place.
Replaced(r) ==
    { x \in { <<r.ask, r.from.ask>>, <<r.reply, r.from.reply>> } : x[2] # NoValue }

\* No record of a run with redaction on carries structural personal data the
\* redactor left, nor a value that is not a numbered token (WindowStore._guard).
GuardHolds ==
    \A i \in DOMAIN records : records[i].by.redact =>
        /\ ~records[i].from.residue
        /\ \A x \in Replaced(records[i]) : x[1][2] > 0

\* Among the records of one redacting run, two texts are the same token exactly
\* when they replace the same value, in whatever fields and however far apart
\* the two records are (Redactor, src/loghog/privacy/redact.py:3-9).
OneRunOneNumbering ==
    \A i, j \in DOMAIN records :
        records[i].run = records[j].run /\ records[i].by.redact =>
            \A x \in Replaced(records[i]), y \in Replaced(records[j]) :
                x[1] = y[1] <=> x[2] = y[2]

\* A run that ends with exit code 2 or 3, or in a traceback, leaves every file
\* of the window as it found it: "Nothing was written".
NothingWritten ==
    exit \in {"nothing", "refused", "traceback"} => disk = before

\* The line is a failure of this run.
Fails(l) == l.kind \in {"unparsed", "unbuildable"} \/ (l.kind = "clash" /\ cmd.redact)

\* As long as no run is killed, the four files tell one story between runs: the
\* manifest counts exactly the records and the rejected lines, the report names
\* its sources, and its redacted flag is up exactly when every record was
\* written by a redacting run.
FilesAgree ==
    crashes = 0 /\ pc = "idle" =>
        /\ manifest.counts["written"] = Len(records)
        /\ Rejected(manifest.counts) = errors
        /\ report = manifest.sources
        /\ manifest.sources = {} <=> file = "absent"
        /\ manifest.redacted <=> \A i \in DOMAIN records : records[i].by.redact

\* Exit code 0 means no line of the source was rejected, 1 that some were, and
\* both that the source is in the manifest; 2 means no line was a new record.
\* Between runs that end so, none killed, the four files agree.
ExitHonest ==
    LET source == {Log[cmd.src][i] : i \in DOMAIN Log[cmd.src]}
    IN  /\ FilesAgree
        /\ exit = "ok" => \A l \in source : ~Fails(l)
        /\ exit = "partial" => \E l \in source : Fails(l)
        /\ exit \in {"ok", "partial"} => cmd.src \in manifest.sources
        /\ exit = "nothing" /\ ~cmd.dedupe => \A l \in source : l.kind = "blank" \/ Fails(l)

\* Killed or not, the manifest is a ledger: every change of it enters one new
\* source with all of its lines counted once (WindowLedger).
LedgerKept == L!Spec

(***************************************************************************)
(* What the documentation says and the code does not do; TLC finds each of *)
(* these violated.                                                         *)
(***************************************************************************)
Redacting(r) == r.by.redact

\* "[EMAIL_1] means the same person everywhere: tokens are stable across a
\* whole window" (README.md:116, redact.py:3-9): the same token in two redacted
\* records of the window stands for the same value.  Every run numbers from one.
TokenMeansOneValue ==
    \A i, j \in DOMAIN records :
        Redacting(records[i]) /\ Redacting(records[j]) =>
            \A x \in Replaced(records[i]), y \in Replaced(records[j]) :
                x[1] = y[1] => x[2] = y[2]

\* "already exists. Pass --append to add to it" (store.py:103-105): a window
\* that exists can be appended to.  Without a manifest, or with a torn line in
\* its records, it can neither be appended to nor started afresh.
ExistingCanBeAppendedTo ==
    pc = "idle" /\ WindowExists => manifest.sources # {} /\ file # "corrupt"
=============================================================================
