# A TLA+ development of loghog

loghog turns a production log into golden test cases. Its commands form a
pipeline; each of them is a short batch process that reads the files earlier
commands left, writes its own, and ends with an exit code. There is no daemon,
no thread and no lock: everything that lives longer than a command lives in
files, and most of what is hard about the program is about those files: in which
order they are written, how old they are when they are read, what a kill or a
second process leaves of them, and whether the counts and flags in them still
tell the truth. The rest is in the reading layer: what one line of somebody
else's log may hold, and what becomes of it.

All paths below are under `src/src/loghog/`.

## 1. Inventory

| Component | State it keeps | Operations | What makes it correct |
|---|---|---|---|
| **ingest** (`ingest/run.py`) | in memory: line and row counters, the failures, the batch of records, one `Redactor`, one `Deduper` | refuse or start; read a line (blank, unparsed, invalid, row); end with nothing; four writes | each line counted in exactly one place; nothing written by a run that refuses; the exit code says what happened |
| **readers, mapping, coercion** (`ingest/readers.py`, `mapping.py`, `coerce.py`, `normalise.py`, `paths.py`, `extractors.py`, `sidecar.py`) | none | check a mapping; turn a line into a row, a row into a record or a typed failure | a record says what its row says; absent is absent however it is written; no line raises |
| **record** (`record.py`) | none | validate, twice; fingerprint | what is in a window has been validated as it stands there |
| **privacy** (`privacy/`) | per run: value -> token number, per class | `find_spans`, `redact`, `hard_pii_classes` | every value of the text replaced and nothing else; equal values equal tokens, different values different tokens, numbered as they are read |
| **window store** (`window/store.py`, `manifest.py`, `dedupe.py`) | `records.jsonl`, `errors.jsonl`, `manifest.json`, `ingest.md` | `check_writable`, `append_records` with its guard, `append_errors`, `write_manifest`, `merge`, `existing_fingerprints` | the manifest never ahead of the files; counts close; no source twice; a flag that only goes down |
| **artefact files** (`window/artifacts.py`) | `scores.jsonl`, `clusters.json`, `candidates.jsonl`, `labels.jsonl`, reports | `write_json` (renamed into place), `write_jsonl` and `write_text` (in place), readers that refuse a torn line | a reader never takes a torn file for a whole one |
| **score** (`score/`) | none beyond its files | window-level facts, thirteen signals, a sum | a signal the window silences is reported, exit 1 |
| **cluster** (`cluster/`) | a union-find forest | sketch, band, verify, merge, label | connected components of verified pairs; labels a function of partition and scores |
| **select** (`select/run.py`) | counters per cap, stratum and cluster; the shortlist | join three files, walk rows best first through four caps | no cap silent, none blamed wrongly, none exceeded |
| **label** (`label/`) | drafts in memory | one call per candidate, failures as rows, one write at the end | one call per row; the budget refuses; nothing lost but by a kill |
| **emit** (`emit/run.py`, `cases.py`, `review.py`) | none beyond its files | join labels and shortlist; write the dataset and the review | the two files tell one story; the dataset loads |
| **promote** (`emit/promote.py`) | the goldens file | verify, append, rename into place | ids unique for ever, no placeholder, only growth |
| **health** (`health/`), **drift** (`drift/`) | reports | statistics over one or two windows | numerators and denominators from one population |
| **configuration, CLI, errors** (`config*.py`, `cli*.py`, `errors.py`) | none | validate; map an error to one line and an exit code | stateless |
| **golden-case loader** (`regression_detect`, external) | none | `load_goldens` | refuses an empty dataset and an id twice |

Components call each other only through files, with two exceptions: `ingest`
drives the redactor, the deduper and the store in one process, and `promote`
calls the external loader before and after it appends.

**The hard behaviours.** Crashes: a process may be killed between or inside
writes, and only some writes are atomic. Retries: the operator types the
command again. Interleaving: the program documents one operator, and nothing
stops two; the log itself may grow while it is read. Staleness: `select`,
`emit`, `health` and `drift` join files written at different times. Ordering:
four caps on a sorted list, union-find over sorted pairs with path compression
between unions, replacements in a text that changes length. Limits: quotas,
caps and budgets at and beyond their value, numbers no integer holds. Partial
failure: a line, a record, a call that fails in the middle of many.
`PROJECT.json` lists each hazard at its line.

## 2. Modules

| Module | What it is |
|---|---|
| `WindowLedger` | abstract specification: a manifest is a ledger of sources, each entered once with all its lines counted |
| `Ingest` | ingest, privacy numbering, store, manifest, dedupe: any number of runs into one window, killed anywhere |
| `LiveLog` | several ingests at once into one window, from a log that is still being written |
| `Coerce` | the values a log holds, paths into them, extractors, coercions |
| `Redaction` | candidates, overlaps and the Redactor |
| `Rows` | one ingest line by line: mapping, sidecar, row, record, redaction |
| `Select` | one `select` over any scores, clusters, goldens and settings |
| `Cluster` | one `cluster`, from shingle sets to labelled partition |
| `NearDuplicates` | abstract specification: a partition that joins blocks along chosen similar pairs |
| `Goldens` | `label`, `emit`, `promote` over files that `select` replaces between them, killed anywhere |
| `Shingles` | the similarity model: Jaccard over shingle sets, exact fractions |
| `Signals` | `score` as functions: what a window says of its records, which signals each fires |
| `Pipeline` | ingest, score, cluster, select, health and drift as whole commands over the files of several windows |
| `MCIngest`, `MCLiveLog`, `MCRows`, `MCSelect`, `MCCluster`, `MCGoldens`, `MCPipeline` | the values of the constants for TLC |
| `IngestProofs`, `LiveLogProofs`, `RowsProofs`, `SelectProofs`, `ClusterProofs`, `GoldensProofs`, `PipelineProofs` | theorems about those modules, and their proofs |
| `Induction` | induction over finite sets and numbers, in a form the provers can use |

### Ingest

The window is `records`, `file`, `errors`, `manifest`, `report`; the process is
`pc`, `cmd`, `line`, `tokens`, `seen`, `batch`, `counts`, `failures`,
`written`. `StartRun`, `RefuseRun` and `BreakRun` are the part of `ingest`
before the loop (a refusal is `LoghogError`, exit 3; a broken run is the
`JSONDecodeError` `existing_fingerprints` lets through). `ReadBlank`,
`ReadUnparsed`, `ReadInvalid`, `ReadRow`, `ReadFatal` are one turn of the loop
each. `EndWithNothing`, `RefuseWrite`, `OpenRecords`, `WriteRecord`,
`CloseRecords`, `AppendErrors`, `WriteManifest`, `WriteReport` are what follows
it, in the order of the code, one write per step; `Crash` may end the process
at any `pc`. `file` says whether `records.jsonl` is whole, ends without a
newline (the next append then joins two lines), or holds a line that is not
JSON. The manifest is renamed into place and is never torn.

A line is a kind, a topic (its input up to the normalisation deduplication
applies), the personal values of its input and its other texts, and whether
redaction leaves something the write guard recognises. `fits` stands for every
refusal that depends on neither the window nor the redaction switches (mapping,
format, sidecar, missing file). History: `from`, `by` and `run` of a record and
`before` are only read by properties.

### LiveLog

`Ingest` follows one process through its lines; `LiveLog` gives up what a line
can be (each is a good row of its own) for several processes and a log that
grows. The log is counted in half lines, so that a reader can find half a line
at its end; since it only grows, its size stands for its content and so for its
SHA-256. A process goes from `Check` (`check_writable`) over `Hash`,
`ReadManifest`, `ReadFingerprints` to one `ReadRow` or `ReadPiece` per line and
`EndRead`, and then writes: `WriteRecord`, or `WriteHalf` and `WriteRest` where
a full buffer goes out in the middle of a line, `CloseRecords`,
`OpenTemporary`, `FillTemporary`, `RenameTemporary`. `errors.jsonl` and
`ingest.md`, which nobody reads back, are left out, and so is the source's
`bytes`, which nothing uses.

The writes are those of the file system: appends are not lost but may fall
between the halves of another's line; opening the temporary manifest truncates
it under whoever is filling it; a rename moves the file together with the
handles other processes hold on it, so that a process may fill what has become
`manifest.json` (`Moved`), and its own rename then finds nothing and breaks the
run. Two texts written into one file are the second, or the second with the end
of the first behind it.

### Coerce, Redaction and Rows

`Rows` is one run without its files. `RefuseMapping`, `RefuseSidecar`, `Start`
and `RefuseHeader` are what `ingest` does before the first line; `PassLine` is
a line that is blank or no row; `BuildRow`, `FailRow` and `StopAtRow` are
`_record_for` up to the record, `RedactRow` is `_redacted` with the second
validation. An exception that is a `RecordError` is the failure of its line,
another `LoghogError` is a refusal of the run (`"refused"`), anything else is a
traceback (`"raised"`). What the run does with the outcomes is `Ingest`.

A text is a sequence of words, white space among them. A JSON value carries its
type; `Json` is the set of those a log can hold, closed under what they contain,
and `SourcesAssumption` says what the JSON, CSV and TOML readers hand over. `Coerce` has one operator per function of `paths.py`, `extractors.py` and
`coerce.py`, returning `Good(v)` or `Bad(exception)`; what `int()`, `float()`
and the ISO reader make of a word is given by constants, and the spellings that
matter (whole, fractional, infinite, not a number, two signs, zoned, naive,
before year 1 in UTC) are among them. A record is a function whose domain is
the fields it carries, so absent and empty cannot be confused in the model.
`Redaction` takes as a constant the word sequences the patterns match, past
their checksums; matches that touch, overlap, contain each other, repeat, and
run into a token already placed are all among them.

The properties compare with a second reading of the line that follows no order
(`Origin`, `Offered`, `Meanings`: where a field's value comes from, and what it
can mean) and of the text (`Dominant`, `Retold`: the only set of disjoint
matches in which every match left out is beaten by one kept).

### Select

A row's score, signal names, cluster and membership in the goldens are inputs;
the walk is one action per cap (`DropHeld`, `DropClusterCap`, `DropQuota`,
`DropGlobalCap`) and `Take`, with the guards in the order of the code. The
properties do not mention the counters the loop tests: `Fits` says when a row
belongs in a shortlist by the rows ahead of it alone, and `Shortlist` is the
only set of rows that agrees with it.

### Cluster

A text is its set of shingles, a hash function a ranking of shingles, a band a
run of hash functions, so a bucket collision, a missed one and a spurious
candidate all happen. Jaccard similarities are fractions, compared exactly.
`Merge` is one `union`, with both `find`s and their path compression.

`NearDuplicates` is what the stage promises, without sketches, trees or orders:
of the pairs at the threshold some are chosen, two records with the same words
always; blocks are joined along chosen pairs; the partition is given out when
no chosen pair lies across two blocks. `Cluster` implements it with the groups
of its forest as blocks (`PartitionKept`): every step of the forest, path
compression included, is a join or a stutter.

### Goldens

The files of one window from shortlist to goldens, each absent, whole or torn.
`Select` here is the effect of a whole `select` (module `Select` is its
inside). `StartLabel`, `Draft`, `WriteLabels`; `StartEmit`, `WriteYaml`,
`WriteReview`; `Promote`, with every refusal in `Promotable`; `HandWrite` is
the operator doing what the refusal of a placeholder tells him to. A case is
its id, its record and who wrote it.

### Signals and Pipeline

`Pipeline` is where the components meet. A window is four files: `records`,
`manifest` (its dedupe flag and its sources), `scores`, `clusters`; a command
is one action, and `last` is how the latest ended, with the report of a `health`
or a `drift`. `ScoreChecks`, `ClusterChecks`, `SelectChecks`, `HealthChecks`
and `DriftChecks` are the checks of each command in the order of the code, and
`Verdict` the first that fails: a refusal that names the command to run
(`"score"`, `"cluster"`, `"ingest"`), one that names none, or the traceback of a
torn records file. The inside of a command is the subject of the other modules;
their results appear whole. `Partition` merges every pair at the threshold
(what banding loses of it is checked in `Cluster`), and `Select` is only its
joins (the walk is in module `Select`).

A kill appears as what it leaves: `Cuts` is the start of the file being
written, cut at a line boundary, or torn inside a line. All torn scores files
are one, since no reader gets past the torn line. `clusters.json` is renamed
into place and is never cut. `ingest` writes records before the manifest, so
`IngestKilled` adds records and leaves the manifest.

`Signals` computes what is computed from the window (the nearest-rank
thresholds, the disagreements between prompt versions, novelty, the format
check, and which of them the window silences) and takes as facts of a record what
depends on its text alone (the injection and refusal patterns, the word lists,
the share of non-ASCII characters). `Rank` is the
code's rank: the code rounds `percent / 100 * n` in floating point before it takes
the ceiling, and for some settings the product comes out too high and the rank one
with it. `RoundsUp` is the set of sizes at which it does for the configured
percentile; it is empty for the default 95 and for the 60 of the two runs, and
holds 25 and 50 for 56.

Bound of the model: `OneReport` lets a report (`select`, `health`, `drift`)
follow only a command that writes. A report changes none of the four files, so
one after another finds what it would have found alone.

## 3. Runs

| Run | Bounds | Shows |
|---|---|---|
| `ingest_window` | 5 sources of 2 to 4 lines, two of which end a run early, 3 values of 2 classes, 3 runs, 1 kill, redaction and deduplication on or off | counts close after every line; files never ahead or behind but by a kill; a refused run writes nothing; no duplicate through a kill and a retry; token numbering; exit codes; the ledger implemented |
| `livelog` | 2 processes, any number of runs each, a log of 2 lines written in halves, 1 kill | an entry in the manifest means its file was read; the manifest claims no record that is missing; every line comes in, or the window is stuck |
| `rows` | one or two lines; about 40 values in each column and pairs of them in two pairs of columns, 8 mappings that load and 12 that are refused; texts of up to 4 words over 7, 11 patterns of 5 classes | a record says what its row offers; absent is absent; every value replaced in place; tokens numbered as they are read |
| `select` | 4 records, 3 strata, every partition into clusters, 2 quotas, caps 1 and 2, and stale files | the greedy shortlist is the declarative one; blame; accounting |
| `cluster` | all windows of 4 texts over 3 shingles, 3 thresholds, 2 bands | the partition implemented, no invented link, twins together; the weakest link reported holds the cluster together |
| `goldens` | 3 records with 2 ids between them, 6 commands, 1 kill | uniqueness, no placeholder, growth, one call each, two files one story |
| `pipeline` | 2 windows, 4 records in 2 sources that disagree on deduplication and on JSON, 1 goldens file or none, 1 kill; any number of commands | no file ahead of its records; a drift report does not contradict itself, whatever the age of the files |
| `heal` | 1 window, 3 sources, 2 goldens files, 2 kills; any number of commands, fairness of advice | `select` never ranks files of different ages; outliers are the tail; a silenced signal is told; `health` does not contradict itself; the advice of the refusals, followed, ends them |

Why these bounds are enough to be interesting: three runs are the fewest in
which a killed run is retried and then appended to; a second and a third value
of one class are needed to confuse two numbers, another class to confuse two
counters; four rows are the fewest in which each of the four caps refuses one
after another row was taken in the same walk; four ids are the fewest with a
path of length two under a root that is merged again (and four records give the
pipeline a text without a word, a question two versions answer differently and a
failed call, with a chain of near-duplicates in `heal`, and in `pipeline` one
text that holds half of another beside one that shares no word with it); six commands are select,
label, emit, promote and two more that make any of the files stale; two
processes and two lines are the fewest with a run that is overtaken between its
hash and its read and another between its read and its rename; two lines of a
text are the fewest in which a value returns in a later record, and four words
the fewest with a chain of three overlapping matches beside a fourth. Every
mutant in `PROJECT.json`, a plausible slip at one place, is caught under the
same bounds. Deadlock is checked in every run but `rows`, whose runs end: there
the last line of the log is the last state.

Four more runs show a sentence of the repository violated by the code (`findings`
in `PROJECT.json`, with the quotation), over the inputs of the passing runs:

* `ingest_tokens`: `[EMAIL_1]` does *not* mean the same person in a window
  appended to, since each run numbers from one.
* `ingest_half`: after a kill the window "already exists. Pass --append", and
  `--append` refuses it.
* `rows_raise`: "a problem with an individual line is never a raise", but a
  latency of `1e999`, `Infinity` or `NaN`, a timestamp `"--5"` or one before
  year 1 in UTC raises an exception the loop does not catch; nothing is written.
* `select_blame`: rows the global cap drops do not fill their cluster, so a later
  row of that cluster is blamed on the cap too, though it would not have been taken
  under a wider one. `BlameIsFirst`, of the run `select`, says what does hold: the
  blame is on the first cap that the rows *taken* ahead of it fill.

Observed while modelling, without a run of their own. Where the documentation
says otherwise:

* an unredacted append killed between records and manifest leaves a window whose
  manifest calls it redacted (`ingest/run.py:218`, against `window/manifest.py:236`);
* `emit` writes one id twice when two records share a slug (`emit/cases.py:91`),
  a dataset the loader refuses, though the repository's `README.md:318-319` says
  that it loads; and it exits 0 while a candidate of a newer shortlist, or of
  a `label` killed in its write, is neither a case nor a failure
  (`emit/run.py:77`, against `:12-15`);
* after a new `score` the record that survives a cluster need not be the
  representative `clusters.json` names (`select/run.py:14-15`);
* two identical windows report a cluster as new when its text has no word, since
  the similarity of two empty sets is 0 (`drift/run.py:268`, against
  `stages/09_drift/CONTEXT.md:67`): such a text is near nothing, itself included;
* a window whose `score` was killed before its first line is taken by `drift` for
  a scored one in which nothing fired (`drift/run.py:212`, against `:87`);
* with records appended after `cluster`, `health` may find nothing covered and
  yet not every case stale (`health/run.py:101`, against
  `stages/08_health/CONTEXT.md:51-53`); and its signal table counts firing
  records that are near a case themselves, not those of a covered cluster
  (`health/run.py:258`, against `:47-48`);
* with 56 per cent of 25 observations the rank is 15 where nearest rank is 14
  (`score/context.py:86`), so the record at the percentile is no outlier.

And besides:

* texts are cut to `max_text_chars` before they are redacted; a value the cut
  goes through is not recognised, and its first part stays (`ingest/normalise.py:94`);
* `--sidecar` given to a mapping that declares none is a traceback, not a
  refusal (`ingest/run.py:123`; modelled in `SidecarLine`);
* the cells of a CSV header are checked stripped and used unstripped
  (`ingest/readers.py:142-146`), and the `csv` module's own errors are not caught;
* a text of the log that already reads `[EMAIL_1]` is protected as a token and
  cannot be told from one (`privacy/detect.py:178`).

What the `livelog` run shows, and what it does not. A window two processes wrote
at once can be left as no run can add to it (`Stuck`: a line of one inside a line
of the other, or records without a manifest that reads), and the manifest that
survives may have lost the counts and the source of the other run. What remains
true is that the manifest is never ahead: a source it names at a hash has been
read whole, so the refusal "already ingested" never hides a line, and a line that
was missed comes in with a later run.

What the two pipeline runs show, and what they do not. `select` makes two checks
(every score is of a record here, every record has a score) and a third for
clusters; `SelectOverOneWindow` says that they are enough, kills and appends in
between included, as long as no record id is held twice. That escapes: an
append without deduplication, killed and typed again, stores records twice, and
only `cluster` refuses them. `health` and `drift` make no such check. They accept a
scores file older than the window, one cut at a line boundary, and clusters of an
older window. The passing properties say what is left. Of files of any age: no
file is ahead of the records (`NothingAheadOfRecords`); the errors drift counts
from the scores never pass those it counts from the records and are the same
once all is scored; windows of the same records, both scored, differ in no
signal that reads one record alone; and a cluster that shares no word with the
earlier window is new (`DriftTellsOneStory`). Of current files: coverage and
staleness are one relation, and the two halves of the comparison come from one
population (`HealthTellsOneStory`). `ScoreExitHonest` speaks of the records the
window holds: what a deduplicating append dropped can no longer disagree, and a
`length_outlier` over too few answers is silenced without an entry in
`not_evaluated` (score/context.py:129-134).

**Fairness.** Two runs have a liveness property.

* `livelog`: weak fairness of each process's steps, `WF_vars(Step(p))`. A run is
  one straight line of code that waits for nobody, so it goes on unless it is
  killed (`Kill` is not fair); that a process starts again when it is idle says
  that somebody runs the command again, which is what a log that grows needs.
  `Grow` is not fair: nothing makes the service write. `EveryLineComesIn` excepts
  a stuck window, which the code cannot leave.
* `heal`: advice that stands is taken some day, `FairSpec` in `Pipeline`: weak
  fairness of `score` and of `cluster` while a refusal names them and they can
  run. Nothing in the code makes an operator follow advice; the property is about
  an operator who does, and says that following it is enough. The formula is the
  weak fairness condition with its ENABLED written out as `Advised`.

Every other property is a safety or an action property of a specification
without fairness.

## 4. What is proved

For every value of the constants (any logs, windows, records, shingles, hash
functions, quotas, caps, case ids, number of values, classes, runs, processes
and kills), by TLAPS:

| Module | Of | Proved |
|---|---|---|
| `IngestProofs` | `Ingest` | `TypeOK`, `CountsClose`, `ManifestNeverAhead`, `NoDuplicateInputs`, `OneRunOneNumbering`, `GuardHolds`, `NothingWritten`, `ExitHonest`; `Ingest` implements `WindowLedger` |
| `LiveLogProofs` | `LiveLog` | `TypeOK`, `EntryMeansRead`, `CountsNeverAhead` |
| `RowsProofs` | `Rows`, `Redaction`, `Coerce` | `TypeOK`, `ReadsAsMapped`, `AbsentIsAbsent`, `TextsInReadingOrder`, `TokensTellValues` |
| `SelectProofs` | `Select` | `TypeOK`, `EveryRowOneHome`, `GreedyShortlist`, `BlameIsFirst`, `ExitHonest` |
| `ClusterProofs` | `Cluster` | `TypeOK`, `WeakestBuiltIt`; `Cluster` implements `NearDuplicates` |
| `GoldensProofs` | `Goldens` | `TypeOK`, `GoldenIdsUnique`, `NoPlaceholderAdopted`, `OneCallEach`, `EmitTellsOneStory`; `GoldensOnlyGrow` |
| `PipelineProofs` | `Pipeline`, `Signals` | `TypeOK`, `NothingAheadOfRecords`, `SelectOverOneWindow`, `DriftTellsOneStory`, `ScoreExitHonest`, `HealthTellsOneStory`, `OutliersAreTheTail` |
| `Induction` | sets and numbers | induction over finite sets and over the numbers, a first element under any order, the numbering of a finite total order, recursive functions |

That is every safety property and every action property the passing runs check.

**Assumptions** are those in the modules: the constants have their types, values
and the words of a text are finitely many, no pattern matches the empty text or
repeats a word (so that, as with `re.finditer`, two matches of one pattern never
overlap), JSON contains JSON, its objects are finite and each value has the type
it says, what `int()`, `float()` and the ISO reader return is a number or a named
special (`ReadersAssumption`), a hash is not blank and every text of a sidecar has
one (`HashesAssumption`), a mapping names each target once (its fields are the
keys of a TOML table), the similarity thresholds are
fractions above 0 and below 1, a rank can only be rounded up where `Percent` of the
sample is a whole number (`RoundsUpAssumption`), and a goldens file to start from
holds no id twice. TLC evaluates each of them in a run. Two theorems have a
hypothesis of their own. `RowsReadsAsMapped` assumes `TokensPrint`, that
`[CLASS_n]` is not a space for any class and number, because the prover knows
nothing of how two strings are joined. `OutliersAreTail` assumes `RoundsUp = {}`,
that the product for the configured percentile is exact, as it is for the default;
`OutliersFollowRank` makes no such assumption and says what an outlier is for
every percentile, the ones whose product comes out too high included.

**Induction over data.** The library states induction for an operator, which no
prover here can instantiate. `Induction` states it for *sets*: a family of
finite sets that holds the empty set and is closed under one element more holds
every finite set (`SetInduction`), because a finite set of counterexamples would
have a least member (`MinimalSet`, from the well-foundedness of the finite
subsets). From it follow a first element of any ordered finite set
(`FirstElement`), the numbering 1 .. n of its elements (`Numbering`), and that a
recursive definition over `0 .. n` has its solution (`Recursion`), after which a
statement about a recursive function is proved along the numbers. A sum over the
records of a log, the place of a value in a sorted list, the labels picked from
a file and the greedy walk over a sorted shortlist are all reached this way.

**The arguments.** Each inductive invariant is a conjunction of named parts,
checked with TLC before it was proved.

*Ingest.* `CountsClose` alone is not inductive: it needs that a committed
manifest closes and that `line`, `written` and `failures` count the same loop.
`ManifestNeverAhead` needs, at each `pc`, how far the files are ahead: at
`errors` the records hold the manifest's count plus `Len(batch)`, at `manifest`
the errors hold theirs too; a kill at any of them leaves the inequality.
`NoDuplicateInputs` needs that `seen` holds the fingerprints of the file and of
the batch, that the batch has no duplicate of its own or of the file, and that
what is in the file is the old file followed by the first `written` of the
batch. `OneRunOneNumbering` needs that the numbers of one class are exactly
1 .. k for k known values, hence injective, that a number once given is kept,
and that the records of the current run agree with the current map.
`ExitHonest` rests on three: the counters are those of the lines read, one by one
(`ReadingInv`); the files differ from what the manifest says by exactly what the
current run has written (`AgreeInv`); an exit code is given with every line of
the source read (`EndInv`). The refinement maps the manifest to the ledger; the
step that matters is `WriteManifest`, which needs that a run past its start has
a source that is not in the manifest and that its counters are those of the
whole source. `GuardHolds` (`GuardAlwaysHolds`) is proved and no longer run: the
guard raises on exactly what it forbids, and `OneRunOneNumbering` and
`TextsInReadingOrder` say what it is there for.

*LiveLog.* `EntryMeansRead` speaks of the manifest and the records only, and no
step of one process could be shown to keep it without knowing what that process
remembers. `Sound` says it, per process: each entry of the manifest it read is
kept; each line it has seen has its record in the window or in its own batch;
while it reads, it has seen every whole line up to the smaller of its position
and the size it hashed, and a reader that stands inside a line is already past
that size (a line read as two pieces was not whole when the log was hashed);
from there to the end of the writes, every line up to that size is in the window
or the batch; after them, in the window. All of it is monotone in the records
(`SoundGrows`), so no step of another process can break it; that is why the
races on the manifest may lose an entry and never make a false one. The
temporary file is part of the invariant because a process may fill it, or the
manifest, through a handle that another one's rename has moved.
`CountsNeverAhead` needs the same of the counts (`CountInv`): what a process
will claim, the count it read and the records it has new, is at most what the
file holds and its own batch still adds. The sum over the file is a recursive
function, and `TotalCounts` proves that one record more is one more.

*Rows.* Three layers. *A text:* `Ranked` numbers the matches by `Outranks`, a
total order on them (`RankedIs`), and the greedy pass keeps the set that
`Dominates`: disjoint, and nothing left out but for a better match kept
(`FindSpansDominates`). Two such sets are the same (`DominantIsOne`), from the
first match on which they would differ, so `Dominant` of the property and
`FindSpans` of the code agree (`DominantIs`). Replacing right to left keeps, at
each place p, the text before p as it came, followed by the retold rest
(`RewrittenIs`); numbering left to right keeps `IndexTold`: the index of a value
is how many of its class were first met no later (`NumberedTold`). *A record and a
row:* `RedactedTold` carries both through the slots of a record, where a later
text only extends the numbering and so leaves what was told as it is
(`ToldStays`); `ExtractIs`, `CoercedIs`, `ValuesAre` and `BuildRecordIs` follow a
row through path, extractor, coercion and the mapping, and find texts where the
Redactor expects them, whatever the log holds. *The run:* `RowsInv` says that each
record's texts are told under the current index (`Told`) and that the Redactor has
numbered the values of the lines that came out and no others (`TokensGiven`), a
record that fails after its redaction included.

*Rows, what a line says.* `FromLines` ties what was made to the lines: the n-th
is what `BuildRecord` makes of the n-th line's row. `AbsentIsAbsent` then is about
one row and the same row without a column (`RowsAlike`): by `BuildAlike` no path,
extractor, default or join can tell the two apart, because a value that is absent
leads only to values that are absent. `ReadsAsMapped` compares the reading with a
second definition that has no order. Value by value: each coercion returns *the*
meaning of what it is given, and fails exactly when there is none (`IntTells`,
`InstantTells`, `BoolTells`, `ColumnTells`). Field by field: `Says` is kept by the
join, by each field of the mapping and by each default (`SaysJoined`,
`SaysMapped`, `SaysDefaulted`), in whatever order they are taken, and says that
the values so far are the results of their fields alone, or that the failure is
one field's or a required field's absence (`Blamed`); so `Values`, which is
written as two loops, is the function `Offered` describes (`ValuesSay`,
`FieldsMeant`). Record by record: a fault that `Record.__post_init__` finds in the
cut texts was one of the row, since a text that was cut ends in dots and is not
blank (`CutIsNoBlank`, `FaultLoses`, `BuiltMeant`). And after the Redactor: the
fields without a text keep their values (`RedactedKeeps`), a text that says
something still does (`RetoldSays`), so the second validation can fail for one
reason only, two criteria whose values have become the same tokens
(`FaultsOfRedacted`). `Failing` is the invariant that says which of these each
failed line is; two criteria that read as one when they were refused still do at
the end, since the numbering is only extended (`OneCriterionStays`).

*Select.* The property quantifies over the rows ahead of a row; the loop tests
counters. `SelectInv` joins them: each counter is the number of rows it counts
(`Homes`, `Counts`), the rows visited are closed upwards in the order (`Walked`),
and each verdict was right among the rows then taken (`Verdicts`). It stays
right because a row taken later is behind every row judged (`ShortlistGrows`).
That `Shortlist` names one set at all, two sets that agree with `Fits` being the
same and one always existing, is `ShortlistIsUnique`, from the first row on which
they would differ, and `ShortlistExists`, by induction on the rows. `ExitHonest`
compares with the list an unbounded cap would give, of a run that never was.

*Cluster.* A forest in which every parent is smaller or the node itself has paths
that end: `DescentInduction`, from the least counterexample. Then each element
has one root (`PathEndsInOneRoot`), compression moves none to another
(`CompressedKeepsRoots`), and a union makes of two blocks one (`UnionJoins`).
`ClusterInv` adds that each chosen pair is still to come or merged, and then in one
group (`MergeInv`), and that no group is larger than the merged pairs make it
(`GroupsAreLinked`); the first is what lets labelling map to `Close` of
`NearDuplicates`, the second what `WeakestBuiltIt` needs. The weakest of finitely many fractions exists by
`LeastValue`, transitivity of fractions being cross multiplication.

*Goldens.* `OneCallEach` needs that labels in memory followed by what is still to
do are the shortlist the run read. `EmitTellsOneStory` needs that between its two
writes the dataset is still the cases of the labels and these are of the
shortlist (`StoryInv`), and that each label is picked once, as drafted or as failed (`PickedCount`).

*Pipeline.* `PipelineInv` says what each file of a window may be, given the
records: a scores file names the records in their order, as far as it goes,
and each row what its record fires by itself; one that is whole and as long as they are is what scoring them with some goldens
gives; the clusters are disjoint, of records the window holds, and a text
without a word is alone. The lemmas on `Verdict` turn a list of checks into what holds when a command goes
on. Every property of a report is then proved of the command that makes the
report, from the invariant, and kept by the others. `OutliersAreTheTail` is
about sorting: `Position` numbers the places of a sample in the stable order of
their values (`Numbering`), so the value at the nearest rank is reached by
exactly `Rank` places, and a value is beyond it when more than `Percent` of the
sample is at or below it, or exactly that and the product is not rounded up (`RankIs`, `PercentileIsTheTail`).

**Only model-checked.** The liveness properties `EveryLineComesIn` and
`AdviceHeals`, which are outside what the proof system does. The findings are
counterexamples, which TLC finds and nobody needs to prove.

**What two properties except.** A mapping may read `judge_verdicts` from the whole
payload (path `.`): every column of the row is then a criterion (`RowIsVerdicts`).
A null column is a verdict that cannot be read there, and no column is none, so
`AbsentIsAbsent` is not true of such a mapping and does not claim it. In a CSV
file the same mapping sees the nulls of a short line, which no cell stands for,
so `ReadsAsMapped` leaves out that one combination; rows of JSON it covers. Both
kinds of mapping are among those of the run `rows`.

## 5. Not modelled, and why

* What a regular expression, the Luhn sum, the length checks, `int()`, `float()`
  and the JSON and CSV decoders accept: functions of characters, constants here.
* Configuration: stateless validation of one TOML file. The name and description
  of a mapping, unknown keys and the types of its flags are such validation too,
  and stand behind `MappingRefused` only as far as they concern fields.
* Reading and appending `errors.jsonl` by several processes: nothing reads it.
* In `health` and `drift`: redundant pairs, medians and length shift, the
  ranking of gaps, the provenance banners.
* Wording and layout of reports; prompt text, pacing and reply parsing;
  Wilson intervals, KS, Fisher: arithmetic on reals, and partly external.
* File modes; a full disk; `OSError` of any kind.

## 6. Plan

Done, in this order: `WindowLedger`, `Ingest` and its proofs; `Select`;
`Cluster`; `Goldens` and its proofs; `Shingles`, `Signals`, `Pipeline`;
`LiveLog`; `NearDuplicates`; `Coerce`, `Redaction`, `Rows`; `LiveLogProofs`;
`Induction`, `SelectProofs`, `ClusterProofs`, `PipelineProofs`, `RowsProofs`. To
come: the redundant pairs and length shift of `health` and `drift`, once there is
a way to state their medians that is not the code again.
