------------------------------ MODULE LiveLog ------------------------------
(***************************************************************************)
(* `loghog ingest` of a log that is still being written, by several        *)
(* processes at once (src/loghog/ingest/run.py, ingest/readers.py,         *)
(* window/store.py).  A run opens its source twice, once to hash it and    *)
(* once to read it, and takes no lock on the window: it looks at           *)
(* records.jsonl and manifest.json, works in memory, appends its records,  *)
(* and renames a manifest merged from the one it read over whatever is     *)
(* there by then, through a temporary file whose name all runs share.      *)
(*                                                                         *)
(* Every line of the log is a good row with an input of its own: what else *)
(* a line can be is the subject of Ingest.  The log is written half a line *)
(* at a time, so that a reader may find it between the two halves; since   *)
(* it only grows, its size stands for its bytes and for their hash.        *)
(***************************************************************************)
EXTENDS Integers, Sequences, FiniteSets

CONSTANTS
    Processes,  \* the processes that run the command
    MaxSize,    \* bound: the log's final size, in half lines
    MaxKills    \* bound: processes killed

ASSUME BoundsAssumption == MaxSize \in Nat /\ MaxKills \in Nat

Lines == 1 .. (MaxSize \div 2)

VARIABLES
    size,       \* the source file, in half lines
    records,    \* records.jsonl: how often the record of each line is in it
    file,       \* records.jsonl: whether it is there, and how it ends
    manifest,   \* manifest.json
    tmp,        \* manifest.json.tmp
    proc,       \* what each process holds in memory
    kills       \* processes killed

vars == <<size, records, file, manifest, tmp, proc, kills>>

\* entries: the hashes of its sources; written: counts.records_written.
Manifests == [ state : {"absent", "torn", "whole"},
               entries : SUBSET (0 .. MaxSize), written : Nat ]

Absent == [state |-> "absent", entries |-> {}, written |-> 0]

Torn == [state |-> "torn", entries |-> {}, written |-> 0]

Steps == {"idle", "hash", "manifest", "fingerprints", "read", "write", "rest", "open", "fill", "rename"}

Memory == [ at : Steps,
            hash : 0 .. MaxSize,              \* source_digest
            existing : Manifests,             \* Absent for None
            append : BOOLEAN,
            seen : SUBSET Lines,              \* the Deduper's set
            pos : 0 .. MaxSize,               \* how far the reader is
            batch : Seq(Lines),               \* the records not yet in the file
            new : 0 .. (MaxSize \div 2),      \* records_written of this run
            handle : {"none", "tmp", "manifest", "gone"} ]

Idle == [ at |-> "idle", hash |-> 0, existing |-> Absent, append |-> FALSE, seen |-> {},
          pos |-> 0, batch |-> <<>>, new |-> 0, handle |-> "none" ]

TypeOK ==
    /\ size \in 0 .. MaxSize
    /\ records \in [Lines -> Nat]
    /\ file \in {"absent", "whole", "unterminated", "corrupt"}
    /\ manifest \in Manifests /\ tmp \in Manifests
    /\ proc \in [Processes -> Memory]
    /\ kills \in 0 .. MaxKills

Init ==
    /\ size = 0 /\ records = [k \in Lines |-> 0] /\ file = "absent"
    /\ manifest = Absent /\ tmp = Absent
    /\ proc = [p \in Processes |-> Idle] /\ kills = 0

\* The service appends to its log.
Grow ==
    /\ size < MaxSize
    /\ size' = size + 1
    /\ UNCHANGED <<records, file, manifest, tmp, proc, kills>>

(***************************************************************************)
(* One run of the command, up to the end of its source.  A run that is     *)
(* refused or breaks has changed nothing and is idle again.                *)
(***************************************************************************)
At(p, step) == proc[p].at = step

WindowExists == file # "absent" \/ manifest.state # "absent"

\* check_writable: --append into a window that exists, or a fresh run into none.
Check(p) ==
    /\ At(p, "idle")
    /\ proc' = [proc EXCEPT ![p].at = "hash", ![p].append = WindowExists]
    /\ UNCHANGED <<size, records, file, manifest, tmp, kills>>

\* source_sha256.
Hash(p) ==
    /\ At(p, "hash")
    /\ proc' = [proc EXCEPT ![p].hash = size,
                            ![p].at = IF proc[p].append THEN "manifest" ELSE "read"]
    /\ UNCHANGED <<size, records, file, manifest, tmp, kills>>

\* Slip: the refusal goes by the path alone.
AlreadyIngestedPath(p) == manifest.entries # {}

AlreadyIngested(p) == proc[p].hash \in manifest.entries

\* read_manifest, and the look for this path at this hash.
ReadManifest(p) ==
    /\ At(p, "manifest")
    /\ proc' = [proc EXCEPT ![p] =
                    IF manifest.state # "whole" \/ AlreadyIngested(p) THEN Idle
                    ELSE [@ EXCEPT !.existing = manifest, !.at = "fingerprints"]]
    /\ UNCHANGED <<size, records, file, manifest, tmp, kills>>

\* existing_fingerprints, which a line that is not JSON stops.
ReadFingerprints(p) ==
    /\ At(p, "fingerprints")
    /\ proc' = [proc EXCEPT ![p] =
                    IF file \in {"unterminated", "corrupt"} THEN Idle
                    ELSE [@ EXCEPT !.seen = {k \in Lines : records[k] > 0}, !.at = "read"]]
    /\ UNCHANGED <<size, records, file, manifest, tmp, kills>>

\* The reader is at the start of a line that is all there.
WholeLine(p) == proc[p].pos % 2 = 0 /\ proc[p].pos + 2 <= size

ReadRow(p) ==
    /\ At(p, "read") /\ WholeLine(p)
    /\ LET k == proc[p].pos \div 2 + 1
           new == k \notin proc[p].seen
       IN  proc' = [proc EXCEPT ![p].pos = @ + 2,
                                ![p].seen = @ \cup {k},
                                ![p].batch = IF new THEN Append(@, k) ELSE @,
                                ![p].new = IF new THEN @ + 1 ELSE @]
    /\ UNCHANGED <<size, records, file, manifest, tmp, kills>>

\* Slip: the reader does not ask whether there is more.
ReadPieceBeyond(p) ==
    /\ At(p, "read") /\ ~WholeLine(p)
    /\ proc' = [proc EXCEPT ![p].pos = @ + 1]
    /\ UNCHANGED <<size, records, file, manifest, tmp, kills>>

\* Half a line at the end of the file is a line to the reader, and so is the
\* other half when it arrives before the reader has asked again: unparsed both.
ReadPiece(p) ==
    /\ At(p, "read") /\ ~WholeLine(p) /\ proc[p].pos < size
    /\ proc' = [proc EXCEPT ![p].pos = @ + 1]
    /\ UNCHANGED <<size, records, file, manifest, tmp, kills>>

\* The reader meets the end of the file.  With no record nothing is written;
\* else records.jsonl is opened for appending.
EndRead(p) ==
    /\ At(p, "read") /\ proc[p].pos = size
    /\ IF proc[p].batch = <<>>
       THEN /\ proc' = [proc EXCEPT ![p] = Idle]
            /\ UNCHANGED file
       ELSE /\ proc' = [proc EXCEPT ![p].at = "write"]
            /\ file' = IF file = "absent" THEN "whole" ELSE file
    /\ UNCHANGED <<size, records, manifest, tmp, kills>>

(***************************************************************************)
(* The writes.  A buffer that is full goes out wherever it ends, so the    *)
(* line of a record may reach the file in two writes, and the write of     *)
(* another process may fall between them.                                  *)
(***************************************************************************)
Written(p) == [proc EXCEPT ![p].at = "write", ![p].batch = Tail(@)]

WriteRecord(p) ==
    /\ At(p, "write") /\ proc[p].batch # <<>>
    /\ records' = [records EXCEPT ![Head(proc[p].batch)] = @ + 1]
    /\ file' = IF file = "unterminated" THEN "corrupt" ELSE file
    /\ proc' = Written(p)
    /\ UNCHANGED <<size, manifest, tmp, kills>>

WriteHalf(p) ==
    /\ At(p, "write") /\ proc[p].batch # <<>>
    /\ file' = IF file = "whole" THEN "unterminated" ELSE "corrupt"
    /\ proc' = [proc EXCEPT ![p].at = "rest"]
    /\ UNCHANGED <<size, records, manifest, tmp, kills>>

WriteRest(p) ==
    /\ At(p, "rest")
    /\ records' = [records EXCEPT ![Head(proc[p].batch)] = @ + 1]
    /\ file' = IF file = "unterminated" THEN "whole" ELSE "corrupt"
    /\ proc' = Written(p)
    /\ UNCHANGED <<size, manifest, tmp, kills>>

CloseRecords(p) ==
    /\ At(p, "write") /\ proc[p].batch = <<>>
    /\ proc' = [proc EXCEPT ![p].at = "open"]
    /\ UNCHANGED <<size, records, file, manifest, tmp, kills>>

\* Slip: records_written counts the rows that were dropped as duplicates too.
MergedRows(p) ==
    [ state |-> "whole",
      entries |-> proc[p].existing.entries \cup {proc[p].hash},
      written |-> proc[p].existing.written + Cardinality(proc[p].seen) ]

\* Manifest(...), or existing.merge(...).
Merged(p) ==
    [ state |-> "whole",
      entries |-> proc[p].existing.entries \cup {proc[p].hash},
      written |-> proc[p].existing.written + proc[p].new ]

\* Slip: the source is hashed when the manifest is written.
OpenTemporaryHashing(p) ==
    /\ At(p, "open")
    /\ tmp' = Torn
    /\ proc' = [proc EXCEPT ![p].at = "fill", ![p].handle = "tmp", ![p].hash = size]
    /\ UNCHANGED <<size, records, file, manifest, kills>>

\* write_manifest: write_text truncates the temporary file, then fills it.
OpenTemporary(p) ==
    /\ At(p, "open")
    /\ tmp' = Torn
    /\ proc' = [proc EXCEPT ![p].at = "fill", ![p].handle = "tmp"]
    /\ UNCHANGED <<size, records, file, manifest, kills>>

\* Two texts in one file are the second, or the second and the end of the first.
Filled(p, old) == IF old.state = "whole" THEN {Merged(p), Torn} ELSE {Merged(p)}

FillTemporary(p) ==
    /\ At(p, "fill")
    /\ tmp' \in IF proc[p].handle = "tmp" THEN Filled(p, tmp) ELSE {tmp}
    /\ manifest' \in IF proc[p].handle = "manifest" THEN Filled(p, manifest) ELSE {manifest}
    /\ proc' = [proc EXCEPT ![p].at = "rename"]
    /\ UNCHANGED <<size, records, file, kills>>

\* The name moves, and with it the file that other processes have open.
Moved(handle) ==
    CASE handle = "tmp" -> "manifest"
      [] handle = "manifest" -> "gone"
      [] OTHER -> handle

\* The rename; another process may have taken the temporary file away, and
\* then the run breaks.
RenameTemporary(p) ==
    /\ At(p, "rename")
    /\ IF tmp.state = "absent"
       THEN /\ proc' = [proc EXCEPT ![p] = Idle]
            /\ UNCHANGED <<manifest, tmp>>
       ELSE /\ manifest' = tmp
            /\ tmp' = Absent
            /\ proc' = [q \in Processes |->
                          IF q = p THEN Idle ELSE [proc[q] EXCEPT !.handle = Moved(@)]]
    /\ UNCHANGED <<size, records, file, kills>>

\* A process is killed: its memory is gone.
Kill(p) ==
    /\ ~At(p, "idle") /\ kills < MaxKills
    /\ proc' = [proc EXCEPT ![p] = Idle]
    /\ kills' = kills + 1
    /\ UNCHANGED <<size, records, file, manifest, tmp>>

Step(p) ==
    \/ Check(p) \/ Hash(p) \/ ReadManifest(p) \/ ReadFingerprints(p)
    \/ ReadRow(p) \/ ReadPiece(p) \/ EndRead(p)
    \/ WriteRecord(p) \/ WriteHalf(p) \/ WriteRest(p) \/ CloseRecords(p)
    \/ OpenTemporary(p) \/ FillTemporary(p) \/ RenameTemporary(p)

Next == Grow \/ \E p \in Processes : Step(p) \/ Kill(p)

Spec == Init /\ [][Next]_vars

\* A run that was started gets to the end of its straight line, and somebody
\* runs the command again and again.  Nothing makes the log grow.
FairSpec == Spec /\ \A p \in Processes : WF_vars(Step(p))

(***************************************************************************)
(* Properties.                                                             *)
(***************************************************************************)

\* An entry of the manifest is a promise that its file has been read: every
\* line that was whole when the file was hashed has its record in the window,
\* whatever was appended to the log between the hash and the read, whatever
\* other processes did to the window, and wherever one was killed.  It is what
\* makes it right to refuse a file "at this hash" (run.py:111-121).
EntryMeansRead ==
    \A h \in manifest.entries : \A k \in 1 .. (h \div 2) : records[k] > 0

Copies[k \in 0 .. (MaxSize \div 2)] == IF k = 0 THEN 0 ELSE Copies[k - 1] + records[k]

\* The manifest that survives a race may have lost the other run's counts; it
\* never claims more records than are in the file (store.py:100-135, 203-210).
CountsNeverAhead == manifest.written <= Copies[MaxSize \div 2]

\* A window no run can add to: its records do not parse, or it has records and
\* no manifest that reads.
Stuck ==
    \/ file \in {"unterminated", "corrupt"}
    \/ WindowExists /\ manifest.state # "whole"

\* Running the command again and again brings in every whole line of the log,
\* unless the window is left as no run can add to it: a line that was read as
\* two pieces, or missed by a run that was killed or that lost a race, is not
\* lost behind a hash that is taken to be known.
EveryLineComesIn ==
    <>[](Stuck \/ \A k \in 1 .. (size \div 2) : records[k] > 0)
=============================================================================
