---------------------------- MODULE IngestProofs ----------------------------
(***************************************************************************)
(* What holds of `loghog ingest` for every log, every set of sources and   *)
(* values, and every number of runs and kills.                             *)
(***************************************************************************)
EXTENDS Ingest, FiniteSetTheorems, TLAPS

(***************************************************************************)
(* The redactor's map.                                                     *)
(***************************************************************************)

\* Learn numbers a value, keeps the numbers there are, and never uses 0.
LEMMA LearnType ==
    ASSUME NEW t \in [Values -> Nat], NEW v \in Values \cup {NoValue}
    PROVE  /\ Learn(t, v) \in [Values -> Nat]
           /\ v \in Values => Learn(t, v)[v] # 0
           /\ \A w \in Values : t[w] # 0 => Learn(t, v)[w] = t[w]
<1> DEFINE K == Known(t, ClassOf[v])
<1>1. Cardinality(K) \in Nat
  <2>1. K \subseteq Values
    BY DEF Known
  <2>2. IsFiniteSet(K)
    BY <2>1, ValuesAssumption, FS_Subset
  <2> QED BY <2>2, FS_CardinalityType
<1> HIDE DEF K
<1>2. Learn(t, v) = IF v \in Values /\ t[v] = 0
                    THEN [t EXCEPT ![v] = Cardinality(K) + 1] ELSE t
  BY DEF Learn, K
<1> QED BY <1>1, <1>2

\* The same for the two values of a line.
LEMMA RedactedType ==
    ASSUME NEW t \in [Values -> Nat], NEW l \in Line
    PROVE  /\ Redacted(t, l) \in [Values -> Nat]
           /\ l.ask \in Values => Redacted(t, l)[l.ask] # 0
           /\ l.reply \in Values => Redacted(t, l)[l.reply] # 0
           /\ \A w \in Values : t[w] # 0 => Redacted(t, l)[w] = t[w]
<1> DEFINE u == Learn(t, l.ask)
<1>1. l.ask \in Values \cup {NoValue} /\ l.reply \in Values \cup {NoValue}
  BY DEF Line
<1>2. /\ u \in [Values -> Nat]
      /\ l.ask \in Values => u[l.ask] # 0
      /\ \A w \in Values : t[w] # 0 => u[w] = t[w]
  BY <1>1, LearnType
<1> HIDE DEF u
<1>3. /\ Learn(u, l.reply) \in [Values -> Nat]
      /\ l.reply \in Values => Learn(u, l.reply)[l.reply] # 0
      /\ \A w \in Values : u[w] # 0 => Learn(u, l.reply)[w] = u[w]
  BY <1>1, <1>2, LearnType
<1>4. Redacted(t, l) = Learn(u, l.reply)
  BY DEF Redacted, u
<1> QED BY <1>1, <1>2, <1>3, <1>4

\* The record a row becomes is one, whatever the settings.
LEMMA RecordType ==
    ASSUME NEW t \in [Values -> Nat], NEW l \in Line,
           cmd \in Commands, runs \in 1 .. MaxRuns,
           cmd.redact => /\ l.ask \in Values => t[l.ask] # 0
                         /\ l.reply \in Values => t[l.reply] # 0
    PROVE  /\ Record(t, l) \in Records
           /\ Fingerprint(Record(t, l)) \in Topics \X Tags
<1>1. l.ask \in Values \cup {NoValue} /\ l.reply \in Values \cup {NoValue} /\ l.topic \in Topics
  BY DEF Line
<1>2. ASSUME NEW v \in Values \cup {NoValue}, cmd.redact => (v \in Values => t[v] # 0)
      PROVE  Tag(t, v) \in Tags
  <2>1. CASE v \in Values /\ cmd.redact
    <3>1. t[v] \in Nat \ {0} /\ ClassOf[v] \in Classes
      BY <1>2, <2>1, ValuesAssumption
    <3> QED BY <2>1, <3>1 DEF Tag, Tags
  <2>2. CASE ~(v \in Values /\ cmd.redact)
    BY <2>2 DEF Tag, Tags
  <2> QED BY <2>1, <2>2
<1>3. Tag(t, l.ask) \in Tags /\ Tag(t, l.reply) \in Tags
  BY <1>1, <1>2
<1>4. Record(t, l) \in Records
  BY <1>1, <1>3 DEF Record, Records
<1>5. Fingerprint(Record(t, l)) = <<l.topic, Tag(t, l.ask)>>
  BY DEF Fingerprint, Record
<1> QED BY <1>1, <1>3, <1>4, <1>5

(***************************************************************************)
(* Type correctness.                                                       *)
(***************************************************************************)
LEMMA NoCountsType == L!NoCounts \in L!Counts
BY DEF L!NoCounts, L!Counts

\* Adding to one counter keeps the counters numbers.
LEMMA PlusType ==
    ASSUME NEW c \in L!Counts, NEW d \in L!Counts
    PROVE  L!Plus(c, d) \in L!Counts
BY DEF L!Plus, L!Counts

\* So does counting a line.
LEMMA CountType ==
    ASSUME NEW names, counts \in L!Counts
    PROVE  Count(names) \in L!Counts
BY DEF Count, L!Counts

\* The line a run is at is a line.
LEMMA CurrentType ==
    ASSUME TypeOK, NEW kinds, Reading(kinds)
    PROVE  Current \in Line /\ line + 1 <= Len(Log[cmd.src])
<1>1. cmd.src \in Sources
  BY DEF TypeOK, Commands
<1>2. Log[cmd.src] \in Seq(Line)
  BY <1>1, LogAssumption
<1> QED BY <1>2 DEF TypeOK, Reading, Current

\* Fingerprints are topics.
LEMMA FingerprintsType ==
    ASSUME NEW rs \in Seq(Records)
    PROVE  Fingerprints(rs) \subseteq Topics \X Tags
<1>1. \A r \in Records : Fingerprint(r) \in Topics \X Tags
  BY DEF Fingerprint, Records
<1>2. \A i \in DOMAIN rs : rs[i] \in Records
  OBVIOUS
<1> QED BY <1>1, <1>2 DEF Fingerprints

\* The files a run finds first are typed.
LEMMA TypeInit == Init => TypeOK
<1> SUFFICES ASSUME Init PROVE TypeOK
  OBVIOUS
<1>1. cmd \in Commands
  BY CommandsAssumption DEF Init
<1>2. manifest \in Manifests
  BY NoCountsType DEF Init, NoManifest, Manifests
<1>3. tokens \in [Values -> Nat]
  BY DEF Init, NoTokens
<1> QED BY <1>1, <1>2, <1>3, NoCountsType, BoundsAssumption DEF Init, TypeOK

\* The start of a run is typed.
LEMMA TypeStart ==
    ASSUME TypeOK, NEW c \in Commands, RefuseRun(c) \/ BreakRun(c) \/ StartRun(c)
    PROVE  TypeOK'
<1>1. CASE RefuseRun(c)
  BY <1>1, BoundsAssumption DEF TypeOK, RefuseRun, End, disk
<1>2. CASE BreakRun(c)
  BY <1>2, BoundsAssumption DEF TypeOK, BreakRun, End, disk
<1>3. CASE StartRun(c)
  <2>1. seen' \subseteq Topics \X Tags
    BY <1>3, FingerprintsType DEF TypeOK, StartRun
  <2>2. tokens' \in [Values -> Nat] /\ counts' \in L!Counts
    BY <1>3, NoCountsType DEF StartRun, NoTokens
  <2>3. Len(Log[c.src]) \in Nat
    BY LogAssumption DEF Commands
  <2> QED BY <1>3, <2>1, <2>2, <2>3, BoundsAssumption DEF TypeOK, StartRun, disk
<1> QED BY <1>1, <1>2, <1>3

\* A line more, and the run is still typed.
LEMMA TypeRead ==
    ASSUME TypeOK, Read
    PROVE  TypeOK'
<1>1. CASE ReadBlank
  <2>1. Current \in Line /\ line + 1 <= Len(Log[cmd.src])
    BY <1>1, CurrentType DEF ReadBlank
  <2> QED BY <1>1, <2>1, CountType DEF TypeOK, ReadBlank, disk
<1>2. CASE ReadUnparsed
  <2>1. Current \in Line /\ line + 1 <= Len(Log[cmd.src])
    BY <1>2, CurrentType DEF ReadUnparsed
  <2> QED BY <1>2, <2>1, CountType DEF TypeOK, ReadUnparsed, disk
<1>3. CASE ReadInvalid
  <2>1. Current \in Line /\ line + 1 <= Len(Log[cmd.src])
    BY <1>3, CurrentType DEF ReadInvalid
  <2>2. tokens' \in [Values -> Nat]
    BY <1>3, <2>1, RedactedType DEF TypeOK, ReadInvalid
  <2> QED BY <1>3, <2>1, <2>2, CountType DEF TypeOK, ReadInvalid, disk
<1>4. CASE ReadRow
  <2>1. Current \in Line /\ line + 1 <= Len(Log[cmd.src])
    BY <1>4, CurrentType DEF ReadRow
  <2>2. /\ tokens' \in [Values -> Nat]
        /\ cmd.redact => /\ Current.ask \in Values => tokens'[Current.ask] # 0
                         /\ Current.reply \in Values => tokens'[Current.reply] # 0
    BY <1>4, <2>1, RedactedType DEF TypeOK, ReadRow
  <2>3. runs \in 1 .. MaxRuns /\ cmd \in Commands
    BY <1>4, BoundsAssumption DEF TypeOK, ReadRow, Reading
  <2> DEFINE r == Record(tokens', Current)
  <2>4. r \in Records /\ Fingerprint(r) \in Topics \X Tags
    BY <2>1, <2>2, <2>3, RecordType
  <2>5. /\ batch' \in {batch, Append(batch, r)}
        /\ seen' = seen \cup {Fingerprint(r)}
        /\ counts' \in {Count({"lines", "rows", "written"}), Count({"lines", "rows", "dropped"})}
    BY <1>4 DEF ReadRow
  <2> HIDE DEF r
  <2>6. batch' \in Seq(Records) /\ written \in 0 .. Len(batch')
    <3>1. batch \in Seq(Records) /\ written \in 0 .. Len(batch)
      BY DEF TypeOK
    <3>2. Append(batch, r) \in Seq(Records) /\ Len(Append(batch, r)) = Len(batch) + 1
      BY <2>4, <3>1
    <3> QED BY <2>5, <3>1, <3>2
  <2>7. seen' \subseteq Topics \X Tags /\ counts' \in L!Counts
    BY <2>4, <2>5, CountType DEF TypeOK
  <2> QED BY <1>4, <2>1, <2>2, <2>6, <2>7 DEF TypeOK, ReadRow, disk
<1>5. CASE ReadFatal
  <2>1. Current \in Line /\ line + 1 <= Len(Log[cmd.src])
    BY <1>5, CurrentType DEF ReadFatal
  <2> QED BY <1>5, <2>1, CountType DEF TypeOK, ReadFatal, End, disk
<1> QED BY <1>1, <1>2, <1>3, <1>4, <1>5 DEF Read

\* The writes keep the shape of the files.
LEMMA TypeWrite ==
    ASSUME TypeOK, Write
    PROVE  TypeOK'
<1>1. CASE OpenRecords
  BY <1>1 DEF TypeOK, OpenRecords, AtEnd, memory
<1>2. CASE WriteRecord
  <2>1. batch[written + 1] \in Records
    BY <1>2 DEF TypeOK, WriteRecord
  <2>2. records' \in Seq(Records)
    BY <1>2, <2>1 DEF TypeOK, WriteRecord
  <2> QED BY <1>2, <2>2 DEF TypeOK, WriteRecord
<1>3. CASE CloseRecords
  BY <1>3 DEF TypeOK, CloseRecords, disk, memory
<1>4. CASE AppendErrors
  BY <1>4 DEF TypeOK, AppendErrors, memory
<1>5. CASE WriteManifest
  <2>1. Merged \in Manifests
    <3>1. L!Plus(manifest.counts, counts) \in L!Counts
      BY PlusType DEF TypeOK, Manifests
    <3>2. cmd.src \in Sources /\ {cmd.redact, cmd.synthetic, cmd.dedupe} \subseteq BOOLEAN
      BY SettingsAssumption DEF TypeOK, Commands
    <3> QED BY <3>1, <3>2 DEF TypeOK, Manifests, Merged
  <2> QED BY <1>5, <2>1 DEF TypeOK, WriteManifest, memory
<1>6. CASE WriteReport
  BY <1>6 DEF TypeOK, WriteReport, End, Manifests, memory
<1> QED BY <1>1, <1>2, <1>3, <1>4, <1>5, <1>6 DEF Write

\* So do the ends of a run.
LEMMA TypeRest ==
    ASSUME TypeOK, Finish \/ Crash \/ Rest \/ UNCHANGED vars
    PROVE  TypeOK'
<1>1. CASE Finish
  BY <1>1 DEF TypeOK, Finish, EndWithNothing, RefuseWrite, End, disk, memory
<1>2. CASE Crash
  <2>1. file' \in {"absent", "whole", "unterminated", "corrupt"}
    BY <1>2 DEF TypeOK, Crash, Torn
  <2>2. errors' \in Nat /\ report' \subseteq Sources
    BY <1>2 DEF TypeOK, Crash
  <2> QED BY <1>2, <2>1, <2>2, BoundsAssumption DEF TypeOK, Crash, End, memory
<1>3. CASE Rest \/ UNCHANGED vars
  BY <1>3 DEF TypeOK, Rest, vars, disk, memory
<1> QED BY <1>1, <1>2, <1>3

\* Every step keeps the shape of the files and of the run.
LEMMA TypeStep ==
    ASSUME TypeOK, [Next]_vars
    PROVE  TypeOK'
BY TypeStart, TypeRead, TypeWrite, TypeRest DEF Next

\* The files and the run always have their shape, and no token is numbered 0:
\* redaction_token never raises (src/loghog/privacy/redact.py:41-42).
THEOREM TypeCorrect == Spec => []TypeOK
<1>1. Init => TypeOK
  BY TypeInit
<1>2. TypeOK /\ [Next]_vars => TypeOK'
  BY TypeStep
<1> QED BY <1>1, <1>2, PTL DEF Spec

(***************************************************************************)
(* The counters of the loop and of the manifest.                           *)
(***************************************************************************)
LEMMA ClosesPlus ==
    ASSUME NEW c \in L!Counts, NEW d \in L!Counts, L!Closes(c), L!Closes(d)
    PROVE  /\ L!Closes(L!Plus(c, d))
           /\ Rejected(L!Plus(c, d)) = Rejected(c) + Rejected(d)
           /\ L!Plus(c, d)["written"] = c["written"] + d["written"]
BY DEF L!Closes, L!Plus, L!Counts, L!CountNames, Rejected

\* Nothing counted closes.
LEMMA ClosesNoCounts == L!Closes(L!NoCounts) /\ Rejected(L!NoCounts) = 0
BY DEF L!Closes, L!NoCounts, L!CountNames, Rejected

\* A window without a manifest closes.
LEMMA CountsInit == Init => CountsClose
BY ClosesNoCounts DEF Init, CountsClose, NoManifest

\* A line counted as a blank, as unreadable, as invalid or as a record or
\* duplicate leaves the sums closed.
LEMMA CountCloses ==
    ASSUME counts \in L!Counts, L!Closes(counts),
           NEW names \in { {"lines", "blanks"}, {"lines", "unparsed"}, {"lines", "rows", "invalid"},
                           {"lines", "rows", "written"}, {"lines", "rows", "dropped"} }
    PROVE  /\ L!Closes(Count(names))
           /\ Count(names)["lines"] = counts["lines"] + 1
           /\ Count(names)["written"] = counts["written"] + (IF "written" \in names THEN 1 ELSE 0)
           /\ Rejected(Count(names)) =
                Rejected(counts) + (IF names \cap {"unparsed", "invalid"} = {} THEN 0 ELSE 1)
<1> DEFINE c == Count(names)
<1> DEFINE Good(d) ==
        /\ L!Closes(d)
        /\ d["lines"] = counts["lines"] + 1
        /\ d["written"] = counts["written"] + (IF "written" \in names THEN 1 ELSE 0)
        /\ Rejected(d) = Rejected(counts) + (IF names \cap {"unparsed", "invalid"} = {} THEN 0 ELSE 1)
<1>1. \A n \in L!CountNames : c[n] = IF n \in names THEN counts[n] + 1 ELSE counts[n]
  BY DEF Count
<1>2. \A n \in L!CountNames : counts[n] \in Nat
  BY DEF L!Counts
<1> HIDE DEF c
<1>3. ASSUME names = {"lines", "blanks"} PROVE Good(c)
  BY <1>1, <1>2, <1>3 DEF L!Closes, Rejected, L!CountNames
<1>4. ASSUME names = {"lines", "unparsed"} PROVE Good(c)
  BY <1>1, <1>2, <1>4 DEF L!Closes, Rejected, L!CountNames
<1>5. ASSUME names = {"lines", "rows", "invalid"} PROVE Good(c)
  BY <1>1, <1>2, <1>5 DEF L!Closes, Rejected, L!CountNames
<1>6. ASSUME names = {"lines", "rows", "written"} PROVE Good(c)
  BY <1>1, <1>2, <1>6 DEF L!Closes, Rejected, L!CountNames
<1>7. ASSUME names = {"lines", "rows", "dropped"} PROVE Good(c)
  BY <1>1, <1>2, <1>7 DEF L!Closes, Rejected, L!CountNames
<1>8. Good(c)
  BY <1>3, <1>4, <1>5, <1>6, <1>7
<1> QED BY <1>8 DEF c

\* A line read leaves the sums closed.
LEMMA CountsRead ==
    ASSUME TypeOK, CountsClose, Read
    PROVE  CountsClose'
<1>0. pc = "read" => /\ counts \in L!Counts /\ L!Closes(counts) /\ counts["lines"] = line
                     /\ counts["written"] = Len(batch) /\ Rejected(counts) = failures
  BY DEF CountsClose, TypeOK
<1>1. CASE ReadBlank
  <2>1. counts' = Count({"lines", "blanks"}) /\ pc = "read"
    BY <1>1 DEF ReadBlank, Reading
  <2> QED BY <1>0, <1>1, <2>1, CountCloses DEF CountsClose, TypeOK, ReadBlank, disk, Rejected
<1>2. CASE ReadUnparsed
  <2>1. counts' = Count({"lines", "unparsed"}) /\ pc = "read"
    BY <1>2 DEF ReadUnparsed, Reading
  <2> QED BY <1>0, <1>2, <2>1, CountCloses DEF CountsClose, TypeOK, ReadUnparsed, disk, Rejected
<1>3. CASE ReadInvalid
  <2>1. counts' = Count({"lines", "rows", "invalid"}) /\ pc = "read"
    BY <1>3 DEF ReadInvalid, Reading
  <2> QED BY <1>0, <1>3, <2>1, CountCloses DEF CountsClose, TypeOK, ReadInvalid, disk, Rejected
<1>4. CASE ReadRow
  <2>1. PICK r : \/ batch' = Append(batch, r) /\ counts' = Count({"lines", "rows", "written"})
                 \/ batch' = batch /\ counts' = Count({"lines", "rows", "dropped"})
    BY <1>4 DEF ReadRow
  <2>2. Len(Append(batch, r)) = Len(batch) + 1
    BY DEF TypeOK
  <2>3. pc = "read" /\ pc' = "read" /\ line' = line + 1 /\ UNCHANGED <<manifest, failures>>
    BY <1>4 DEF ReadRow, Reading, disk
  <2>4. Len(batch) \in Nat /\ line \in Nat /\ failures \in Nat /\ L!Closes(manifest.counts)
    BY DEF TypeOK, CountsClose
  <2>5. CASE batch' = Append(batch, r) /\ counts' = Count({"lines", "rows", "written"})
    <3>1. /\ L!Closes(counts') /\ counts'["lines"] = line'
          /\ counts'["written"] = Len(batch') /\ Rejected(counts') = failures'
      BY <1>0, <2>2, <2>3, <2>4, <2>5, CountCloses
    <3> QED BY <2>3, <2>4, <3>1 DEF CountsClose, Rejected
  <2>6. CASE batch' = batch /\ counts' = Count({"lines", "rows", "dropped"})
    <3>1. /\ L!Closes(counts') /\ counts'["lines"] = line'
          /\ counts'["written"] = Len(batch') /\ Rejected(counts') = failures'
      BY <1>0, <2>3, <2>4, <2>6, CountCloses
    <3> QED BY <2>3, <2>4, <3>1 DEF CountsClose, Rejected
  <2> QED BY <2>1, <2>5, <2>6
<1>5. CASE ReadFatal
  BY <1>5 DEF ReadFatal, CountsClose, End, disk
<1> QED BY <1>1, <1>2, <1>3, <1>4, <1>5 DEF Read

\* So does the merged manifest.
LEMMA CountsWrite ==
    ASSUME TypeOK, CountsClose, Write
    PROVE  CountsClose'
<1>1. CASE WriteManifest
  <2>1. L!Closes(Merged.counts)
    BY <1>1, ClosesPlus DEF CountsClose, Merged, WriteManifest, TypeOK, Manifests
  <2> QED BY <1>1, <2>1 DEF CountsClose, WriteManifest, memory
<1>2. CASE OpenRecords \/ CloseRecords \/ AppendErrors
  BY <1>2 DEF CountsClose, OpenRecords, CloseRecords, AppendErrors, AtEnd, memory, disk
<1>3. CASE WriteRecord \/ WriteReport
  BY <1>3 DEF CountsClose, WriteRecord, WriteReport, End, memory
<1> QED BY <1>1, <1>2, <1>3 DEF Write

\* Every step keeps the sums closed.
LEMMA CountsStep ==
    ASSUME TypeOK, CountsClose, [Next]_vars
    PROVE  CountsClose'
<1>1. CASE \E c \in Commands : RefuseRun(c) \/ BreakRun(c) \/ StartRun(c)
  <2>1. PICK c \in Commands : RefuseRun(c) \/ BreakRun(c) \/ StartRun(c)
    BY <1>1
  <2>2. CASE RefuseRun(c) \/ BreakRun(c)
    BY <2>2 DEF CountsClose, RefuseRun, BreakRun, End, disk
  <2>3. CASE StartRun(c)
    <3>1. L!NoCounts["lines"] = 0 /\ L!NoCounts["written"] = 0
      BY DEF L!NoCounts, L!CountNames
    <3> QED BY <2>3, <3>1, ClosesNoCounts DEF CountsClose, StartRun, disk
  <2> QED BY <2>1, <2>2, <2>3
<1>2. CASE Read
  BY <1>2, CountsRead
<1>3. CASE Write
  BY <1>3, CountsWrite
<1>4. CASE Finish \/ Crash
  BY <1>4 DEF CountsClose, Finish, EndWithNothing, RefuseWrite, Crash, End, disk
<1>5. CASE Rest \/ UNCHANGED vars
  BY <1>5 DEF CountsClose, Rest, vars, disk, memory
<1> QED BY <1>1, <1>2, <1>3, <1>4, <1>5 DEF Next

\* The two sums close after every line and in every manifest, so the check in
\* Manifest.__post_init__ never stops a run that has read its whole source.
THEOREM CountsAlwaysClose == Spec => []CountsClose
<1>1. Init => CountsClose
  BY CountsInit
<1>2. TypeOK /\ CountsClose /\ [Next]_vars => CountsClose'
  BY CountsStep
<1> QED BY <1>1, <1>2, TypeCorrect, PTL DEF Spec

(***************************************************************************)
(* Strengthenings of the safety properties: what a run in the middle of    *)
(* its work has to keep for the property to hold when it is done.          *)
(***************************************************************************)
Running == pc # "idle"

\* The write order: each file is ahead of what the manifest will say of it.
WritesInv ==
    /\ ManifestNeverAhead
    /\ pc \in {"errors", "manifest", "report"} => written = Len(batch)
    /\ pc \in {"records", "errors", "manifest"} =>
            manifest.counts["written"] + written <= Len(records)
    /\ pc = "manifest" => Rejected(manifest.counts) + failures <= errors
    /\ pc \in {"records", "errors", "manifest", "report"} => file # "absent"
    /\ pc = "read" => written = 0

\* What is still to be written is new to the file and to itself.
DedupeInv ==
    /\ NoDuplicateInputs
    /\ file = "absent" => records = <<>>
    /\ pc = "read" => written = 0 /\ Fingerprints(records) \subseteq seen
    /\ Running =>
        /\ Fingerprints(batch) \subseteq seen
        /\ \A j \in (written + 1) .. Len(batch) : batch[j].by.dedupe =>
            /\ \A i \in DOMAIN records : Fingerprint(records[i]) # Fingerprint(batch[j])
            /\ \A i \in 1 .. (j - 1) : Fingerprint(batch[i]) # Fingerprint(batch[j])

\* Two values of a class never have one number: the numbers of a class are at
\* most as many as its known values.
Distinct(t) ==
    /\ \A v \in Values : t[v] <= Cardinality(Known(t, ClassOf[v]))
    /\ \A v, w \in Values : ClassOf[v] = ClassOf[w] /\ t[v] = t[w] /\ t[v] # 0 => v = w

\* Each value in the record has given way to its token of map t.
Numbered(r, t) ==
    \A x \in Replaced(r) :
        x[2] \in Values /\ t[x[2]] # 0 /\ x[1] = <<ClassOf[x[2]], t[x[2]]>>

\* The records of the run under way, in memory and on disk, show its map.
NumberInv ==
    /\ OneRunOneNumbering
    /\ \A i \in DOMAIN records : records[i].run <= runs
    /\ Running =>
        /\ Distinct(tokens)
        /\ \A i \in DOMAIN batch :
            /\ batch[i].by = cmd /\ batch[i].run = runs
            /\ cmd.redact => Numbered(batch[i], tokens)
        /\ \A i \in DOMAIN records :
            records[i].run = runs =>
                records[i].by = cmd /\ (cmd.redact => Numbered(records[i], tokens))

GuardInv ==
    /\ GuardHolds
    /\ pc = "records" => ~Guarded

\* Until the first write the window is as the run found it.
UntouchedInv ==
    /\ NothingWritten
    /\ pc = "read" => disk = before
    /\ Running => exit = "none"

\* The run under way is not in the manifest yet, and has read its source.
LedgerInv ==
    /\ manifest.sources = {} => manifest = NoManifest
    /\ pc \in {"read", "records", "errors", "manifest"} => cmd.src \notin manifest.sources
    /\ pc \in {"records", "errors", "manifest", "report"} =>
            line = Len(Log[cmd.src]) /\ batch # <<>>

(***************************************************************************)
(* The manifest is never ahead of the files.                               *)
(***************************************************************************)
LEMMA WritesInit == Init => WritesInv
BY ClosesNoCounts DEF Init, WritesInv, ManifestNeverAhead, NoManifest, L!NoCounts, L!CountNames

\* Counters are numbers.
LEMMA CountsNat ==
    ASSUME NEW c \in L!Counts
    PROVE  c["written"] \in Nat /\ c["lines"] \in Nat /\ Rejected(c) \in Nat
<1>1. \A n \in L!CountNames : c[n] \in Nat
  BY DEF L!Counts
<1> QED BY <1>1 DEF L!CountNames, Rejected

\* A number is at most its sum with another.
LEMMA SumBound ==
    ASSUME NEW a \in Nat, NEW b \in Nat, NEW c \in Nat, NEW d \in Nat,
           a <= b + c, b + c <= d
    PROVE  a <= d
OBVIOUS

\* The merged counters are the sums.
LEMMA MergedCounts ==
    ASSUME TypeOK, CountsClose, Running
    PROVE  /\ Merged.counts["written"] <= manifest.counts["written"] + Len(batch)
           /\ Rejected(Merged.counts) <= Rejected(manifest.counts) + failures
<1>1. /\ manifest.counts \in L!Counts /\ counts \in L!Counts
      /\ L!Closes(manifest.counts) /\ L!Closes(counts)
      /\ counts["written"] = Len(batch) /\ Rejected(counts) = failures
  BY DEF TypeOK, CountsClose, Running, Manifests
<1>2. manifest.counts["written"] \in Nat /\ Rejected(manifest.counts) \in Nat /\ Len(batch) \in Nat
      /\ failures \in Nat
  BY <1>1, CountsNat DEF TypeOK
<1>3. Merged.counts = IF manifest.sources = {} THEN counts ELSE L!Plus(manifest.counts, counts)
  BY DEF Merged, TypeOK, Manifests
<1> QED BY <1>1, <1>2, <1>3, ClosesPlus

\* Every step keeps how far the files are ahead.
LEMMA WritesStep ==
    ASSUME TypeOK, CountsClose, WritesInv, [Next]_vars
    PROVE  WritesInv'
<1> USE DEF WritesInv, ManifestNeverAhead
<1>1. CASE \E c \in Commands : RefuseRun(c) \/ BreakRun(c) \/ StartRun(c)
  BY <1>1 DEF RefuseRun, BreakRun, StartRun, End, disk
<1>2. CASE Read
  BY <1>2 DEF Read, ReadBlank, ReadUnparsed, ReadInvalid, ReadRow, ReadFatal, Reading, End, disk
<1>3. CASE Finish \/ Rest \/ UNCHANGED vars
  BY <1>3 DEF Finish, EndWithNothing, RefuseWrite, Rest, End, vars, disk, memory
<1>4. CASE Write
  <2> USE DEF TypeOK
  <2>1. manifest.counts["written"] \in Nat /\ Rejected(manifest.counts) \in Nat
    BY CountsNat DEF Manifests
  <2>2. CASE OpenRecords
    BY <2>1, <2>2 DEF OpenRecords, AtEnd, memory
  <2>3. CASE WriteRecord
    <3>1. Len(records') = Len(records) + 1
      BY <2>3 DEF WriteRecord
    <3> QED BY <2>1, <2>3, <3>1 DEF WriteRecord
  <2>4. CASE CloseRecords
    BY <2>4 DEF CloseRecords, disk, memory
  <2>5. CASE AppendErrors
    BY <2>1, <2>5 DEF AppendErrors, memory
  <2>6. CASE WriteManifest
    <3>1. /\ Merged.counts["written"] <= manifest.counts["written"] + Len(batch)
          /\ Rejected(Merged.counts) <= Rejected(manifest.counts) + failures
      BY <2>6, MergedCounts DEF WriteManifest, Running
    <3>2. Merged \in Manifests
      BY <2>6, TypeStep DEF WriteManifest, Next, Write
    <3>3. Merged.counts["written"] \in Nat /\ Rejected(Merged.counts) \in Nat
      BY <3>2, CountsNat DEF Manifests
    <3>4. manifest' = Merged /\ pc = "manifest" /\ pc' = "report"
      BY <2>6 DEF WriteManifest
    <3>5. UNCHANGED <<records, file, errors, written, batch, failures>>
      BY <2>6 DEF WriteManifest, memory
    <3>6. /\ Rejected(manifest.counts) + failures <= errors
          /\ manifest.counts["written"] + Len(batch) <= Len(records)
      BY <3>4
    <3>7. errors \in Nat /\ failures \in Nat /\ Len(batch) \in Nat /\ Len(records) \in Nat
      OBVIOUS
    <3>8. Rejected(Merged.counts) <= errors /\ Merged.counts["written"] <= Len(records)
      BY <2>1, <3>1, <3>3, <3>6, <3>7, SumBound
    <3> QED BY <3>4, <3>5, <3>8 DEF Rejected
  <2>7. CASE WriteReport
    BY <2>7 DEF WriteReport, End, memory
  <2> QED BY <1>4, <2>2, <2>3, <2>4, <2>5, <2>6, <2>7 DEF Write
<1>5. CASE Crash
  <2>1. errors' \in Nat /\ errors' >= errors
    BY <1>5 DEF Crash, TypeOK
  <2>2. file' # "absent" \/ file = "absent"
    BY <1>5 DEF Crash, Torn
  <2>3. Rejected(manifest.counts) \in Nat
    BY CountsNat DEF TypeOK, Manifests
  <2> QED BY <1>5, <2>1, <2>2, <2>3 DEF Crash, End, memory, TypeOK
<1> QED BY <1>1, <1>2, <1>3, <1>4, <1>5 DEF Next

\* At no moment, killed or not, does the manifest count a record or a rejected
\* line that is not in its file: the order of ingest's four writes.
THEOREM ManifestNeverAheadHolds == Spec => []ManifestNeverAhead
<1>1. Init => WritesInv
  BY WritesInit
<1>2. TypeOK /\ CountsClose /\ WritesInv /\ [Next]_vars => WritesInv'
  BY WritesStep
<1>3. WritesInv => ManifestNeverAhead
  BY DEF WritesInv
<1> QED BY <1>1, <1>2, <1>3, TypeCorrect, CountsAlwaysClose, PTL DEF Spec

(***************************************************************************)
(* No record of a deduplicating run repeats an input of the window.        *)
(***************************************************************************)
LEMMA DedupeInit == Init => DedupeInv
BY DEF Init, DedupeInv, NoDuplicateInputs, Running

\* Fingerprints of a sequence one longer.
LEMMA FingerprintsAppend ==
    ASSUME NEW rs \in Seq(Records), NEW r \in Records
    PROVE  Fingerprints(Append(rs, r)) = Fingerprints(rs) \cup {Fingerprint(r)}
<1>1. /\ DOMAIN Append(rs, r) = DOMAIN rs \cup {Len(rs) + 1}
      /\ \A i \in DOMAIN rs : Append(rs, r)[i] = rs[i]
      /\ Append(rs, r)[Len(rs) + 1] = r
  OBVIOUS
<1> QED BY <1>1 DEF Fingerprints

\* A row is added only if its fingerprint is new.
LEMMA DedupeRow ==
    ASSUME TypeOK, TypeOK', DedupeInv, ReadRow
    PROVE  DedupeInv'
<1> DEFINE r == Record(tokens', Current)
<1>1. /\ pc = "read" /\ pc' = "read" /\ written = 0 /\ written' = 0
      /\ records' = records /\ file' = file
      /\ seen' = seen \cup {Fingerprint(r)}
      /\ \/ batch' = Append(batch, r) /\ (Fingerprint(r) \notin seen \/ ~cmd.dedupe)
         \/ batch' = batch
  BY DEF ReadRow, Reading, DedupeInv, disk
<1>2. r.by = cmd
  BY DEF Record
<1> HIDE DEF r
<1>3. batch \in Seq(Records) /\ batch' \in Seq(Records)
  BY DEF TypeOK
<1>4. CASE batch' = batch
  BY <1>1, <1>4 DEF DedupeInv, NoDuplicateInputs, Fingerprints, Fingerprint, Running
<1>5. CASE batch' = Append(batch, r) /\ (Fingerprint(r) \notin seen \/ ~cmd.dedupe)
  <2>1. /\ Len(batch') = Len(batch) + 1 /\ batch'[Len(batch) + 1] = r
        /\ \A i \in 1 .. Len(batch) : batch'[i] = batch[i]
        /\ r \in Records
    BY <1>3, <1>5
  <2>2. Fingerprints(batch') \subseteq seen'
    BY <1>1, <1>3, <1>5, <2>1, FingerprintsAppend DEF DedupeInv, Running
  <2>3. \A i \in 1 .. Len(batch) : Fingerprint(batch[i]) \in seen
    BY <1>1, <1>3 DEF DedupeInv, Running, Fingerprints
  <2>4. \A i \in DOMAIN records : Fingerprint(records[i]) \in seen
    BY <1>1 DEF DedupeInv, Fingerprints
  <2>5. ASSUME NEW j \in (written' + 1) .. Len(batch'), batch'[j].by.dedupe
        PROVE  /\ \A i \in DOMAIN records' : Fingerprint(records'[i]) # Fingerprint(batch'[j])
               /\ \A i \in 1 .. (j - 1) : Fingerprint(batch'[i]) # Fingerprint(batch'[j])
    <3>1. CASE j = Len(batch) + 1
      BY <1>1, <1>2, <1>3, <1>5, <2>1, <2>3, <2>4, <2>5, <3>1
    <3>2. CASE j \in 1 .. Len(batch)
      BY <1>1, <2>1, <2>5, <3>2 DEF DedupeInv, Running
    <3> QED BY <1>1, <1>3, <2>1, <3>1, <3>2
  <2>6. Fingerprints(records') \subseteq seen' /\ NoDuplicateInputs' /\ (file' = "absent" => records' = <<>>)
    BY <1>1 DEF DedupeInv, NoDuplicateInputs, Fingerprints
  <2> QED BY <1>1, <2>2, <2>5, <2>6 DEF DedupeInv
<1> QED BY <1>1, <1>4, <1>5

\* A record moves from the batch to the file.
LEMMA DedupeWrite ==
    ASSUME TypeOK, TypeOK', DedupeInv, WriteRecord, file # "absent"
    PROVE  DedupeInv'
<1> DEFINE r == batch[written + 1]
<1>1. /\ pc = "records" /\ pc' = "records" /\ written' = written + 1 /\ written < Len(batch)
      /\ UNCHANGED <<batch, seen>> /\ file' # "absent"
      /\ records' = Append(records, r)
  BY DEF WriteRecord
<1>2. batch \in Seq(Records) /\ written \in Nat /\ r \in Records /\ records \in Seq(Records)
  BY <1>1 DEF TypeOK
<1>3. /\ Len(records') = Len(records) + 1 /\ records'[Len(records) + 1] = r
      /\ \A i \in 1 .. Len(records) : records'[i] = records[i]
      /\ DOMAIN records = 1 .. Len(records) /\ DOMAIN records' = 1 .. Len(records')
  BY <1>1, <1>2
<1>4. r.by.dedupe => \A i \in DOMAIN records : Fingerprint(records[i]) # Fingerprint(r)
  BY <1>1, <1>2 DEF DedupeInv, Running
<1>5. \A j \in (written + 2) .. Len(batch) : batch[j].by.dedupe =>
            /\ \A i \in DOMAIN records : Fingerprint(records[i]) # Fingerprint(batch[j])
            /\ \A i \in 1 .. (j - 1) : Fingerprint(batch[i]) # Fingerprint(batch[j])
            /\ Fingerprint(r) # Fingerprint(batch[j])
  BY <1>1, <1>2 DEF DedupeInv, Running
<1> HIDE DEF r
<1>6. NoDuplicateInputs'
  <2> SUFFICES ASSUME NEW j \in DOMAIN records', records'[j].by.dedupe,
                      NEW i \in 1 .. (j - 1)
               PROVE  Fingerprint(records'[i]) # Fingerprint(records'[j])
    BY DEF NoDuplicateInputs, Fingerprint
  <2>1. CASE j = Len(records) + 1
    BY <1>2, <1>3, <1>4, <2>1
  <2>2. CASE j \in 1 .. Len(records)
    BY <1>2, <1>3, <2>2 DEF DedupeInv, NoDuplicateInputs
  <2> QED BY <1>2, <1>3, <2>1, <2>2
<1>7. \A j \in (written' + 1) .. Len(batch') : batch'[j].by.dedupe =>
            /\ \A i \in DOMAIN records' : Fingerprint(records'[i]) # Fingerprint(batch'[j])
            /\ \A i \in 1 .. (j - 1) : Fingerprint(batch'[i]) # Fingerprint(batch'[j])
  BY <1>1, <1>2, <1>3, <1>5
<1>8. Fingerprints(batch') \subseteq seen'
  BY <1>1 DEF DedupeInv, Running, Fingerprints
<1> QED BY <1>1, <1>6, <1>7, <1>8 DEF DedupeInv

\* Every step keeps the fingerprints apart.
LEMMA DedupeStep ==
    ASSUME TypeOK, TypeOK', WritesInv, DedupeInv, [Next]_vars
    PROVE  DedupeInv'
<1> USE DEF Running
<1>1. CASE \E c \in Commands : RefuseRun(c) \/ BreakRun(c)
  BY <1>1 DEF DedupeInv, NoDuplicateInputs, RefuseRun, BreakRun, End, disk
<1>2. CASE \E c \in Commands : StartRun(c)
  <2>1. PICK c \in Commands : StartRun(c)
    BY <1>2
  <2>2. /\ pc' = "read" /\ batch' = <<>> /\ written' = 0
        /\ UNCHANGED <<records, file>>
        /\ seen' = IF c.append THEN Fingerprints(records) ELSE {}
        /\ c.append <=> WindowExists
    BY <2>1 DEF StartRun, Refused, disk, Commands
  <2>3. ~c.append => Fingerprints(records) = {}
    BY <2>2 DEF WindowExists, DedupeInv, Fingerprints
  <2> QED BY <2>2, <2>3 DEF DedupeInv, NoDuplicateInputs, Fingerprints
<1>3. CASE ReadRow
  BY <1>3, DedupeRow
<1>4. CASE ReadBlank \/ ReadUnparsed \/ ReadInvalid \/ ReadFatal
  BY <1>4 DEF DedupeInv, NoDuplicateInputs, ReadBlank, ReadUnparsed, ReadInvalid, ReadFatal,
              Reading, End, disk
<1>5. CASE WriteRecord
  BY <1>5, DedupeWrite DEF WritesInv, WriteRecord
<1>6. CASE OpenRecords
  BY <1>6 DEF DedupeInv, NoDuplicateInputs, OpenRecords, AtEnd, memory
<1>7. CASE CloseRecords \/ AppendErrors \/ WriteManifest \/ WriteReport
  BY <1>7 DEF DedupeInv, NoDuplicateInputs, CloseRecords, AppendErrors, WriteManifest, WriteReport,
              End, disk, memory
<1>8. CASE Crash
  BY <1>8 DEF DedupeInv, NoDuplicateInputs, WritesInv, Crash, Torn, End, memory
<1>9. CASE Finish \/ Rest \/ UNCHANGED vars
  BY <1>9 DEF DedupeInv, NoDuplicateInputs, Finish, EndWithNothing, RefuseWrite, Rest, End, vars,
              disk, memory
<1> QED BY <1>1, <1>2, <1>3, <1>4, <1>5, <1>6, <1>7, <1>8, <1>9 DEF Next, Read, Write

\* A record written with dedupe on has an input no earlier record of the window
\* has, across runs, kills and retries (Deduper, existing_fingerprints).
THEOREM NoDuplicateInputsHolds == Spec => []NoDuplicateInputs
<1>1. Init => WritesInv /\ DedupeInv
  BY WritesInit, DedupeInit
<1>2. TypeOK /\ TypeOK' /\ CountsClose /\ WritesInv /\ DedupeInv /\ [Next]_vars
        => WritesInv' /\ DedupeInv'
  BY WritesStep, DedupeStep
<1>3. DedupeInv => NoDuplicateInputs
  BY DEF DedupeInv
<1> QED BY <1>1, <1>2, <1>3, TypeCorrect, CountsAlwaysClose, PTL DEF Spec

(***************************************************************************)
(* One run, one numbering.                                                 *)
(***************************************************************************)
LEMMA NoTokensDistinct == Distinct(NoTokens)
<1>1. \A v \in Values : NoTokens[v] = 0
  BY DEF NoTokens
<1>2. ASSUME NEW v \in Values PROVE Cardinality(Known(NoTokens, ClassOf[v])) = 0
  <2>1. Known(NoTokens, ClassOf[v]) = {}
    BY <1>1 DEF Known
  <2> QED BY <2>1, FS_EmptySet
<1> QED BY <1>1, <1>2 DEF Distinct

\* A new value gets a number above every number of its class.
LEMMA LearnDistinct ==
    ASSUME NEW t \in [Values -> Nat], NEW v \in Values \cup {NoValue}, Distinct(t)
    PROVE  Distinct(Learn(t, v))
<1>1. CASE ~(v \in Values /\ t[v] = 0)
  BY <1>1 DEF Learn
<1>2. CASE v \in Values /\ t[v] = 0
  <2> DEFINE c == ClassOf[v]
  <2> DEFINE n == Cardinality(Known(t, c))
  <2> DEFINE u == Learn(t, v)
  <2>1. \A d : IsFiniteSet(Known(t, d))
    <3>1. \A d : Known(t, d) \subseteq Values
      BY DEF Known
    <3> QED BY <3>1, ValuesAssumption, FS_Subset
  <2>2. \A d : Cardinality(Known(t, d)) \in Nat
    BY <2>1, FS_CardinalityType
  <2>3. u = [t EXCEPT ![v] = n + 1]
    BY <1>2 DEF Learn
  <2>4. n \in Nat
    BY <2>2
  <2> HIDE DEF n, u
  <2>5. u[v] = n + 1 /\ \A w \in Values : w # v => u[w] = t[w]
    BY <1>2, <2>3
  <2>6. Known(u, c) = Known(t, c) \cup {v} /\ v \notin Known(t, c)
    BY <1>2, <2>4, <2>5 DEF Known
  <2>7. Cardinality(Known(u, c)) = n + 1
    BY <2>1, <2>6, FS_AddElement DEF n
  <2>8. \A d : d # c => Known(u, d) = Known(t, d)
    BY <1>2, <2>5 DEF Known
  <2>9. \A w \in Values : ClassOf[w] = c => t[w] <= n
    BY DEF Distinct, n
  <2>10. \A w \in Values : u[w] <= Cardinality(Known(u, ClassOf[w]))
    <3> TAKE w \in Values
    <3>1. CASE ClassOf[w] = c
      BY <2>4, <2>5, <2>7, <2>9, <3>1
    <3>2. CASE ClassOf[w] # c
      BY <2>5, <2>8, <3>2 DEF Distinct
    <3> QED BY <3>1, <3>2
  <2>11. \A w, x \in Values : ClassOf[w] = ClassOf[x] /\ u[w] = u[x] /\ u[w] # 0 => w = x
    BY <2>4, <2>5, <2>9 DEF Distinct
  <2> QED BY <2>10, <2>11 DEF Distinct, u
<1> QED BY <1>1, <1>2

\* The same for the values of a whole line.
LEMMA RedactedDistinct ==
    ASSUME NEW t \in [Values -> Nat], NEW l \in Line, Distinct(t)
    PROVE  Distinct(Redacted(t, l))
<1>1. l.ask \in Values \cup {NoValue} /\ l.reply \in Values \cup {NoValue}
  BY DEF Line
<1>2. Learn(t, l.ask) \in [Values -> Nat] /\ Distinct(Learn(t, l.ask))
  BY <1>1, LearnType, LearnDistinct
<1> QED BY <1>1, <1>2, LearnDistinct DEF Redacted

\* A map that only grew still numbers the records it numbered.
LEMMA NumberedGrows ==
    ASSUME NEW t \in [Values -> Nat], NEW u, NEW r, Numbered(r, t),
           \A w \in Values : t[w] # 0 => u[w] = t[w]
    PROVE  Numbered(r, u)
BY DEF Numbered

\* Under a distinct map, numbered records show equal tokens for equal values only.
LEMMA NumberedAgree ==
    ASSUME NEW t \in [Values -> Nat], Distinct(t), NEW r, NEW q, Numbered(r, t), Numbered(q, t)
    PROVE  \A x \in Replaced(r), y \in Replaced(q) : x[1] = y[1] <=> x[2] = y[2]
<1> TAKE x \in Replaced(r), y \in Replaced(q)
<1>1. /\ x[2] \in Values /\ t[x[2]] # 0 /\ x[1] = <<ClassOf[x[2]], t[x[2]]>>
      /\ y[2] \in Values /\ t[y[2]] # 0 /\ y[1] = <<ClassOf[y[2]], t[y[2]]>>
  BY DEF Numbered
<1> QED BY <1>1 DEF Distinct

\* Nothing is numbered yet.
LEMMA NumberInit == Init => NumberInv
BY DEF Init, NumberInv, OneRunOneNumbering, Running

\* A row's record shows the numbers the run gave.
LEMMA RowNumbered ==
    ASSUME NEW t \in [Values -> Nat], NEW l \in Line, cmd.redact,
           l.ask \in Values => t[l.ask] # 0,
           l.reply \in Values => t[l.reply] # 0
    PROVE  Numbered(Record(t, l), t)
<1>1. l.ask \in Values \cup {NoValue} /\ l.reply \in Values \cup {NoValue}
  BY DEF Line
<1> SUFFICES ASSUME NEW x \in Replaced(Record(t, l))
             PROVE  x[2] \in Values /\ t[x[2]] # 0 /\ x[1] = <<ClassOf[x[2]], t[x[2]]>>
  BY DEF Numbered
<1>2. \/ x = <<Tag(t, l.ask), l.ask>>
      \/ x = <<Tag(t, l.reply), l.reply>>
  BY DEF Replaced, Record
<1>3. x[2] # NoValue
  BY DEF Replaced
<1> QED BY <1>1, <1>2, <1>3 DEF Tag

\* A line more keeps the numbering.
LEMMA NumberRead ==
    ASSUME TypeOK, TypeOK', NumberInv, Read
    PROVE  NumberInv'
<1>1. pc = "read" /\ Running /\ UNCHANGED <<records, runs, cmd>>
  BY DEF Read, ReadBlank, ReadUnparsed, ReadInvalid, ReadRow, ReadFatal, Reading, Running, disk
<1>2. OneRunOneNumbering' /\ \A i \in DOMAIN records' : records'[i].run <= runs'
  BY <1>1 DEF NumberInv, OneRunOneNumbering, Replaced
<1>3. /\ tokens \in [Values -> Nat] /\ tokens' \in [Values -> Nat]
      /\ Distinct(tokens') /\ \A w \in Values : tokens[w] # 0 => tokens'[w] = tokens[w]
  <2>1. CASE tokens' = tokens
    BY <1>1, <2>1 DEF NumberInv, TypeOK, Distinct, Known
  <2>2. CASE tokens' = Redacted(tokens, Current)
    <3>1. Current \in Line
      BY CurrentType DEF Read, ReadBlank, ReadUnparsed, ReadInvalid, ReadRow, ReadFatal
    <3> QED BY <1>1, <2>2, <3>1, RedactedType, RedactedDistinct DEF NumberInv, TypeOK
  <2> QED BY <2>1, <2>2 DEF Read, ReadBlank, ReadUnparsed, ReadInvalid, ReadRow, ReadFatal
<1>4. \A i \in DOMAIN records' :
        records'[i].run = runs' =>
            records'[i].by = cmd' /\ (cmd'.redact => Numbered(records'[i], tokens'))
  BY <1>1, <1>3, NumberedGrows DEF NumberInv
<1>5. \A i \in DOMAIN batch :
        /\ batch[i].by = cmd /\ batch[i].run = runs
        /\ cmd.redact => Numbered(batch[i], tokens')
  BY <1>1, <1>3, NumberedGrows DEF NumberInv
<1>6. \A i \in DOMAIN batch' :
        /\ batch'[i].by = cmd' /\ batch'[i].run = runs'
        /\ cmd'.redact => Numbered(batch'[i], tokens')
  <2>1. CASE batch' = batch
    BY <1>1, <1>5, <2>1
  <2>2. CASE ReadRow /\ batch' = Append(batch, Record(tokens', Current))
    <3> DEFINE r == Record(tokens', Current)
    <3>1. Current \in Line
      BY <2>2, CurrentType DEF ReadRow
    <3>2. r.by = cmd /\ r.run = runs
      BY DEF Record
    <3>3. cmd.redact => tokens' = Redacted(tokens, Current)
      BY <2>2 DEF ReadRow
    <3>4. cmd.redact => Numbered(r, tokens')
      BY <1>3, <3>1, <3>3, RedactedType, RowNumbered
    <3> HIDE DEF r
    <3>5. \A i \in DOMAIN batch' : batch'[i] = r \/ (i \in DOMAIN batch /\ batch'[i] = batch[i])
      BY <2>2 DEF TypeOK, r
    <3> QED BY <1>1, <1>5, <3>2, <3>4, <3>5
  <2> QED BY <2>1, <2>2 DEF Read, ReadBlank, ReadUnparsed, ReadInvalid, ReadRow, ReadFatal
<1> QED BY <1>2, <1>3, <1>4, <1>6 DEF NumberInv

\* Writing changes no number.
LEMMA NumberWrite ==
    ASSUME TypeOK, TypeOK', NumberInv, WriteRecord
    PROVE  NumberInv'
<1> DEFINE r == batch[written + 1]
<1>1. /\ Running /\ Running' /\ UNCHANGED <<runs, cmd, tokens, batch>>
      /\ records' = Append(records, r)
      /\ written + 1 \in DOMAIN batch
  BY DEF WriteRecord, Running, TypeOK
<1>2. /\ r.by = cmd /\ r.run = runs /\ r \in Records /\ tokens \in [Values -> Nat]
      /\ cmd.redact => Numbered(r, tokens)
      /\ Distinct(tokens)
  BY <1>1 DEF NumberInv, TypeOK
<1> HIDE DEF r
<1>3. \A i \in DOMAIN records' : records'[i] = r \/ (i \in DOMAIN records /\ records'[i] = records[i])
  BY <1>1 DEF TypeOK
<1>4. \A i \in DOMAIN records' :
        /\ records'[i].run <= runs
        /\ records'[i].run = runs =>
                records'[i].by = cmd /\ (cmd.redact => Numbered(records'[i], tokens))
  BY <1>1, <1>2, <1>3 DEF NumberInv, TypeOK
<1>5. OneRunOneNumbering'
  <2> SUFFICES ASSUME NEW i \in DOMAIN records', NEW j \in DOMAIN records',
                      records'[i].run = records'[j].run, records'[i].by.redact
               PROVE  \A x \in Replaced(records'[i]), y \in Replaced(records'[j]) :
                          x[1] = y[1] <=> x[2] = y[2]
    BY DEF OneRunOneNumbering, Replaced
  <2>1. CASE records'[i].run # runs
    <3>1. i \in DOMAIN records /\ j \in DOMAIN records /\ records'[i] = records[i] /\ records'[j] = records[j]
      BY <1>2, <1>3, <2>1
    <3> QED BY <3>1 DEF NumberInv, OneRunOneNumbering
  <2>2. CASE records'[i].run = runs
    <3>1. Numbered(records'[i], tokens) /\ Numbered(records'[j], tokens)
      BY <1>4, <2>2
    <3> QED BY <1>2, <3>1, NumberedAgree
  <2> QED BY <2>1, <2>2
<1> QED BY <1>1, <1>2, <1>4, <1>5 DEF NumberInv

\* The records of other runs are of earlier ones.
LEMMA RunsEarlier ==
    ASSUME TypeOK, NumberInv
    PROVE  runs \in Nat /\ \A i \in DOMAIN records : records[i].run \in Int /\ records[i].run <= runs
<1>1. \A i \in DOMAIN records : records[i] \in Records
  BY DEF TypeOK
<1>2. \A r \in Records : r.run \in Int
  BY BoundsAssumption DEF Records
<1> QED BY <1>1, <1>2 DEF NumberInv, TypeOK

\* Every step keeps the numbering.
LEMMA NumberStep ==
    ASSUME TypeOK, TypeOK', NumberInv, [Next]_vars
    PROVE  NumberInv'
<1>1. CASE \E c \in Commands : RefuseRun(c) \/ BreakRun(c)
  <2>1. ~Running' /\ UNCHANGED records /\ runs' = runs + 1
    BY <1>1 DEF RefuseRun, BreakRun, End, Running, disk
  <2>2. \A i \in DOMAIN records : records[i].run <= runs'
    BY <2>1, RunsEarlier
  <2> QED BY <2>1, <2>2 DEF NumberInv, OneRunOneNumbering, Replaced
<1>2. CASE \E c \in Commands : StartRun(c)
  <2>1. /\ UNCHANGED records /\ runs' = runs + 1 /\ batch' = <<>> /\ tokens' = NoTokens
    BY <1>2 DEF StartRun, disk
  <2>2. \A i \in DOMAIN records : records[i].run <= runs' /\ records[i].run # runs'
    BY <2>1, RunsEarlier
  <2>3. Distinct(tokens')
    BY <2>1, NoTokensDistinct
  <2>4. OneRunOneNumbering'
    BY <2>1 DEF NumberInv, OneRunOneNumbering, Replaced
  <2> QED BY <2>1, <2>2, <2>3, <2>4 DEF NumberInv
<1>3. CASE Read
  BY <1>3, NumberRead
<1>4. CASE WriteRecord
  BY <1>4, NumberWrite
<1>5. CASE OpenRecords \/ CloseRecords \/ AppendErrors \/ WriteManifest
  <2>1. Running /\ UNCHANGED <<records, runs, batch, cmd, tokens>>
    BY <1>5 DEF OpenRecords, CloseRecords, AppendErrors, WriteManifest, AtEnd, Running, disk, memory
  <2> QED BY <2>1 DEF NumberInv, OneRunOneNumbering, Replaced, Distinct, Known, Numbered
<1>6. CASE WriteReport \/ Finish \/ Crash
  <2>1. ~Running' /\ UNCHANGED <<records, runs>>
    BY <1>6 DEF WriteReport, Finish, EndWithNothing, RefuseWrite, Crash, End, Running, disk
  <2> QED BY <2>1 DEF NumberInv, OneRunOneNumbering, Replaced
<1>7. CASE Rest \/ UNCHANGED vars
  <2>1. UNCHANGED <<pc, records, runs, batch, cmd, tokens>>
    BY <1>7 DEF Rest, vars, disk, memory
  <2> QED BY <2>1 DEF NumberInv, OneRunOneNumbering, Replaced, Distinct, Known, Numbered, Running
<1> QED BY <1>1, <1>2, <1>3, <1>4, <1>5, <1>6, <1>7 DEF Next, Write

\* Among the records of one redacting run, however many kills and runs come
\* between, equal tokens stand for equal values and only for them: the Redactor's
\* promise (src/loghog/privacy/redact.py:3-9), kept within a run.
THEOREM OneRunOneNumberingHolds == Spec => []OneRunOneNumbering
<1>1. Init => NumberInv
  BY NumberInit
<1>2. TypeOK /\ TypeOK' /\ NumberInv /\ [Next]_vars => NumberInv'
  BY NumberStep
<1>3. NumberInv => OneRunOneNumbering
  BY DEF NumberInv
<1> QED BY <1>1, <1>2, <1>3, TypeCorrect, PTL DEF Spec

(***************************************************************************)
(* The write guard.                                                        *)
(***************************************************************************)
LEMMA GuardInit == Init => GuardInv
BY DEF Init, GuardInv, GuardHolds

\* Every step keeps what the guard asks.
LEMMA GuardStep ==
    ASSUME TypeOK, NumberInv, GuardInv, [Next]_vars
    PROVE  GuardInv'
<1>1. CASE \E c \in Commands : RefuseRun(c) \/ BreakRun(c) \/ StartRun(c)
  BY <1>1 DEF GuardInv, GuardHolds, Replaced, RefuseRun, BreakRun, StartRun, End, disk
<1>2. CASE Read
  BY <1>2 DEF GuardInv, GuardHolds, Replaced, Read, ReadBlank, ReadUnparsed, ReadInvalid, ReadRow,
              ReadFatal, Reading, End, disk
<1>3. CASE WriteRecord
  <2> DEFINE r == batch[written + 1]
  <2>1. /\ pc = "records" /\ Running /\ records' = Append(records, r) /\ written + 1 \in DOMAIN batch
        /\ UNCHANGED <<pc, cmd, batch>>
    BY <1>3 DEF WriteRecord, TypeOK, Running
  <2>2. r.by.redact => ~r.from.residue /\ Numbered(r, tokens)
    BY <2>1 DEF GuardInv, Guarded, NumberInv
  <2> HIDE DEF r
  <2>3. tokens \in [Values -> Nat]
    BY DEF TypeOK
  <2>4. r.by.redact => ~r.from.residue /\ \A x \in Replaced(r) : x[1][2] > 0
    BY <2>2, <2>3 DEF Numbered
  <2>5. \A i \in DOMAIN records' : records'[i] = r \/ (i \in DOMAIN records /\ records'[i] = records[i])
    BY <2>1 DEF TypeOK
  <2>6. GuardHolds'
    BY <2>4, <2>5 DEF GuardInv, GuardHolds, Replaced
  <2> QED BY <2>1, <2>6 DEF GuardInv, Guarded
<1>4. CASE OpenRecords
  BY <1>4 DEF GuardInv, GuardHolds, Replaced, OpenRecords, Guarded, memory
<1>5. CASE CloseRecords \/ AppendErrors \/ WriteManifest \/ WriteReport
  BY <1>5 DEF GuardInv, GuardHolds, Replaced, CloseRecords, AppendErrors, WriteManifest, WriteReport,
              End, disk
<1>6. CASE Finish \/ Crash
  BY <1>6 DEF GuardInv, GuardHolds, Replaced, Finish, EndWithNothing, RefuseWrite, Crash, End, disk
<1>7. CASE Rest \/ UNCHANGED vars
  BY <1>7 DEF GuardInv, GuardHolds, Replaced, Guarded, Rest, vars, disk, memory
<1> QED BY <1>1, <1>2, <1>3, <1>4, <1>5, <1>6, <1>7 DEF Next, Write

\* No record of a redacting run reaches the file with structural personal data
\* or with a value that is not a numbered token (WindowStore._guard).
THEOREM GuardAlwaysHolds == Spec => []GuardHolds
<1>1. Init => NumberInv /\ GuardInv
  BY NumberInit, GuardInit
<1>2. TypeOK /\ TypeOK' /\ NumberInv /\ GuardInv /\ [Next]_vars => NumberInv' /\ GuardInv'
  BY NumberStep, GuardStep
<1>3. GuardInv => GuardHolds
  BY DEF GuardInv
<1> QED BY <1>1, <1>2, <1>3, TypeCorrect, PTL DEF Spec

(***************************************************************************)
(* A run that writes nothing says so truthfully.                           *)
(***************************************************************************)
LEMMA UntouchedStep ==
    ASSUME UntouchedInv, [Next]_vars
    PROVE  UntouchedInv'
<1> USE DEF UntouchedInv, NothingWritten, Running
<1>1. CASE \E c \in Commands : RefuseRun(c) \/ BreakRun(c) \/ StartRun(c)
  BY <1>1 DEF RefuseRun, BreakRun, StartRun, End
<1>2. CASE Read
  BY <1>2 DEF Read, ReadBlank, ReadUnparsed, ReadInvalid, ReadRow, ReadFatal, Reading, End
<1>3. CASE Finish
  BY <1>3 DEF Finish, EndWithNothing, RefuseWrite, AtEnd, End
<1>4. CASE Write
  BY <1>4 DEF Write, OpenRecords, WriteRecord, CloseRecords, AppendErrors, WriteManifest, WriteReport,
              AtEnd, End
<1>5. CASE Crash
  BY <1>5 DEF Crash, End
<1>6. CASE Rest \/ UNCHANGED vars
  BY <1>6 DEF Rest, vars
<1> QED BY <1>1, <1>2, <1>3, <1>4, <1>5, <1>6 DEF Next

\* A run that ends with exit code 2 or 3, or in a traceback, leaves the window
\* exactly as it found it ("Nothing was written").
THEOREM NothingWrittenHolds == Spec => []NothingWritten
<1>1. Init => UntouchedInv
  BY DEF Init, UntouchedInv, NothingWritten, Running
<1>2. UntouchedInv /\ [Next]_vars => UntouchedInv'
  BY UntouchedStep
<1>3. UntouchedInv => NothingWritten
  BY DEF UntouchedInv
<1> QED BY <1>1, <1>2, <1>3, PTL DEF Spec

(***************************************************************************)
(* The manifest implements the ledger.                                     *)
(***************************************************************************)
LEMMA LedgerInit == Init => L!Init /\ LedgerInv
BY DEF Init, L!Init, LedgerInv, NoManifest

\* Every step keeps what the refinement rests on.
LEMMA LedgerInvStep ==
    ASSUME TypeOK, LedgerInv, [Next]_vars
    PROVE  LedgerInv'
<1> USE DEF LedgerInv
<1>1. CASE \E c \in Commands : RefuseRun(c) \/ BreakRun(c) \/ StartRun(c)
  BY <1>1 DEF RefuseRun, BreakRun, StartRun, Refused, End, disk
<1>2. CASE Read
  BY <1>2 DEF Read, ReadBlank, ReadUnparsed, ReadInvalid, ReadRow, ReadFatal, Reading, End, disk
<1>3. CASE Finish \/ Crash
  BY <1>3 DEF Finish, EndWithNothing, RefuseWrite, Crash, End, disk, memory
<1>4. CASE WriteManifest
  BY <1>4 DEF WriteManifest, Merged, memory, TypeOK, Manifests
<1>5. CASE OpenRecords \/ WriteRecord \/ CloseRecords \/ AppendErrors \/ WriteReport
  BY <1>5 DEF OpenRecords, WriteRecord, CloseRecords, AppendErrors, WriteReport, AtEnd, End, disk,
              memory
<1>6. CASE Rest \/ UNCHANGED vars
  BY <1>6 DEF Rest, vars, disk, memory
<1> QED BY <1>1, <1>2, <1>3, <1>4, <1>5, <1>6 DEF Next, Write

\* The merged manifest is the old one and the run.
LEMMA MergedAdds ==
    ASSUME TypeOK, LedgerInv, pc = "manifest"
    PROVE  /\ Merged.sources = manifest.sources \cup {cmd.src}
           /\ Merged.redacted <=> manifest.redacted /\ cmd.redact
           /\ \A n \in L!CountNames : Merged.counts[n] = manifest.counts[n] + counts[n]
<1>1. manifest \in Manifests /\ counts \in L!Counts /\ cmd.redact \in BOOLEAN
  BY SettingsAssumption DEF TypeOK, Commands
<1>2. CASE manifest.sources = {}
  <2>1. manifest.redacted = TRUE /\ \A n \in L!CountNames : manifest.counts[n] = 0
    BY <1>2 DEF LedgerInv, NoManifest, L!NoCounts
  <2>2. \A n \in L!CountNames : counts[n] \in Nat
    BY <1>1 DEF L!Counts
  <2>3. /\ Merged.sources = {cmd.src} /\ Merged.counts = counts /\ Merged.redacted = cmd.redact
    BY <1>2 DEF Merged
  <2>4. Merged.sources = manifest.sources \cup {cmd.src}
    BY <1>2, <2>3
  <2>5. \A n \in L!CountNames : Merged.counts[n] = manifest.counts[n] + counts[n]
    BY <2>1, <2>2, <2>3
  <2> QED BY <2>1, <2>3, <2>4, <2>5
<1>3. CASE manifest.sources # {}
  <2>1. /\ Merged.sources = manifest.sources \cup {cmd.src}
        /\ Merged.counts = L!Plus(manifest.counts, counts)
        /\ Merged.redacted = (manifest.redacted /\ cmd.redact)
    BY <1>1, <1>3 DEF Merged, Manifests
  <2> QED BY <2>1 DEF L!Plus
<1> QED BY <1>2, <1>3

\* Replacing the manifest by the merged one enters the source in the ledger.
LEMMA ManifestCommits ==
    ASSUME TypeOK, CountsClose, LedgerInv, WriteManifest
    PROVE  L!Next
<1>1. /\ pc = "manifest" /\ manifest' = Merged /\ cmd.src \in Sources
      /\ cmd.src \notin manifest.sources
      /\ manifest \in Manifests /\ counts \in L!Counts /\ cmd.redact \in BOOLEAN
  BY SettingsAssumption DEF WriteManifest, LedgerInv, TypeOK, Commands
<1>2. /\ L!Closes(counts) /\ counts["lines"] = Len(Log[cmd.src]) /\ counts["written"] > 0
  BY <1>1 DEF CountsClose, LedgerInv, TypeOK
<1>3. /\ manifest'.sources = manifest.sources \cup {cmd.src}
      /\ manifest'.redacted \in {manifest.redacted, FALSE}
      /\ \A n \in L!CountNames : manifest'.counts[n] = manifest.counts[n] + counts[n]
  <2>1. Merged.redacted \in BOOLEAN /\ manifest.redacted \in BOOLEAN
    BY <1>1 DEF Merged, Manifests
  <2> QED BY <1>1, <2>1, MergedAdds
<1>4. \A n \in L!CountNames : manifest'.counts[n] - manifest.counts[n] = counts[n]
  <2>1. \A n \in L!CountNames : counts[n] \in Nat /\ manifest.counts[n] \in Nat
    BY <1>1 DEF L!Counts, Manifests
  <2> QED BY <1>3, <2>1
<1>5. L!Added = counts
  BY <1>1, <1>4 DEF L!Added, L!Counts
<1> QED BY <1>1, <1>2, <1>3, <1>5 DEF L!Next, L!Commit

\* Every step is a commit of the ledger or leaves it alone.
LEMMA LedgerStep ==
    ASSUME TypeOK, CountsClose, LedgerInv, [Next]_vars
    PROVE  [L!Next]_L!vars
<1>1. CASE WriteManifest
  BY <1>1, ManifestCommits
<1>2. CASE ~WriteManifest
  <2>1. UNCHANGED manifest
    <3>1. CASE \E c \in Commands : RefuseRun(c) \/ BreakRun(c) \/ StartRun(c)
      BY <3>1 DEF RefuseRun, BreakRun, StartRun, disk
    <3>2. CASE Read \/ Finish
      BY <3>2 DEF Read, ReadBlank, ReadUnparsed, ReadInvalid, ReadRow, ReadFatal, Finish,
                  EndWithNothing, RefuseWrite, disk
    <3>3. CASE OpenRecords \/ WriteRecord \/ CloseRecords \/ AppendErrors \/ WriteReport
      BY <3>3 DEF OpenRecords, WriteRecord, CloseRecords, AppendErrors, WriteReport, disk
    <3>4. CASE Crash \/ Rest \/ UNCHANGED vars
      BY <3>4 DEF Crash, Rest, vars, disk
    <3> QED BY <1>2, <3>1, <3>2, <3>3, <3>4 DEF Next, Write
  <2> QED BY <2>1 DEF L!vars
<1> QED BY <1>1, <1>2

\* The manifest on disk is a ledger: whatever is refused, killed or typed again,
\* it only ever changes by entering one source not in it, with every one of the
\* source's lines counted once (WindowLedger).
THEOREM LedgerImplemented == Spec => LedgerKept
<1>1. Init => L!Init /\ LedgerInv
  BY LedgerInit
<1>2. TypeOK /\ LedgerInv /\ [Next]_vars => LedgerInv'
  BY LedgerInvStep
<1>3. TypeOK /\ CountsClose /\ LedgerInv /\ [Next]_vars => [L!Next]_L!vars
  BY LedgerStep
<1> QED BY <1>1, <1>2, <1>3, TypeCorrect, CountsAlwaysClose, PTL DEF Spec, LedgerKept, L!Spec
(***************************************************************************)
(* The exit code and the agreement of the four files.                      *)
(***************************************************************************)

\* The lines read so far, seen from the counters of the run.
ReadingInv ==
    Running =>
        /\ failures > 0 <=> \E i \in 1 .. line : Fails(Log[cmd.src][i])
        /\ ~cmd.dedupe /\ batch = <<>> =>
             \A i \in 1 .. line : Log[cmd.src][i].kind = "blank" \/ Fails(Log[cmd.src][i])
        /\ \A i \in DOMAIN batch : batch[i].by = cmd

Writing == pc \in {"records", "errors", "manifest"}

\* The records in the file that are not of the run under way.
Earlier == Len(records) - (IF Writing THEN written ELSE 0)

\* Without a kill the files are apart only by what the run under way has
\* written so far: the records behind Earlier are its own, its rejected lines
\* follow them, and the report is the last to know of the source.
AgreeInv ==
    crashes = 0 =>
        /\ manifest.counts["written"] = Earlier
        /\ errors = Rejected(manifest.counts) + (IF pc = "manifest" THEN failures ELSE 0)
        /\ pc # "report" => report = manifest.sources
        /\ ~Writing => (manifest.sources = {} <=> file = "absent")
        /\ manifest.redacted <=> \A i \in 1 .. Earlier : records[i].by.redact
        /\ \A i \in (Earlier + 1) .. Len(records) : records[i].by = cmd

\* How the last run ended tells of its source.
EndInv ==
    LET source == {Log[cmd.src][i] : i \in DOMAIN Log[cmd.src]}
    IN  /\ exit = "ok" => \A l \in source : ~Fails(l)
        /\ exit = "partial" => \E l \in source : Fails(l)
        /\ exit \in {"ok", "partial"} \/ pc = "report" => cmd.src \in manifest.sources
        /\ exit = "nothing" /\ ~cmd.dedupe => \A l \in source : l.kind = "blank" \/ Fails(l)

\* Nothing is read, and nothing written.
LEMMA ExitInit == Init => ReadingInv /\ AgreeInv /\ EndInv
<1> SUFFICES ASSUME Init PROVE ReadingInv /\ AgreeInv /\ EndInv
  OBVIOUS
<1>1. L!NoCounts["written"] = 0 /\ Rejected(L!NoCounts) = 0
  BY DEF L!NoCounts, L!CountNames, Rejected
<1>2. ReadingInv
  BY DEF Init, ReadingInv, Running
<1>3. Earlier = 0 /\ ~Writing /\ Len(records) = 0
  BY DEF Init, Earlier, Writing
<1>4. AgreeInv
  BY <1>1, <1>3 DEF Init, AgreeInv, NoManifest
<1> QED BY <1>2, <1>4 DEF Init, EndInv

\* One line more: it is a failure, or blank, or makes or repeats a record.
LEMMA ReadingRead ==
    ASSUME TypeOK, TypeOK', ReadingInv, Read
    PROVE  ReadingInv'
<1> DEFINE src == Log[cmd.src]
           Same == /\ line' = line + 1 /\ cmd' = cmd /\ pc = "read" /\ pc' = "read"
                   /\ Current = src[line + 1]
<1>0. line \in Nat /\ failures \in Nat
  BY DEF TypeOK
<1>1. /\ pc = "read" => /\ failures > 0 <=> \E i \in 1 .. line : Fails(src[i])
                        /\ ~cmd.dedupe /\ batch = <<>> =>
                             \A i \in 1 .. line : src[i].kind = "blank" \/ Fails(src[i])
                        /\ \A i \in DOMAIN batch : batch[i].by = cmd
  BY DEF ReadingInv, Running
<1>2. \A l : Fails(l)' <=> l.kind \in {"unparsed", "unbuildable"} \/ (l.kind = "clash" /\ cmd'.redact)
  BY DEF Fails
<1>3. ASSUME cmd' = cmd PROVE \A l : Fails(l)' <=> Fails(l)
  BY <1>2, <1>3 DEF Fails
<1>4. 1 .. (line + 1) = (1 .. line) \cup {line + 1}
  BY <1>0
<1>5. CASE ReadBlank
  <2>1. Same /\ UNCHANGED <<failures, batch>> /\ ~Fails(Current) /\ Current.kind = "blank"
    BY <1>5 DEF ReadBlank, Reading, Current, Fails
  <2> QED BY <1>1, <1>3, <1>4, <2>1 DEF ReadingInv, Running
<1>6. CASE ReadUnparsed
  <2>1. Same /\ UNCHANGED batch /\ failures' = failures + 1 /\ Fails(Current)
    BY <1>6 DEF ReadUnparsed, Reading, Current, Fails
  <2>2. failures' > 0
    BY <1>0, <2>1
  <2> QED BY <1>1, <1>3, <1>4, <2>1, <2>2 DEF ReadingInv, Running
<1>7. CASE ReadInvalid
  <2>1. Same /\ UNCHANGED batch /\ failures' = failures + 1 /\ Fails(Current)
    BY <1>7 DEF ReadInvalid, Reading, Current, Fails
  <2>2. failures' > 0
    BY <1>0, <2>1
  <2> QED BY <1>1, <1>3, <1>4, <2>1, <2>2 DEF ReadingInv, Running
<1>8. CASE ReadRow
  <2>1. Same /\ UNCHANGED failures /\ ~Fails(Current)
    BY <1>8 DEF ReadRow, Reading, Current, Fails
  <2>2. PICK r : /\ r.by = cmd
                 /\ batch' = Append(batch, r) \/ (batch' = batch /\ cmd.dedupe)
    <3> DEFINE t == IF cmd.redact THEN Redacted(tokens, Current) ELSE tokens
               r == Record(t, Current)
    <3>1. batch' = IF Fingerprint(r) \notin seen \/ ~cmd.dedupe THEN Append(batch, r) ELSE batch
      BY <1>8 DEF ReadRow
    <3>2. r.by = cmd
      BY DEF Record
    <3> HIDE DEF r
    <3> QED BY <3>1, <3>2
  <2>3. \A i \in DOMAIN batch' : batch'[i].by = cmd
    <3>1. batch \in Seq(Records) /\ batch' \in Seq(Records)
      BY DEF TypeOK
    <3> QED BY <1>1, <2>1, <2>2, <3>1
  <2>4. ~cmd.dedupe => batch' # <<>>
    <3>1. batch \in Seq(Records)
      BY DEF TypeOK
    <3>2. Len(Append(batch, r)) = Len(batch) + 1 /\ Len(batch) \in Nat /\ Len(<<>>) = 0
      BY <3>1
    <3> QED BY <2>2, <3>2
  <2> QED BY <1>1, <1>3, <1>4, <2>1, <2>3, <2>4 DEF ReadingInv, Running
<1>9. CASE ReadFatal
  BY <1>9 DEF ReadFatal, End, ReadingInv, Running
<1> QED BY <1>5, <1>6, <1>7, <1>8, <1>9 DEF Read

\* Every step keeps what the counters say of the lines read.
LEMMA ReadingStep ==
    ASSUME TypeOK, TypeOK', ReadingInv, [Next]_vars
    PROVE  ReadingInv'
<1>1. CASE \E c \in Commands : RefuseRun(c) \/ BreakRun(c) \/ StartRun(c)
  BY <1>1 DEF RefuseRun, BreakRun, StartRun, End, ReadingInv, Running
<1>2. CASE Read
  BY <1>2, ReadingRead
<1>3. CASE Finish \/ Crash \/ WriteReport
  BY <1>3 DEF Finish, EndWithNothing, RefuseWrite, Crash, WriteReport, End, ReadingInv, Running
<1>4. CASE OpenRecords \/ WriteRecord \/ CloseRecords \/ AppendErrors \/ WriteManifest
  <2>1. Running /\ UNCHANGED <<failures, line, batch, cmd>>
    BY <1>4 DEF OpenRecords, WriteRecord, CloseRecords, AppendErrors, WriteManifest, AtEnd,
                Running, memory
  <2> QED BY <2>1 DEF ReadingInv, Running, Fails
<1>5. CASE Rest \/ UNCHANGED vars
  BY <1>5 DEF Rest, vars, memory, ReadingInv, Running, Fails
<1> QED BY <1>1, <1>2, <1>3, <1>4, <1>5 DEF Next, Write

\* The files come together again when the manifest takes the run in.
LEMMA AgreeManifest ==
    ASSUME TypeOK, CountsClose, WritesInv, LedgerInv, AgreeInv, WriteManifest
    PROVE  AgreeInv'
<1> SUFFICES ASSUME crashes' = 0 PROVE AgreeInv'
  BY DEF AgreeInv
<1>1. /\ pc = "manifest" /\ pc' = "report" /\ manifest' = Merged
      /\ UNCHANGED <<records, file, errors, report, cmd, written, batch, counts, failures, crashes>>
  BY DEF WriteManifest, memory
<1>2. crashes = 0 /\ Writing /\ ~Writing'
  BY <1>1 DEF Writing
<1> DEFINE n == Len(records)
           k == Len(batch)
<1>3. n \in Nat /\ k \in Nat /\ k > 0 /\ written = k /\ Earlier = n - k /\ Earlier' = n
  <2>1. batch \in Seq(Records) /\ batch # <<>>
    BY <1>1 DEF TypeOK, LedgerInv
  <2>2. k \in Nat /\ k > 0
    BY <2>1
  <2>3. n \in Nat /\ written = k
    BY <1>1 DEF TypeOK, WritesInv
  <2>4. Earlier = n - k /\ Earlier' = n
    BY <1>1, <1>2, <2>3 DEF Earlier
  <2> QED BY <2>2, <2>3, <2>4
<1>4. /\ manifest.counts["written"] = n - k
      /\ errors = Rejected(manifest.counts) + failures
      /\ manifest.redacted <=> \A i \in 1 .. (n - k) : records[i].by.redact
      /\ \A i \in (n - k + 1) .. n : records[i].by = cmd
  BY <1>1, <1>2, <1>3 DEF AgreeInv
<1>5. /\ Merged.sources = manifest.sources \cup {cmd.src}
      /\ Merged.redacted <=> manifest.redacted /\ cmd.redact
      /\ \A c \in L!CountNames : Merged.counts[c] = manifest.counts[c] + counts[c]
  BY <1>1, MergedAdds
<1>6. counts["written"] = k /\ Rejected(counts) = failures
  BY <1>1 DEF CountsClose
<1>7. \A c \in L!CountNames : manifest.counts[c] \in Nat /\ counts[c] \in Nat
  BY DEF TypeOK, Manifests, L!Counts
<1>8. Merged.counts["written"] = n
  <2>1. Merged.counts["written"] = manifest.counts["written"] + counts["written"]
    BY <1>5 DEF L!CountNames
  <2> QED BY <1>3, <1>4, <1>6, <2>1
<1>9. Rejected(Merged.counts) = errors
  <2>1. /\ Merged.counts["unparsed"] = manifest.counts["unparsed"] + counts["unparsed"]
        /\ Merged.counts["invalid"] = manifest.counts["invalid"] + counts["invalid"]
        /\ manifest.counts["unparsed"] \in Nat /\ counts["unparsed"] \in Nat
        /\ manifest.counts["invalid"] \in Nat /\ counts["invalid"] \in Nat
    BY <1>5, <1>7 DEF L!CountNames
  <2> QED BY <1>4, <1>6, <2>1 DEF Rejected
<1>10. Merged.redacted <=> \A i \in 1 .. n : records[i].by.redact
  <2>1. n \in (n - k + 1) .. n /\ n \in 1 .. n
    <3>1. k <= n
      <4>1. manifest.counts["written"] \in Nat
        BY <1>7 DEF L!CountNames
      <4> QED BY <1>3, <1>4, <4>1
    <3> QED BY <1>3, <3>1
  <2>2. \A i \in 1 .. n : i \in 1 .. (n - k) \/ i \in (n - k + 1) .. n
    BY <1>3
  <2>3. \A i \in 1 .. (n - k) : i \in 1 .. n
    BY <1>3
  <2> HIDE DEF n, k
  <2> QED BY <1>4, <1>5, <2>1, <2>2, <2>3
<1>11. Merged.sources # {} /\ file # "absent"
  BY <1>1, <1>5 DEF WritesInv
<1>12. \A i \in (n + 1) .. n : records[i].by = cmd
  BY <1>3
<1>13. errors = errors + 0
  BY DEF TypeOK
<1> QED BY <1>1, <1>2, <1>3, <1>8, <1>9, <1>10, <1>11, <1>12, <1>13 DEF AgreeInv, Rejected

\* Before and after the writes the file holds no record of the run under way.
LEMMA AgreeQuiet ==
    ASSUME TypeOK, AgreeInv, ~Writing, ~Writing', pc # "report",
           UNCHANGED <<records, file, errors, manifest, report, crashes>>
    PROVE  AgreeInv'
<1>1. Earlier = Len(records) /\ Earlier' = Len(records) /\ Len(records) \in Nat
  BY DEF Earlier, TypeOK
<1>2. \A i \in (Len(records) + 1) .. Len(records) : records[i].by = cmd'
  BY <1>1
<1>3. pc # "manifest" /\ pc' # "manifest"
  BY DEF Writing
<1> QED BY <1>1, <1>2, <1>3 DEF AgreeInv, Rejected

\* Every step keeps the files apart by the run's writes only.
LEMMA AgreeStep ==
    ASSUME TypeOK, CountsClose, WritesInv, LedgerInv, ReadingInv, AgreeInv, [Next]_vars
    PROVE  AgreeInv'
<1>1. CASE \E c \in Commands : RefuseRun(c) \/ BreakRun(c) \/ StartRun(c)
  BY <1>1, AgreeQuiet DEF RefuseRun, BreakRun, StartRun, End, disk, Writing
<1>2. CASE Read \/ Finish
  BY <1>2, AgreeQuiet DEF Read, ReadBlank, ReadUnparsed, ReadInvalid, ReadRow, ReadFatal, Reading,
       Finish, EndWithNothing, RefuseWrite, AtEnd, End, disk, Writing
<1>3. CASE OpenRecords
  <2>1. /\ pc = "read" /\ pc' = "records" /\ written = 0
        /\ UNCHANGED <<records, errors, manifest, report, cmd, written, crashes>>
    BY <1>3 DEF OpenRecords, AtEnd, memory, WritesInv
  <2>2. Earlier = Len(records) /\ Earlier' = Len(records)
    BY <2>1 DEF Earlier, Writing, TypeOK
  <2> QED BY <2>1, <2>2 DEF AgreeInv, Writing, Rejected
<1>4. CASE WriteRecord
  <2>1. /\ pc = "records" /\ pc' = "records" /\ written' = written + 1
        /\ records' = Append(records, batch[written + 1])
        /\ UNCHANGED <<errors, manifest, report, cmd, crashes>>
        /\ written + 1 \in DOMAIN batch
    BY <1>4 DEF WriteRecord, TypeOK
  <2>2. batch[written + 1].by = cmd
    BY <2>1 DEF ReadingInv, Running
  <2> DEFINE n == Len(records)
  <2>3. /\ n \in Nat /\ written \in Nat /\ Len(records') = n + 1
        /\ \A i \in 1 .. n : records'[i] = records[i]
        /\ records'[n + 1] = batch[written + 1]
    BY <2>1 DEF TypeOK
  <2>4. Earlier = n - written /\ Earlier' = n - written
    BY <2>1, <2>3 DEF Earlier, Writing
  <2> SUFFICES ASSUME crashes' = 0 PROVE AgreeInv'
    BY DEF AgreeInv
  <2>5. /\ manifest.counts["written"] = n - written
        /\ manifest.redacted <=> \A i \in 1 .. (n - written) : records[i].by.redact
        /\ \A i \in (n - written + 1) .. n : records[i].by = cmd
        /\ errors = Rejected(manifest.counts) + 0
        /\ report = manifest.sources
    BY <2>1, <2>4 DEF AgreeInv
  <2>6. n - written \in Nat
    <3>1. manifest.counts["written"] \in Nat
      BY DEF TypeOK, Manifests, L!Counts, L!CountNames
    <3> QED BY <2>5, <3>1
  <2>7. \A i \in (n - written + 1) .. (n + 1) : records'[i].by = cmd
    <3> SUFFICES ASSUME NEW i \in (n - written + 1) .. (n + 1) PROVE records'[i].by = cmd
      OBVIOUS
    <3>1. CASE i = n + 1
      BY <2>2, <2>3, <3>1
    <3>2. CASE i # n + 1
      <4>1. i \in (n - written + 1) .. n /\ i \in 1 .. n
        BY <2>3, <2>6, <3>2
      <4> QED BY <2>3, <2>5, <4>1
    <3> QED BY <3>1, <3>2
  <2>8. \A i \in 1 .. (n - written) : records'[i] = records[i]
    BY <2>3
  <2> HIDE DEF n
  <2> QED BY <2>1, <2>3, <2>4, <2>5, <2>7, <2>8 DEF AgreeInv, Writing, Rejected
<1>5. CASE CloseRecords
  <2>1. /\ pc = "records" /\ pc' = "errors"
        /\ UNCHANGED <<records, errors, manifest, report, cmd, written, crashes>>
    BY <1>5 DEF CloseRecords, disk, memory
  <2>2. Earlier' = Earlier
    BY <2>1 DEF Earlier, Writing
  <2> QED BY <2>1, <2>2 DEF AgreeInv, Writing, Rejected
<1>6. CASE AppendErrors
  <2>1. /\ pc = "errors" /\ pc' = "manifest" /\ errors' = errors + failures
        /\ UNCHANGED <<records, manifest, report, cmd, written, crashes, failures>>
    BY <1>6 DEF AppendErrors, memory
  <2>2. Earlier' = Earlier
    BY <2>1 DEF Earlier, Writing
  <2>3. Rejected(manifest.counts) \in Nat /\ failures \in Nat
    BY CountsNat DEF TypeOK, Manifests
  <2> QED BY <2>1, <2>2, <2>3 DEF AgreeInv, Writing, Rejected
<1>7. CASE WriteManifest
  BY <1>7, AgreeManifest
<1>8. CASE WriteReport
  <2>1. /\ pc = "report" /\ pc' = "idle" /\ report' = manifest.sources
        /\ UNCHANGED <<records, file, errors, manifest, cmd, written, crashes>>
    BY <1>8 DEF WriteReport, End, memory
  <2>2. Earlier' = Earlier
    BY <2>1 DEF Earlier, Writing
  <2> QED BY <2>1, <2>2 DEF AgreeInv, Writing, Rejected
<1>9. CASE Crash
  BY <1>9 DEF Crash, AgreeInv, TypeOK
<1>10. CASE Rest \/ UNCHANGED vars
  <2>1. UNCHANGED <<records, file, errors, manifest, report, cmd, written, crashes, pc, failures>>
    BY <1>10 DEF Rest, vars, disk, memory
  <2>2. Earlier' = Earlier
    BY <2>1 DEF Earlier, Writing
  <2> QED BY <2>1, <2>2 DEF AgreeInv, Writing, Rejected
<1> QED BY <1>1, <1>2, <1>3, <1>4, <1>5, <1>6, <1>7, <1>8, <1>9, <1>10 DEF Next, Write

\* What the end of a run says of its source, by what its counters said of the
\* lines: at the end they are all of them.
LEMMA EndStep ==
    ASSUME TypeOK, LedgerInv, ReadingInv, EndInv, [Next]_vars
    PROVE  EndInv'
<1> DEFINE src == Log[cmd.src]
           source == {src[i] : i \in DOMAIN src}
<1>0. src \in Seq(Line) /\ DOMAIN src = 1 .. Len(src)
  BY LogAssumption DEF TypeOK, Commands
<1>1. CASE \E c \in Commands : RefuseRun(c) \/ BreakRun(c) \/ StartRun(c)
  BY <1>1 DEF RefuseRun, BreakRun, StartRun, End, EndInv, disk
<1>2. CASE Read
  <2>1. /\ UNCHANGED <<cmd, manifest>> /\ pc' # "report"
        /\ exit' = exit \/ exit' = "refused"
    BY <1>2 DEF Read, ReadBlank, ReadUnparsed, ReadInvalid, ReadRow, ReadFatal, Reading, End, disk
  <2> QED BY <2>1 DEF EndInv, Fails
<1>3. CASE EndWithNothing
  <2>1. /\ exit' = "nothing" /\ pc' = "idle" /\ UNCHANGED <<cmd, manifest>>
        /\ Running /\ line = Len(src) /\ batch = <<>>
    BY <1>3 DEF EndWithNothing, AtEnd, End, Running, memory, disk
  <2>2. ~cmd.dedupe => \A i \in 1 .. Len(src) : src[i].kind = "blank" \/ Fails(src[i])
    BY <2>1 DEF ReadingInv
  <2> QED BY <1>0, <2>1, <2>2 DEF EndInv, Fails
<1>4. CASE RefuseWrite \/ Crash
  <2>1. pc' = "idle" /\ exit' \in {"refused", "killed"}
    BY <1>4 DEF RefuseWrite, Crash, End
  <2> QED BY <2>1 DEF EndInv
<1>5. CASE OpenRecords \/ WriteRecord \/ CloseRecords \/ AppendErrors
  <2>1. /\ UNCHANGED <<cmd, manifest, exit>> /\ pc' # "report"
    BY <1>5 DEF OpenRecords, WriteRecord, CloseRecords, AppendErrors, memory, disk
  <2> QED BY <2>1 DEF EndInv, Fails
<1>6. CASE WriteManifest
  <2>1. /\ UNCHANGED <<cmd, exit>> /\ manifest' = Merged /\ pc = "manifest"
    BY <1>6 DEF WriteManifest, memory
  <2>2. cmd.src \in Merged.sources
    BY <2>1, MergedAdds
  <2> QED BY <2>1, <2>2 DEF EndInv, Fails
<1>7. CASE WriteReport
  <2>1. /\ exit' = IF failures > 0 THEN "partial" ELSE "ok"
        /\ UNCHANGED <<cmd, manifest>>
        /\ pc = "report" /\ pc' = "idle" /\ Running /\ line = Len(src)
    BY <1>7 DEF WriteReport, End, memory, LedgerInv, Running
  <2>2. failures > 0 <=> \E i \in 1 .. Len(src) : Fails(src[i])
    BY <2>1 DEF ReadingInv
  <2>3. failures > 0 <=> \E l \in source : Fails(l)
    BY <1>0, <2>2
  <2> QED BY <2>1, <2>3 DEF EndInv, Fails
<1>8. CASE Rest \/ UNCHANGED vars
  BY <1>8 DEF Rest, vars, disk, memory, EndInv, Fails
<1> QED BY <1>1, <1>2, <1>3, <1>4, <1>5, <1>6, <1>7, <1>8 DEF Next, Finish, Write

\* Exit 0 and 1 say whether a line was rejected and that the source is in the
\* manifest, exit 2 that no line was new; and as long as no run is killed the
\* records, the rejected lines, the manifest and the report tell one story
\* between runs (src/loghog/ingest/run.py).
THEOREM ExitHonestHolds == Spec => []ExitHonest
<1> DEFINE I == /\ WritesInv /\ LedgerInv /\ ReadingInv /\ AgreeInv /\ EndInv
<1>1. Init => I
  BY WritesInit, LedgerInit, ExitInit
<1>2. TypeOK /\ TypeOK' /\ CountsClose /\ I /\ [Next]_vars => I'
  BY WritesStep, LedgerInvStep, ReadingStep, AgreeStep, EndStep
<1>3. TypeOK /\ I => ExitHonest
  <2> SUFFICES ASSUME TypeOK, I PROVE ExitHonest
    OBVIOUS
  <2>1. FilesAgree
    <3> SUFFICES ASSUME crashes = 0, pc = "idle" PROVE FilesAgree
      BY DEF FilesAgree
    <3>1. ~Writing /\ Earlier = Len(records) /\ Len(records) \in Nat /\ DOMAIN records = 1 .. Len(records)
      BY DEF Writing, Earlier, TypeOK
    <3>2. Rejected(manifest.counts) \in Nat
      BY CountsNat DEF TypeOK, Manifests
    <3> QED BY <3>1, <3>2 DEF AgreeInv, FilesAgree
  <2> QED BY <2>1 DEF EndInv, ExitHonest
<1> QED BY <1>1, <1>2, <1>3, TypeCorrect, CountsAlwaysClose, PTL DEF Spec
=============================================================================
