--------------------------- MODULE LiveLogProofs ---------------------------
(***************************************************************************)
(* What holds of any number of ingests of one growing log, whatever its    *)
(* length, the order of their steps and the processes killed: LiveLog is   *)
(* type correct, an entry of the manifest means that its file has been     *)
(* read, and the manifest never claims more records than the file holds.   *)
(***************************************************************************)
EXTENDS LiveLog, Induction

\* Every line that is whole in the first h halves of the log has its record.
ReadUpTo(h, recs) == \A k \in Lines : 2 * k <= h => recs[k] > 0

InBatch(k, m) == \E i \in 1 .. Len(m.batch) : m.batch[i] = k

Kept(k, m, recs) == recs[k] > 0 \/ InBatch(k, m)

Before == {"idle", "hash", "manifest", "fingerprints"}
After == {"open", "fill", "rename"}

\* What a process remembers is true of the window, or will be once its batch is
\* written: what it has seen, what it hashed, what the manifest it read names.
Sound(m, recs, sz) ==
    /\ m.hash <= sz
    /\ \A h \in m.existing.entries : ReadUpTo(h, recs)
    /\ \A k \in m.seen : Kept(k, m, recs)
    /\ 2 * m.new <= m.pos
    /\ m.at \in Before => m.pos = 0 /\ m.batch = <<>> /\ m.seen = {}
    /\ m.at = "read" =>
         /\ \A k \in Lines : 2 * k <= m.hash /\ 2 * k <= m.pos => k \in m.seen
         /\ m.pos % 2 = 1 => m.hash <= m.pos
    /\ m.at \in {"write", "rest"} => \A k \in Lines : 2 * k <= m.hash => Kept(k, m, recs)
    /\ m.at \in After => ReadUpTo(m.hash, recs)
    /\ m.at = "rest" => m.batch # <<>>

AllSound == \A p \in Processes : Sound(proc[p], records, size)

Promised(m, recs) == \A h \in m.entries : ReadUpTo(h, recs)

\* The inductive invariant.
IInv ==
    /\ TypeOK
    /\ AllSound
    /\ Promised(manifest, records)
    /\ Promised(tmp, records)

Grown(recs, more) == \A k \in Lines : recs[k] > 0 => more[k] > 0

----------------------------------------------------------------------------

\* Records are only added, so nothing that is sound becomes unsound.
LEMMA SoundGrows ==
    ASSUME NEW m \in Memory, NEW recs, NEW more, NEW sz \in Nat, NEW bigger \in Nat,
           Sound(m, recs, sz), Grown(recs, more), sz <= bigger
    PROVE  Sound(m, more, bigger)
  <1>1. ASSUME NEW h, ReadUpTo(h, recs) PROVE ReadUpTo(h, more)
    BY <1>1 DEF ReadUpTo, Grown
  <1>2. ASSUME NEW k \in Lines, Kept(k, m, recs) PROVE Kept(k, m, more)
    BY <1>2 DEF Kept, Grown
  <1>3. m.hash <= bigger
    <2>1. m.hash \in Nat /\ m.hash <= sz
      BY BoundsAssumption DEF Sound, Memory
    <2> QED BY <2>1
  <1>4. \A k \in m.seen : k \in Lines
    BY DEF Memory
  <1>5. \A h \in m.existing.entries : ReadUpTo(h, more)
    BY <1>1 DEF Sound
  <1>6. \A k \in m.seen : Kept(k, m, more)
    BY <1>2, <1>4 DEF Sound
  <1>7. m.at \in {"write", "rest"} => \A k \in Lines : 2 * k <= m.hash => Kept(k, m, more)
    BY <1>2 DEF Sound
  <1>8. m.at \in After => ReadUpTo(m.hash, more)
    BY <1>1 DEF Sound
  <1> QED BY <1>3, <1>5, <1>6, <1>7, <1>8 DEF Sound

\* Neither the handle nor anything else but the names in Sound matters to it.
LEMMA HandleIsFree ==
    ASSUME NEW m \in Memory, NEW x \in {"none", "tmp", "manifest", "gone"},
           NEW recs, NEW sz, Sound(m, recs, sz),
           NEW n, n = [m EXCEPT !.handle = x]
    PROVE  n \in Memory /\ Sound(n, recs, sz)
  <1>1. n \in Memory
    BY DEF Memory
  <1>2. /\ n.hash = m.hash /\ n.existing = m.existing /\ n.seen = m.seen /\ n.new = m.new
        /\ n.pos = m.pos /\ n.at = m.at /\ n.batch = m.batch
    BY DEF Memory
  <1> QED BY <1>1, <1>2 DEF Sound, Kept, InBatch

\* Writing a record takes it off the batch.
LEMMA ShorterBatch ==
    ASSUME NEW m \in Memory, NEW c \in Seq(Lines)
    PROVE  [m EXCEPT !.at = "write", !.batch = c] \in Memory
  BY DEF Memory, Steps

\* A row is two halves of the log.
LEMMA OneMore ==
    \A new, pos, m, n \in Nat : 2 * new <= pos /\ m <= new + 1 /\ n = pos + 2 => 2 * m <= n
  OBVIOUS

\* Nothing is remembered, so nothing can be wrong.
LEMMA IdleSound ==
    ASSUME NEW recs, NEW sz \in Nat
    PROVE  Idle \in Memory /\ Sound(Idle, recs, sz)
  <1>1. Idle \in Memory
    BY BoundsAssumption DEF Idle, Memory, Absent, Manifests, Steps, Lines
  <1>2. Sound(Idle, recs, sz)
    BY BoundsAssumption DEF Idle, Sound, Absent, Before, After
  <1> QED BY <1>1, <1>2

\* A manifest that does not read has no entries, and promises nothing.
LEMMA TornIsManifest == Torn \in Manifests /\ Absent \in Manifests
  BY BoundsAssumption DEF Torn, Absent, Manifests

\* It promises nothing.
LEMMA TornPromises == \A recs : Promised(Torn, recs) /\ Promised(Absent, recs)
  BY DEF Promised, Torn, Absent

\* A step of one process that leaves it sound and adds records to the window.
LEMMA StepOfOne ==
    ASSUME IInv, NEW p \in Processes, NEW m \in Memory,
           proc' = [proc EXCEPT ![p] = m],
           records' \in [Lines -> Nat], Grown(records, records'),
           size' = size, kills' \in 0 .. MaxKills,
           file' \in {"absent", "whole", "unterminated", "corrupt"},
           manifest' \in Manifests, Promised(manifest', records'),
           tmp' \in Manifests, Promised(tmp', records'),
           Sound(m, records', size)
    PROVE  IInv'
  <1>1. size \in Nat /\ proc \in [Processes -> Memory]
    BY BoundsAssumption DEF IInv, TypeOK
  <1>2. proc' \in [Processes -> Memory]
    BY <1>1
  <1>3. TypeOK'
    BY <1>2 DEF IInv, TypeOK
  <1>4. ASSUME NEW q \in Processes PROVE Sound(proc'[q], records', size')
    <2>1. CASE q = p
      BY <1>1, <2>1
    <2>2. CASE q # p
      <3>1. proc'[q] = proc[q] /\ proc[q] \in Memory /\ Sound(proc[q], records, size)
        BY <1>1, <2>2 DEF IInv, AllSound
      <3>2. Sound(proc[q], records', size)
        BY <1>1, <3>1, SoundGrows
      <3> QED BY <3>1, <3>2
    <2> QED BY <2>1, <2>2
  <1>5. AllSound'
    BY <1>4 DEF AllSound
  <1> QED BY <1>3, <1>5 DEF IInv

\* The same, of a step that leaves the window alone.
LEMMA StepInMemory ==
    ASSUME IInv, NEW p \in Processes, NEW m \in Memory,
           proc' = [proc EXCEPT ![p] = m],
           UNCHANGED <<size, records, manifest, tmp>>, kills' \in 0 .. MaxKills,
           file' \in {"absent", "whole", "unterminated", "corrupt"},
           Sound(m, records, size)
    PROVE  IInv'
  <1>1. records' \in [Lines -> Nat] /\ Grown(records, records') /\ records' = records
    BY DEF IInv, TypeOK, Grown
  <1>2. manifest' \in Manifests /\ tmp' \in Manifests
    BY DEF IInv, TypeOK
  <1>3. Promised(manifest', records') /\ Promised(tmp', records')
    BY DEF IInv
  <1> QED BY <1>1, <1>2, <1>3, StepOfOne

\* The facts of a process every step starts from.
LEMMA OneProcess ==
    ASSUME IInv, NEW p \in Processes
    PROVE  /\ proc[p] \in Memory /\ Sound(proc[p], records, size)
           /\ proc \in [Processes -> Memory]
           /\ size \in Nat /\ size \in 0 .. MaxSize /\ MaxSize \in Nat
           /\ records \in [Lines -> Nat]
           /\ Lines = 1 .. (MaxSize \div 2)
           /\ kills \in 0 .. MaxKills
           /\ file \in {"absent", "whole", "unterminated", "corrupt"}
           /\ manifest \in Manifests /\ Promised(manifest, records)
           /\ tmp \in Manifests /\ Promised(tmp, records)
  BY BoundsAssumption DEF IInv, TypeOK, AllSound, Lines

(***************************************************************************)
(* One lemma per step of a process.  Up to the end of the source a step    *)
(* changes what that process remembers and nothing else.                   *)
(***************************************************************************)

\* check_writable looks only.
LEMMA CheckKeeps == ASSUME IInv, NEW p \in Processes, Check(p) PROVE IInv'
  <1> DEFINE m == [proc[p] EXCEPT !.at = "hash", !.append = WindowExists]
  <1> USE OneProcess
  <1>1. proc' = [proc EXCEPT ![p] = m] /\ UNCHANGED <<size, records, file, manifest, tmp, kills>>
    BY DEF Check
  <1>2. m \in Memory
    BY DEF Memory, Steps, WindowExists
  <1>3. Sound(m, records, size)
    BY DEF Sound, Memory, Check, At, Before, After, Kept, InBatch
  <1> HIDE DEF m
  <1> QED BY <1>1, <1>2, <1>3, StepInMemory

\* Hashing fixes the size the run answers for.
LEMMA HashKeeps == ASSUME IInv, NEW p \in Processes, Hash(p) PROVE IInv'
  <1> DEFINE m == [proc[p] EXCEPT !.hash = size,
                                  !.at = IF proc[p].append THEN "manifest" ELSE "read"]
  <1> USE OneProcess
  <1>1. proc' = [proc EXCEPT ![p] = m] /\ UNCHANGED <<size, records, file, manifest, tmp, kills>>
    BY DEF Hash
  <1>2. m \in Memory
    BY DEF Memory, Steps
  <1>3. Sound(m, records, size)
    BY DEF Sound, Memory, Hash, At, Before, After, Kept, InBatch
  <1> HIDE DEF m
  <1> QED BY <1>1, <1>2, <1>3, StepInMemory

\* The entries a run remembers are kept.
LEMMA ReadManifestKeeps == ASSUME IInv, NEW p \in Processes, ReadManifest(p) PROVE IInv'
  <1> DEFINE n == [proc[p] EXCEPT !.existing = manifest, !.at = "fingerprints"]
             m == IF manifest.state # "whole" \/ AlreadyIngested(p) THEN Idle ELSE n
  <1> USE OneProcess
  <1>1. proc' = [proc EXCEPT ![p] = m] /\ UNCHANGED <<size, records, file, manifest, tmp, kills>>
    BY DEF ReadManifest
  <1>2. n \in Memory
    BY DEF Memory, Steps
  <1>3. Sound(n, records, size)
    BY DEF Sound, Memory, ReadManifest, At, Before, After, Kept, InBatch, Promised
  <1>4. m \in Memory /\ Sound(m, records, size)
    <2> HIDE DEF n
    <2> QED BY <1>2, <1>3, IdleSound
  <1> HIDE DEF m
  <1> QED BY <1>1, <1>4, StepInMemory

\* What is in the file has been seen.
LEMMA ReadFingerprintsKeeps == ASSUME IInv, NEW p \in Processes, ReadFingerprints(p) PROVE IInv'
  <1> DEFINE n == [proc[p] EXCEPT !.seen = {k \in Lines : records[k] > 0}, !.at = "read"]
             m == IF file \in {"unterminated", "corrupt"} THEN Idle ELSE n
  <1> USE OneProcess
  <1>1. proc' = [proc EXCEPT ![p] = m] /\ UNCHANGED <<size, records, file, manifest, tmp, kills>>
    BY DEF ReadFingerprints
  <1>2. n \in Memory
    BY DEF Memory, Steps
  <1>3. Sound(n, records, size)
    BY DEF Sound, Memory, ReadFingerprints, At, Before, After, Kept, InBatch
  <1>4. m \in Memory /\ Sound(m, records, size)
    <2> HIDE DEF n
    <2> QED BY <1>2, <1>3, IdleSound
  <1> HIDE DEF m
  <1> QED BY <1>1, <1>4, StepInMemory

\* A line read is in the batch, or is in the window.
LEMMA ReadRowKeeps == ASSUME IInv, NEW p \in Processes, ReadRow(p) PROVE IInv'
  <1> USE OneProcess
  <1> DEFINE k == proc[p].pos \div 2 + 1
             new == k \notin proc[p].seen
             m == [proc[p] EXCEPT !.pos = @ + 2, !.seen = @ \cup {k},
                                  !.batch = IF new THEN Append(@, k) ELSE @,
                                  !.new = IF new THEN @ + 1 ELSE @]
  <1>1. proc' = [proc EXCEPT ![p] = m] /\ UNCHANGED <<size, records, file, manifest, tmp, kills>>
    BY DEF ReadRow
  <1>2. /\ proc[p].at = "read" /\ proc[p].pos \in Nat /\ proc[p].pos + 2 <= size
        /\ 2 * k = proc[p].pos + 2 /\ k \in Lines
    BY DEF ReadRow, At, WholeLine, Memory
  <1>3. /\ m.at = "read" /\ m.hash = proc[p].hash /\ m.existing = proc[p].existing
        /\ m.pos = proc[p].pos + 2 /\ m.seen = proc[p].seen \cup {k}
        /\ m.batch = IF new THEN Append(proc[p].batch, k) ELSE proc[p].batch
        /\ m.new = IF new THEN proc[p].new + 1 ELSE proc[p].new
    BY <1>2 DEF Memory
  <1>4. 2 * m.new <= m.pos /\ m.new \in 0 .. (MaxSize \div 2) /\ m.pos \in 0 .. MaxSize
    <2>1. proc[p].new \in Nat /\ 2 * proc[p].new <= proc[p].pos
      BY DEF Sound, Memory
    <2>2. m.new \in Nat /\ m.new <= proc[p].new + 1
      BY <1>3, <2>1
    <2>3. m.pos \in 0 .. MaxSize
      <3> HIDE DEF m, k, new
      <3>1. m.pos = proc[p].pos + 2 /\ size \in Nat /\ size <= MaxSize /\ MaxSize \in Nat
        BY <1>3
      <3> QED BY <1>2, <3>1
    <2>5. 2 * m.new <= m.pos
      <3> HIDE DEF m, k, new
      <3>1. m.pos = proc[p].pos + 2
        BY <1>3
      <3>2. m.pos \in Nat
        BY <1>2, <3>1
      <3> QED BY <1>2, <2>1, <2>2, <3>1, <3>2, OneMore
    <2>4. m.new <= MaxSize \div 2
      <3> HIDE DEF m
      <3> QED BY <2>2, <2>3, <2>5
    <2> QED BY <2>2, <2>3, <2>4, <2>5
  <1> HIDE DEF k
  <1>5. m.batch \in Seq(Lines)
    BY <1>2, <1>3 DEF Memory
  <1>6. m \in Memory
    BY <1>2, <1>3, <1>4, <1>5 DEF Memory
  <1>7. \A j \in m.seen : Kept(j, m, records)
    <2>1. ASSUME NEW j, InBatch(j, proc[p]) PROVE InBatch(j, m)
      BY <1>2, <1>3, <2>1 DEF InBatch, Memory
    <2>2. ASSUME new PROVE InBatch(k, m)
      <3>1. m.batch = Append(proc[p].batch, k) /\ proc[p].batch \in Seq(Lines)
        BY <1>3, <2>2 DEF Memory
      <3>2. Len(m.batch) \in 1 .. Len(m.batch) /\ m.batch[Len(m.batch)] = k
        <4> HIDE DEF m
        <4> QED BY <1>2, <3>1
      <3> QED BY <3>2 DEF InBatch
    <2> QED BY <1>3, <2>1, <2>2 DEF Sound, Kept
  <1>8. \A j \in Lines : 2 * j <= m.hash /\ 2 * j <= m.pos => j \in m.seen
    <2> SUFFICES ASSUME NEW j \in Lines, 2 * j <= m.hash, 2 * j <= m.pos, j # k
                 PROVE  j \in proc[p].seen
      BY <1>3
    <2>1. 2 * j <= proc[p].pos
      BY <1>2, <1>3
    <2> QED BY <1>2, <1>3, <2>1 DEF Sound
  <1>9. m.pos % 2 = 0
    BY <1>2, <1>3 DEF ReadRow, WholeLine
  <1>10. Sound(m, records, size)
    <2> HIDE DEF m
    <2> QED BY <1>3, <1>4, <1>7, <1>8, <1>9 DEF Sound, Before, After
  <1> HIDE DEF m
  <1> QED BY <1>1, <1>6, <1>10, StepInMemory

\* A piece of a line is behind what was hashed.
LEMMA ReadPieceKeeps == ASSUME IInv, NEW p \in Processes, ReadPiece(p) PROVE IInv'
  <1> USE OneProcess
  <1> DEFINE m == [proc[p] EXCEPT !.pos = @ + 1]
  <1>1. proc' = [proc EXCEPT ![p] = m] /\ UNCHANGED <<size, records, file, manifest, tmp, kills>>
    BY DEF ReadPiece
  <1>2. proc[p].at = "read" /\ proc[p].pos \in Nat /\ proc[p].pos < size /\ proc[p].hash \in Nat
    BY DEF ReadPiece, At, Memory
  <1>3. /\ m.at = "read" /\ m.hash = proc[p].hash /\ m.existing = proc[p].existing
        /\ m.pos = proc[p].pos + 1 /\ m.seen = proc[p].seen /\ m.batch = proc[p].batch
        /\ m.new = proc[p].new
    BY <1>2 DEF Memory
  <1>4. m \in Memory
    <2>1. proc[p].pos + 1 \in 0 .. MaxSize
      BY <1>2
    <2> QED BY <2>1 DEF Memory
  <1>5. m.pos % 2 = 1 => m.hash <= m.pos
    <2>1. CASE proc[p].pos % 2 = 0
      BY <1>2, <1>3, <2>1 DEF ReadPiece, WholeLine, Sound
    <2>2. CASE proc[p].pos % 2 # 0
      BY <1>2, <1>3, <2>2
    <2> QED BY <2>1, <2>2
  <1>6. \A k \in Lines : 2 * k <= m.hash /\ 2 * k <= m.pos => k \in m.seen
    <2> SUFFICES ASSUME NEW k \in Lines, 2 * k <= m.hash, 2 * k <= m.pos
                 PROVE  2 * k <= proc[p].pos
      BY <1>2, <1>3 DEF Sound
    <2>1. CASE proc[p].pos % 2 = 1
      BY <1>2, <1>3, <2>1 DEF Sound
    <2>2. CASE proc[p].pos % 2 # 1
      BY <1>2, <1>3, <2>2
    <2> QED BY <2>1, <2>2
  <1>7. 2 * m.new <= m.pos
    BY <1>2, <1>3 DEF Sound, Memory
  <1>8. Sound(m, records, size)
    <2> HIDE DEF m
    <2> QED BY <1>3, <1>5, <1>6, <1>7 DEF Sound, Before, After, Kept, InBatch
  <1> HIDE DEF m
  <1> QED BY <1>1, <1>4, <1>8, StepInMemory

\* The end is at or behind the size that was hashed.
LEMMA EndReadKeeps == ASSUME IInv, NEW p \in Processes, EndRead(p) PROVE IInv'
  <1> USE OneProcess
  <1>1. CASE proc[p].batch = <<>>
    <2>1. proc' = [proc EXCEPT ![p] = Idle] /\ UNCHANGED <<size, records, file, manifest, tmp, kills>>
      BY <1>1 DEF EndRead
    <2> QED BY <2>1, IdleSound, StepInMemory
  <1>2. CASE proc[p].batch # <<>>
    <2> DEFINE m == [proc[p] EXCEPT !.at = "write"]
    <2>1. /\ proc' = [proc EXCEPT ![p] = m] /\ UNCHANGED <<size, records, manifest, tmp, kills>>
          /\ file' \in {"absent", "whole", "unterminated", "corrupt"}
      BY <1>2 DEF EndRead
    <2>2. proc[p].at = "read" /\ proc[p].pos = size
      BY DEF EndRead, At
    <2>3. m \in Memory
      BY DEF Memory, Steps
    <2>4. /\ m.at = "write" /\ m.hash = proc[p].hash /\ m.existing = proc[p].existing
          /\ m.pos = proc[p].pos /\ m.seen = proc[p].seen /\ m.batch = proc[p].batch
          /\ m.new = proc[p].new
      BY DEF Memory
    <2>5. \A k \in Lines : 2 * k <= m.hash => Kept(k, m, records)
      <3> SUFFICES ASSUME NEW k \in Lines, 2 * k <= m.hash PROVE Kept(k, m, records)
        OBVIOUS
      <3>1. 2 * k <= proc[p].pos
        BY <2>2, <2>4 DEF Sound, Memory
      <3>2. k \in proc[p].seen
        BY <2>2, <2>4, <3>1 DEF Sound
      <3> QED BY <2>4, <3>2 DEF Sound, Kept, InBatch
    <2>6. Sound(m, records, size)
      <3> HIDE DEF m
      <3> QED BY <2>4, <2>5 DEF Sound, Before, After, Kept, InBatch
    <2> HIDE DEF m
    <2> QED BY <2>1, <2>3, <2>6, StepInMemory
  <1> QED BY <1>1, <1>2

----------------------------------------------------------------------------

(***************************************************************************)
(* The writes.                                                             *)
(***************************************************************************)

\* What is in a batch is its head or in its tail.
LEMMA SoundBatch ==
    ASSUME IInv, NEW p \in Processes, proc[p].batch # <<>>
    PROVE  /\ Head(proc[p].batch) \in Lines /\ Tail(proc[p].batch) \in Seq(Lines)
           /\ \A k : InBatch(k, proc[p]) =>
                 \/ k = Head(proc[p].batch)
                 \/ \E i \in 1 .. Len(Tail(proc[p].batch)) : Tail(proc[p].batch)[i] = k
  <1>1. proc[p].batch \in Seq(Lines)
    BY OneProcess DEF Memory
  <1> DEFINE b == proc[p].batch
  <1>2. /\ Head(b) \in Lines /\ Tail(b) \in Seq(Lines)
        /\ Len(b) \in Nat /\ Len(Tail(b)) = Len(b) - 1
        /\ Head(b) = b[1] /\ \A i \in 1 .. Len(Tail(b)) : Tail(b)[i] = b[i + 1]
    BY <1>1
  <1>3. ASSUME NEW i \in 1 .. Len(b)
        PROVE  b[i] = Head(b) \/ \E j \in 1 .. Len(Tail(b)) : Tail(b)[j] = b[i]
    <2>1. CASE i = 1
      BY <1>2, <2>1
    <2>2. CASE i # 1
      <3>1. i - 1 \in 1 .. Len(Tail(b)) /\ Tail(b)[i - 1] = b[i]
        BY <1>2, <2>2
      <3> QED BY <3>1
    <2> QED BY <2>1, <2>2
  <1> QED BY <1>2, <1>3 DEF InBatch

\* The record of the first line in the batch is in the file; the rest of the
\* batch, and the process, is as it was.
LEMMA OneWritten ==
    ASSUME IInv, NEW p \in Processes, proc[p].at \in {"write", "rest"},
           proc[p].batch # <<>>,
           proc' = Written(p),
           records' = [records EXCEPT ![Head(proc[p].batch)] = @ + 1],
           file' \in {"absent", "whole", "unterminated", "corrupt"},
           UNCHANGED <<size, manifest, tmp, kills>>
    PROVE  IInv'
  <1> USE OneProcess, SoundBatch
  <1> DEFINE m == [proc[p] EXCEPT !.at = "write", !.batch = Tail(@)]
             b == proc[p].batch
  <1>1. proc' = [proc EXCEPT ![p] = m]
    BY DEF Written
  <1>2. /\ records' \in [Lines -> Nat] /\ Grown(records, records')
        /\ records'[Head(b)] > 0
    BY DEF Grown
  <1>3. /\ m.at = "write" /\ m.hash = proc[p].hash /\ m.existing = proc[p].existing
        /\ m.pos = proc[p].pos /\ m.seen = proc[p].seen /\ m.batch = Tail(b)
        /\ m.new = proc[p].new
    BY DEF Memory
  <1>4. m \in Memory
    <2>1. b \in Seq(Lines) /\ Tail(b) \in Seq(Lines)
      BY DEF Memory
    <2> QED BY <2>1, ShorterBatch
  <1>5. ASSUME NEW k \in Lines, Kept(k, proc[p], records) PROVE Kept(k, m, records')
    <2>1. CASE records[k] > 0
      BY <1>2, <2>1 DEF Kept, Grown
    <2>2. CASE InBatch(k, proc[p])
      <3>1. k = Head(b) \/ \E j \in 1 .. Len(Tail(b)) : Tail(b)[j] = k
        BY <2>2 DEF InBatch
      <3> HIDE DEF m
      <3> QED BY <1>2, <1>3, <3>1 DEF Kept, InBatch
    <2> QED BY <1>5, <2>1, <2>2 DEF Kept
  <1>6. ASSUME NEW h, ReadUpTo(h, records) PROVE ReadUpTo(h, records')
    BY <1>2, <1>6 DEF ReadUpTo, Grown
  <1>7. \A k \in m.seen : Kept(k, m, records')
    BY <1>3, <1>5 DEF Sound, Memory
  <1>8. \A k \in Lines : 2 * k <= m.hash => Kept(k, m, records')
    BY <1>3, <1>5 DEF Sound
  <1>9. \A h \in m.existing.entries : ReadUpTo(h, records')
    BY <1>3, <1>6 DEF Sound
  <1>10. m.hash <= size /\ 2 * m.new <= m.pos
    BY <1>3 DEF Sound
  <1>11. Sound(m, records', size)
    <2> HIDE DEF m
    <2> QED BY <1>3, <1>7, <1>8, <1>9, <1>10 DEF Sound, Before, After
  <1>12. Promised(manifest', records') /\ Promised(tmp', records')
    BY <1>6 DEF Promised
  <1> HIDE DEF m
  <1> QED BY <1>1, <1>2, <1>4, <1>11, <1>12, StepOfOne

\* A record goes from the batch into the file.
LEMMA WriteRecordKeeps == ASSUME IInv, NEW p \in Processes, WriteRecord(p) PROVE IInv'
  <1>1. file' \in {"absent", "whole", "unterminated", "corrupt"}
    BY OneProcess DEF WriteRecord
  <1> QED BY <1>1, OneWritten DEF WriteRecord, At

\* Half a record changes no other.
LEMMA WriteHalfKeeps == ASSUME IInv, NEW p \in Processes, WriteHalf(p) PROVE IInv'
  <1> USE OneProcess
  <1> DEFINE m == [proc[p] EXCEPT !.at = "rest"]
  <1>1. /\ proc' = [proc EXCEPT ![p] = m] /\ UNCHANGED <<size, records, manifest, tmp, kills>>
        /\ file' \in {"absent", "whole", "unterminated", "corrupt"}
    BY DEF WriteHalf
  <1>2. m \in Memory
    BY DEF Memory, Steps
  <1>3. Sound(m, records, size)
    BY DEF Sound, Memory, WriteHalf, At, Before, After, Kept, InBatch
  <1> HIDE DEF m
  <1> QED BY <1>1, <1>2, <1>3, StepInMemory

\* The other half is the record.
LEMMA WriteRestKeeps == ASSUME IInv, NEW p \in Processes, WriteRest(p) PROVE IInv'
  <1>1. proc[p].at = "rest" /\ proc[p].batch # <<>>
    BY OneProcess DEF WriteRest, At, Sound
  <1>2. file' \in {"absent", "whole", "unterminated", "corrupt"}
    BY DEF WriteRest
  <1> QED BY <1>1, <1>2, OneWritten DEF WriteRest

\* The batch is empty: all that was seen is written.
LEMMA CloseRecordsKeeps == ASSUME IInv, NEW p \in Processes, CloseRecords(p) PROVE IInv'
  <1> USE OneProcess
  <1> DEFINE m == [proc[p] EXCEPT !.at = "open"]
  <1>1. proc' = [proc EXCEPT ![p] = m] /\ UNCHANGED <<size, records, file, manifest, tmp, kills>>
    BY DEF CloseRecords
  <1>2. m \in Memory
    BY DEF Memory, Steps
  <1>3. ReadUpTo(proc[p].hash, records)
    <2>1. proc[p].batch = <<>> /\ proc[p].at = "write"
      BY DEF CloseRecords, At
    <2>2. \A k : ~InBatch(k, proc[p])
      BY <2>1 DEF InBatch
    <2> QED BY <2>1, <2>2 DEF Sound, Kept, ReadUpTo
  <1>4. Sound(m, records, size)
    BY <1>3 DEF Sound, Memory, Before, After, Kept, InBatch
  <1> HIDE DEF m
  <1> QED BY <1>1, <1>2, <1>4, StepInMemory

----------------------------------------------------------------------------

\* An opened file promises nothing.
LEMMA OpenTemporaryKeeps == ASSUME IInv, NEW p \in Processes, OpenTemporary(p) PROVE IInv'
  <1> USE OneProcess
  <1> DEFINE m == [proc[p] EXCEPT !.at = "fill", !.handle = "tmp"]
  <1>1. /\ proc' = [proc EXCEPT ![p] = m] /\ tmp' = Torn
        /\ UNCHANGED <<size, records, file, manifest, kills>>
    BY DEF OpenTemporary
  <1>2. m \in Memory
    BY DEF Memory, Steps
  <1>3. Sound(m, records, size)
    BY DEF Sound, Memory, OpenTemporary, At, Before, After, Kept, InBatch
  <1>4. tmp' \in Manifests /\ Promised(tmp', records')
    BY <1>1, TornIsManifest, TornPromises
  <1>5. Grown(records, records')
    BY <1>1 DEF Grown
  <1> HIDE DEF m
  <1> QED BY <1>1, <1>2, <1>3, <1>4, <1>5, StepOfOne

\* What a process fills the temporary file with is true of the window.
LEMMA MergedPromises ==
    ASSUME IInv, NEW p \in Processes, proc[p].at = "fill"
    PROVE  Merged(p) \in Manifests /\ Promised(Merged(p), records)
  <1> USE OneProcess
  <1>1. Merged(p) \in Manifests
    <2>1. proc[p].existing \in Manifests /\ proc[p].hash \in 0 .. MaxSize /\ proc[p].new \in Nat
      BY DEF Memory
    <2> QED BY <2>1 DEF Merged, Manifests
  <1>2. ReadUpTo(proc[p].hash, records)
    BY DEF Sound, After
  <1>3. \A h \in proc[p].existing.entries : ReadUpTo(h, records)
    BY DEF Sound
  <1>4. Merged(p).entries = proc[p].existing.entries \cup {proc[p].hash}
    BY DEF Merged
  <1> QED BY <1>1, <1>2, <1>3, <1>4 DEF Promised

\* What is filled in is sound, wherever the file is by now.
LEMMA FillTemporaryKeeps == ASSUME IInv, NEW p \in Processes, FillTemporary(p) PROVE IInv'
  <1> USE OneProcess
  <1> DEFINE m == [proc[p] EXCEPT !.at = "rename"]
  <1>1. /\ proc' = [proc EXCEPT ![p] = m] /\ proc[p].at = "fill"
        /\ UNCHANGED <<size, records, file, kills>>
    BY DEF FillTemporary, At
  <1>2. m \in Memory
    BY DEF Memory, Steps
  <1>3. Sound(m, records, size)
    BY <1>1 DEF Sound, Memory, Before, After, Kept, InBatch
  <1>4. ASSUME NEW old \in Manifests, Promised(old, records), NEW x \in Filled(p, old) \cup {old}
        PROVE  x \in Manifests /\ Promised(x, records)
    BY <1>1, <1>4, MergedPromises, TornIsManifest, TornPromises DEF Filled
  <1>5. tmp' \in Manifests /\ Promised(tmp', records)
    BY <1>4 DEF FillTemporary
  <1>6. manifest' \in Manifests /\ Promised(manifest', records)
    BY <1>4 DEF FillTemporary
  <1>7. Grown(records, records')
    BY <1>1 DEF Grown
  <1> HIDE DEF m
  <1> QED BY <1>1, <1>2, <1>3, <1>5, <1>6, <1>7, StepOfOne

\* A sound file takes the name of a sound one.
LEMMA RenameTemporaryKeeps == ASSUME IInv, NEW p \in Processes, RenameTemporary(p) PROVE IInv'
  <1> USE OneProcess
  <1>1. CASE tmp.state = "absent"
    <2>1. proc' = [proc EXCEPT ![p] = Idle] /\ UNCHANGED <<size, records, file, manifest, tmp, kills>>
      BY <1>1 DEF RenameTemporary
    <2> QED BY <2>1, IdleSound, StepInMemory
  <1>2. CASE tmp.state # "absent"
    <2>1. /\ manifest' = tmp /\ tmp' = Absent
          /\ proc' = [q \in Processes |->
                        IF q = p THEN Idle ELSE [proc[q] EXCEPT !.handle = Moved(@)]]
          /\ UNCHANGED <<size, records, file, kills>>
      BY <1>2 DEF RenameTemporary
    <2>2. ASSUME NEW q \in Processes
          PROVE  proc'[q] \in Memory /\ Sound(proc'[q], records, size)
      <3>1. CASE q = p
        BY <2>1, <3>1, IdleSound
      <3>2. CASE q # p
        <4>1. proc[q] \in Memory /\ Sound(proc[q], records, size)
          OBVIOUS
        <4>2. Moved(proc[q].handle) \in {"none", "tmp", "manifest", "gone"}
          BY <4>1 DEF Moved, Memory
        <4>3. proc'[q] = [proc[q] EXCEPT !.handle = Moved(proc[q].handle)]
          BY <2>1, <3>2
        <4> DEFINE n == proc[q]
                   x == Moved(proc[q].handle)
        <4>4. n \in Memory /\ Sound(n, records, size)
              /\ x \in {"none", "tmp", "manifest", "gone"} /\ proc'[q] = [n EXCEPT !.handle = x]
          BY <4>1, <4>2, <4>3
        <4> HIDE DEF n, x
        <4> QED BY <4>4, HandleIsFree
      <3> QED BY <3>1, <3>2
    <2>3. proc' \in [Processes -> Memory]
      BY <2>1, <2>2
    <2>4. TypeOK'
      BY <2>1, <2>3, TornIsManifest DEF TypeOK, IInv
    <2>5. AllSound'
      BY <2>1, <2>2 DEF AllSound
    <2>6. Promised(manifest', records') /\ Promised(tmp', records')
      BY <2>1, TornPromises
    <2> QED BY <2>4, <2>5, <2>6 DEF IInv
  <1> QED BY <1>1, <1>2

\* A killed process is idle again.
LEMMA KillKeeps == ASSUME IInv, NEW p \in Processes, Kill(p) PROVE IInv'
  <1> USE OneProcess
  <1>1. /\ proc' = [proc EXCEPT ![p] = Idle] /\ UNCHANGED <<size, records, file, manifest, tmp>>
        /\ kills' \in 0 .. MaxKills
    BY BoundsAssumption DEF Kill
  <1> QED BY <1>1, IdleSound, StepInMemory

\* A longer log is further than any process has read.
LEMMA GrowKeeps == ASSUME IInv, Grow PROVE IInv'
  <1>1. /\ size \in Nat /\ size' \in 0 .. MaxSize /\ size' \in Nat /\ size <= size'
        /\ UNCHANGED <<records, file, manifest, tmp, proc, kills>>
    BY BoundsAssumption DEF IInv, TypeOK, Grow
  <1>2. TypeOK'
    BY <1>1 DEF IInv, TypeOK
  <1>3. AllSound'
    <2>1. Grown(records, records)
      BY DEF Grown
    <2>2. ASSUME NEW q \in Processes PROVE Sound(proc[q], records, size')
      BY <1>1, <2>1, OneProcess, SoundGrows
    <2> QED BY <1>1, <2>2 DEF AllSound
  <1>4. Promised(manifest', records') /\ Promised(tmp', records')
    BY <1>1 DEF IInv
  <1> QED BY <1>2, <1>3, <1>4 DEF IInv

----------------------------------------------------------------------------

(***************************************************************************)
(* The inductive invariant and what follows from it.                       *)
(***************************************************************************)

\* The first state.
LEMMA Initially == Init => IInv
  <1> SUFFICES ASSUME Init PROVE IInv
    OBVIOUS
  <1>1. size = 0 /\ size \in Nat
    BY DEF Init
  <1>2. TypeOK
    BY BoundsAssumption, IdleSound, <1>1, TornIsManifest DEF Init, TypeOK
  <1>3. AllSound
    BY <1>1, IdleSound DEF Init, AllSound
  <1> QED BY <1>2, <1>3, TornPromises DEF Init, IInv

\* Every step of every process.
LEMMA EachStepKeeps == IInv /\ [Next]_vars => IInv'
  <1> SUFFICES ASSUME IInv, [Next]_vars PROVE IInv'
    OBVIOUS
  <1>1. CASE Grow
    BY <1>1, GrowKeeps
  <1>2. ASSUME NEW p \in Processes, Kill(p) PROVE IInv'
    BY <1>2, KillKeeps
  <1>3. ASSUME NEW p \in Processes, Step(p) PROVE IInv'
    BY <1>3, CheckKeeps, HashKeeps, ReadManifestKeeps, ReadFingerprintsKeeps, ReadRowKeeps,
       ReadPieceKeeps, EndReadKeeps, WriteRecordKeeps, WriteHalfKeeps, WriteRestKeeps,
       CloseRecordsKeeps, OpenTemporaryKeeps, FillTemporaryKeeps, RenameTemporaryKeeps DEF Step
  <1>4. CASE UNCHANGED vars
    BY <1>4 DEF vars, IInv, TypeOK, AllSound
  <1> QED BY <1>1, <1>2, <1>3, <1>4 DEF Next

\* So the invariant holds always.
LEMMA Inductive == Spec => []IInv
  BY Initially, EachStepKeeps, PTL DEF Spec

\* Every reachable state has its type, with any number of processes over a log
\* of any length: no reader is past the end of what the log can hold, and no run
\* claims more new records than it has read lines.
THEOREM TypeCorrect == Spec => []TypeOK
  BY Inductive, PTL DEF IInv

\* A source in the manifest has been read up to the size it was hashed at, so
\* the refusal to ingest it "at this hash" again never hides a line
\* (ingest/run.py:111-121), whatever other processes and kills do to the window.
THEOREM EntryMeansReadHolds == Spec => []EntryMeansRead
  <1>1. IInv => EntryMeansRead
    <2> SUFFICES ASSUME IInv, NEW h \in manifest.entries, NEW k \in 1 .. (h \div 2)
                 PROVE  records[k] > 0
      BY DEF EntryMeansRead
    <2>1. h \in 0 .. MaxSize /\ MaxSize \in Nat
      BY BoundsAssumption DEF IInv, TypeOK, Manifests
    <2>2. k \in Lines /\ 2 * k <= h
      BY <2>1 DEF Lines
    <2> QED BY <2>2 DEF IInv, Promised, ReadUpTo
  <1> QED BY <1>1, Inductive, PTL

----------------------------------------------------------------------------
----------------------------------------------------------------------------
(***************************************************************************)
(* The counts.  What a process has read of the manifest and added to the   *)
(* file since is in the file; so is what it will claim, once its batch is  *)
(* out.                                                                    *)
(***************************************************************************)
\* How many records the file holds, as a function of how often each is in it.
Total(recs) ==
    LET copies[k \in 0 .. (MaxSize \div 2)] == IF k = 0 THEN 0 ELSE copies[k - 1] + recs[k]
    IN  copies[MaxSize \div 2]

\* The sum that recursion speaks of exists.
LEMMA SumExists ==
    ASSUME NEW recs \in [Lines -> Nat]
    PROVE  \E c \in [0 .. (MaxSize \div 2) -> Nat] :
             /\ c[0] = 0 /\ \A k \in Lines : c[k] = c[k - 1] + recs[k]
             /\ Total(recs) = c[MaxSize \div 2]
  <1> DEFINE N == MaxSize \div 2
             h == [d \in Nat \X Nat |-> d[2] + IF d[1] + 1 \in Lines THEN recs[d[1] + 1] ELSE 0]
             Sums(c) == c = [k \in 0 .. N |-> IF k = 0 THEN 0 ELSE c[k - 1] + recs[k]]
  <1>1. N \in Nat /\ Lines = 1 .. N
    BY BoundsAssumption DEF Lines
  <1>2. h \in [Nat \X Nat -> Nat]
    OBVIOUS
  <1> HIDE DEF N
  <1>3. PICK f \in [Nat -> Nat] : f[0] = 0 /\ \A n \in Nat : f[n + 1] = h[<<n, f[n]>>]
    <2> HIDE DEF h
    <2> HIDE DEF h
    <2>1. 0 \in Nat
      OBVIOUS
    <2>2. \E f \in [Nat -> Nat] : Continues(f, 0, h)
      BY <1>2, <2>1, Recursion
    <2> QED BY <2>2 DEF Continues
  <1>4. \A k \in Lines : f[k] = f[k - 1] + recs[k]
    <2> TAKE k \in Lines
    <2>1. k - 1 \in Nat /\ (k - 1) + 1 = k /\ f[k - 1] \in Nat
      BY <1>1
    <2>2. f[k] = h[<<k - 1, f[k - 1]>>]
      <3> HIDE DEF h
      <3>1. f[(k - 1) + 1] = h[<<k - 1, f[k - 1]>>]
        BY <1>3, <2>1
      <3> QED BY <2>1, <3>1
    <2> QED BY <2>1, <2>2
  <1>5. Sums([k \in 0 .. N |-> f[k]])
    <2>1. \A k \in 0 .. N : k = 0 \/ (k \in Lines /\ k # 0 /\ k - 1 \in 0 .. N)
      BY <1>1
    <2> QED BY <1>3, <1>4, <2>1
  <1> DEFINE c == CHOOSE x : Sums(x)
  <1>6. Sums(c)
    <2> HIDE DEF Sums
    <2> QED BY <1>5
  <1>7. Total(recs) = c[N]
    BY DEF Total, N
  <1> HIDE DEF c
  <1>8. DOMAIN c = 0 .. N /\ c[0] = 0 /\ \A k \in Lines : c[k] = c[k - 1] + recs[k]
    <2>1. 0 \in 0 .. N /\ \A k \in Lines : k \in 0 .. N /\ k # 0
      BY <1>1
    <2> HIDE DEF N
    <2> QED BY <1>6, <2>1
  <1>9. \A k \in 0 .. N : c[k] \in Nat
    <2> DEFINE G == {k \in Nat : k <= N => c[k] \in Nat}
    <2>1. 0 \in G
      BY <1>8
    <2>2. ASSUME NEW k \in Nat, k \in G PROVE k + 1 \in G
      <3> SUFFICES ASSUME k + 1 <= N PROVE c[k + 1] \in Nat
        OBVIOUS
      <3>1. k + 1 \in Lines /\ (k + 1) - 1 = k /\ c[k] \in Nat
        BY <1>1, <2>2
      <3>2. c[k + 1] = c[k] + recs[k + 1] /\ recs[k + 1] \in Nat
        BY <1>8, <3>1
      <3> QED BY <3>1, <3>2
    <2>3. \A k \in Nat : k \in G
      <3> HIDE DEF G
      <3> QED BY <2>1, <2>2, NumberInduction
    <2> QED BY <1>1, <2>3
  <1>10. c \in [0 .. N -> Nat]
    <2>1. c = [k \in 0 .. N |-> c[k]]
      BY <1>6
    <2> QED BY <1>9, <2>1
  <1> QED BY <1>7, <1>8, <1>10 DEF N

\* One record more is one more in all.
LEMMA TotalCounts ==
    ASSUME NEW recs \in [Lines -> Nat], NEW line \in Lines
    PROVE  /\ Total(recs) \in Nat
           /\ Total([recs EXCEPT ![line] = @ + 1]) = Total(recs) + 1
  <1> DEFINE N == MaxSize \div 2
             more == [recs EXCEPT ![line] = @ + 1]
  <1>1. N \in Nat /\ Lines = 1 .. N /\ more \in [Lines -> Nat]
        /\ \A k \in Lines : more[k] = IF k = line THEN recs[k] + 1 ELSE recs[k]
    BY BoundsAssumption DEF Lines
  <1> HIDE DEF more
  <1>2. PICK c \in [0 .. N -> Nat] : /\ c[0] = 0 /\ \A k \in Lines : c[k] = c[k - 1] + recs[k]
                                     /\ Total(recs) = c[N]
    BY SumExists
  <1>3. PICK d \in [0 .. N -> Nat] : /\ d[0] = 0 /\ \A k \in Lines : d[k] = d[k - 1] + more[k]
                                     /\ Total(more) = d[N]
    BY <1>1, SumExists
  <1> DEFINE G == {k \in Nat : k <= N => d[k] = IF k < line THEN c[k] ELSE c[k] + 1}
  <1>4. 0 \in G
    BY <1>1, <1>2, <1>3
  <1>5. ASSUME NEW k \in Nat, k \in G PROVE k + 1 \in G
    <2> SUFFICES ASSUME k + 1 <= N
                 PROVE  d[k + 1] = IF k + 1 < line THEN c[k + 1] ELSE c[k + 1] + 1
      OBVIOUS
    <2>1. /\ k + 1 \in Lines /\ k \in 0 .. N /\ (k + 1) - 1 = k
          /\ c[k] \in Nat /\ d[k] \in Nat /\ recs[k + 1] \in Nat /\ line \in Nat
      BY <1>1
    <2>2. c[k + 1] = c[k] + recs[k + 1] /\ d[k + 1] = d[k] + more[k + 1]
      BY <1>2, <1>3, <2>1
    <2>3. d[k] = IF k < line THEN c[k] ELSE c[k] + 1
      BY <1>1, <1>5, <2>1
    <2>4. more[k + 1] = IF k + 1 = line THEN recs[k + 1] + 1 ELSE recs[k + 1]
      BY <1>1, <2>1
    <2> QED BY <2>1, <2>2, <2>3, <2>4
  <1>6. \A k \in Nat : k \in G
    <2> HIDE DEF G
    <2> QED BY <1>4, <1>5, NumberInduction
  <1>7. Total(recs) \in Nat /\ Total(more) = Total(recs) + 1
    BY <1>1, <1>2, <1>3, <1>6
  <1> QED BY <1>7 DEF more

\* What a process has claimed, or will, is in the file or in its batch.
Counted(m, total) ==
    /\ m.existing.written + m.new <= total + Len(m.batch)
    /\ m.at \in After => m.batch = <<>>

CountInv ==
    /\ manifest.written <= Total(records)
    /\ tmp.written <= Total(records)
    /\ \A p \in Processes : Counted(proc[p], Total(records))

\* What is counted are numbers.
LEMMA CountedTypes ==
    ASSUME IInv, NEW p \in Processes
    PROVE  /\ proc[p].existing.written \in Nat /\ proc[p].new \in Nat
           /\ proc[p].batch \in Seq(Lines) /\ Len(proc[p].batch) \in Nat
           /\ Total(records) \in Nat /\ manifest.written \in Nat /\ tmp.written \in Nat
  <1>1. Total(records) \in Nat
    <2>1. PICK c \in [0 .. (MaxSize \div 2) -> Nat] : Total(records) = c[MaxSize \div 2]
      BY OneProcess, SumExists
    <2>2. MaxSize \div 2 \in 0 .. (MaxSize \div 2)
      BY BoundsAssumption
    <2> QED BY <2>1, <2>2
  <1> QED BY <1>1, OneProcess DEF Memory, Manifests

\* A step of one process, the window losing no record.
LEMMA CountStepOfOne ==
    ASSUME IInv, CountInv, NEW p \in Processes, NEW m,
           proc' = [proc EXCEPT ![p] = m],
           Total(records') \in Nat, Total(records) <= Total(records'),
           manifest'.written <= Total(records'), tmp'.written <= Total(records'),
           Counted(m, Total(records'))
    PROVE  CountInv'
  <1>1. ASSUME NEW q \in Processes PROVE Counted(proc'[q], Total(records'))
    <2>1. CASE q = p
      BY <2>1, OneProcess
    <2>2. CASE q # p
      <3>1. proc'[q] = proc[q] /\ Counted(proc[q], Total(records))
        BY <2>2, OneProcess DEF CountInv
      <3> QED BY <3>1, CountedTypes DEF Counted
    <2> QED BY <2>1, <2>2
  <1> QED BY <1>1 DEF CountInv

\* The same, of a step that leaves the window alone.
LEMMA CountStepInMemory ==
    ASSUME IInv, CountInv, NEW p \in Processes, NEW m,
           proc' = [proc EXCEPT ![p] = m], UNCHANGED <<records, manifest, tmp>>,
           Counted(m, Total(records))
    PROVE  CountInv'
  BY CountStepOfOne, CountedTypes DEF CountInv

\* A process without a run claims nothing.
LEMMA IdleCounts == \A total \in Nat : Counted(Idle, total)
  BY DEF Counted, Idle, Absent, After

\* Up to the end of the source a process claims what is in its batch.
LEMMA ReadingCounts ==
    ASSUME IInv, CountInv, NEW p \in Processes,
           Check(p) \/ Hash(p) \/ ReadManifest(p) \/ ReadFingerprints(p) \/ ReadPiece(p)
    PROVE  CountInv'
  <1> DEFINE hashed == [proc[p] EXCEPT !.hash = size,
                                       !.at = IF proc[p].append THEN "manifest" ELSE "read"]
             checked == [proc[p] EXCEPT !.at = "hash", !.append = WindowExists]
             known == [proc[p] EXCEPT !.existing = manifest, !.at = "fingerprints"]
             loaded == [proc[p] EXCEPT !.seen = {k \in Lines : records[k] > 0}, !.at = "read"]
             piece == [proc[p] EXCEPT !.pos = @ + 1]
  <1> USE CountedTypes, OneProcess
  <1>1. Counted(proc[p], Total(records))
    BY DEF CountInv
  <1>2. UNCHANGED <<records, manifest, tmp>>
    BY DEF Check, Hash, ReadManifest, ReadFingerprints, ReadPiece
  <1>3. CASE Check(p)
    <2>1. Counted(checked, Total(records))
      BY <1>1 DEF Counted, Memory, After
    <2> HIDE DEF checked
    <2> QED BY <1>2, <1>3, <2>1, CountStepInMemory DEF Check, checked
  <1>4. CASE Hash(p)
    <2>1. Counted(hashed, Total(records))
      BY <1>1 DEF Counted, Memory, After
    <2> QED BY <1>2, <1>4, <2>1, CountStepInMemory DEF Hash
  <1>5. CASE ReadManifest(p)
    <2>1. proc[p].new = 0 /\ proc[p].batch = <<>>
      BY <1>5 DEF ReadManifest, At, Sound, Before, Memory
    <2>2. Counted(known, Total(records))
      BY <2>1 DEF Counted, Memory, After, CountInv
    <2>3. proc' = [proc EXCEPT ![p] = Idle] \/ proc' = [proc EXCEPT ![p] = known]
      BY <1>5 DEF ReadManifest
    <2> HIDE DEF known
    <2> QED BY <1>2, <2>2, <2>3, IdleCounts, CountStepInMemory
  <1>6. CASE ReadFingerprints(p)
    <2>1. Counted(loaded, Total(records))
      BY <1>1 DEF Counted, Memory, After
    <2>2. proc' = [proc EXCEPT ![p] = Idle] \/ proc' = [proc EXCEPT ![p] = loaded]
      BY <1>6 DEF ReadFingerprints
    <2> HIDE DEF loaded
    <2> QED BY <1>2, <2>1, <2>2, IdleCounts, CountStepInMemory
  <1>7. CASE ReadPiece(p)
    <2>1. Counted(piece, Total(records))
      BY <1>1, <1>7 DEF Counted, Memory, ReadPiece, At, After
    <2> QED BY <1>2, <1>7, <2>1, CountStepInMemory DEF ReadPiece
  <1> QED BY <1>3, <1>4, <1>5, <1>6, <1>7

\* A new row is one more to claim and one more in the batch.
LEMMA ReadRowCounts == ASSUME IInv, CountInv, NEW p \in Processes, ReadRow(p) PROVE CountInv'
  <1> DEFINE k == proc[p].pos \div 2 + 1
             new == k \notin proc[p].seen
             m == [proc[p] EXCEPT !.pos = @ + 2, !.seen = @ \cup {k},
                                  !.batch = IF new THEN Append(@, k) ELSE @,
                                  !.new = IF new THEN @ + 1 ELSE @]
  <1> USE CountedTypes, OneProcess
  <1>1. proc' = [proc EXCEPT ![p] = m] /\ UNCHANGED <<records, manifest, tmp>>
    BY DEF ReadRow
  <1>2. k \in Lines /\ proc[p].at = "read"
    BY DEF ReadRow, At, WholeLine, Memory
  <1>3. /\ m.existing = proc[p].existing /\ m.at = "read"
        /\ m.batch = IF new THEN Append(proc[p].batch, k) ELSE proc[p].batch
        /\ m.new = IF new THEN proc[p].new + 1 ELSE proc[p].new
    BY <1>2 DEF Memory
  <1> HIDE DEF m, k, new
  <1>4. Len(Append(proc[p].batch, k)) = Len(proc[p].batch) + 1
    BY <1>2
  <1>5. Counted(proc[p], Total(records))
    BY DEF CountInv
  <1>6. m.existing.written + m.new <= Total(records) + Len(m.batch)
    <2>1. m.existing.written = proc[p].existing.written
      BY <1>3
    <2>2. \/ (m.new = proc[p].new + 1 /\ Len(m.batch) = Len(proc[p].batch) + 1)
          \/ (m.new = proc[p].new /\ Len(m.batch) = Len(proc[p].batch))
      BY <1>3, <1>4
    <2>3. /\ proc[p].existing.written \in Nat /\ proc[p].new \in Nat
          /\ Len(proc[p].batch) \in Nat /\ Total(records) \in Nat
      OBVIOUS
    <2>4. proc[p].existing.written + proc[p].new <= Total(records) + Len(proc[p].batch)
      BY <1>5 DEF Counted
    <2>5. \A a, b, t, l \in Nat : a + b <= t + l => a + (b + 1) <= t + (l + 1)
      OBVIOUS
    <2>6. proc[p].existing.written + (proc[p].new + 1) <= Total(records) + (Len(proc[p].batch) + 1)
      BY ONLY <2>3, <2>4, <2>5
    <2>7. CASE m.new = proc[p].new + 1 /\ Len(m.batch) = Len(proc[p].batch) + 1
      BY ONLY <2>1, <2>6, <2>7
    <2>8. CASE m.new = proc[p].new /\ Len(m.batch) = Len(proc[p].batch)
      BY ONLY <2>1, <2>4, <2>8
    <2> QED BY <2>2, <2>7, <2>8
  <1>7. Counted(m, Total(records))
    BY <1>3, <1>6 DEF Counted, After
  <1> QED BY <1>1, <1>7, CountStepInMemory

\* The writes move a record from the batch to the file.
LEMMA WritingCounts ==
    ASSUME IInv, CountInv, NEW p \in Processes,
           EndRead(p) \/ WriteRecord(p) \/ WriteHalf(p) \/ WriteRest(p) \/ CloseRecords(p)
    PROVE  CountInv'
  <1> DEFINE ended == [proc[p] EXCEPT !.at = "write"]
             half == [proc[p] EXCEPT !.at = "rest"]
             closed == [proc[p] EXCEPT !.at = "open"]
             b == proc[p].batch
             m == [proc[p] EXCEPT !.at = "write", !.batch = Tail(@)]
  <1> USE CountedTypes, OneProcess
  <1>1. Counted(proc[p], Total(records))
    BY DEF CountInv
  <1>2. CASE EndRead(p)
    <2>1. Counted(ended, Total(records))
      BY <1>1 DEF Counted, Memory, After
    <2>2. UNCHANGED <<records, manifest, tmp>>
          /\ (proc' = [proc EXCEPT ![p] = Idle] \/ proc' = [proc EXCEPT ![p] = ended])
      BY <1>2 DEF EndRead
    <2> HIDE DEF ended
    <2> QED BY <2>1, <2>2, IdleCounts, CountStepInMemory
  <1>3. CASE WriteHalf(p)
    <2>1. Counted(half, Total(records))
      BY <1>1 DEF Counted, Memory, After
    <2> QED BY <1>3, <2>1, CountStepInMemory DEF WriteHalf
  <1>4. CASE CloseRecords(p)
    <2>1. Counted(closed, Total(records))
      BY <1>1, <1>4 DEF Counted, Memory, CloseRecords
    <2> QED BY <1>4, <2>1, CountStepInMemory DEF CloseRecords
  <1>5. CASE WriteRecord(p) \/ WriteRest(p)
    <2>1. b # <<>>
      BY <1>5 DEF WriteRecord, WriteRest, At, Sound
    <2>2. /\ proc' = [proc EXCEPT ![p] = m] /\ manifest' = manifest /\ tmp' = tmp
          /\ records' = [records EXCEPT ![Head(b)] = @ + 1]
      BY <1>5 DEF WriteRecord, WriteRest, Written
    <2>3. Head(b) \in Lines /\ Len(Tail(b)) = Len(b) - 1
      BY <2>1
    <2>4. Total(records') = Total(records) + 1
      BY <2>2, <2>3, TotalCounts
    <2>5. m.existing = proc[p].existing /\ m.new = proc[p].new /\ m.batch = Tail(b) /\ m.at = "write"
      BY DEF Memory
    <2> HIDE DEF m, b
    <2>6. Counted(m, Total(records'))
      BY <1>1, <2>3, <2>4, <2>5 DEF Counted, After, b
    <2>7. /\ manifest'.written <= Total(records') /\ tmp'.written <= Total(records')
          /\ Total(records) <= Total(records') /\ Total(records') \in Nat
      BY <2>2, <2>4 DEF CountInv
    <2> QED BY ONLY <2>2, <2>6, <2>7, CountStepOfOne, IInv, CountInv, p \in Processes
  <1> QED BY <1>2, <1>3, <1>4, <1>5

\* What the manifest says is what it said, or what a process with nothing left
\* to write claims.
LEMMA ManifestCounts ==
    ASSUME IInv, CountInv, NEW p \in Processes,
           OpenTemporary(p) \/ FillTemporary(p) \/ RenameTemporary(p)
    PROVE  CountInv'
  <1> DEFINE opened == [proc[p] EXCEPT !.at = "fill", !.handle = "tmp"]
             filled == [proc[p] EXCEPT !.at = "rename"]
  <1> USE CountedTypes, OneProcess
  <1>1. Counted(proc[p], Total(records))
    BY DEF CountInv
  <1>2. CASE OpenTemporary(p)
    <2>1. Counted(opened, Total(records))
      BY <1>1, <1>2 DEF Counted, Memory, OpenTemporary, At, After
    <2> HIDE DEF opened
    <2>2. proc' = [proc EXCEPT ![p] = opened] /\ records' = records
          /\ manifest' = manifest /\ tmp' = Torn
      BY <1>2 DEF OpenTemporary, opened
    <2>3. manifest'.written <= Total(records') /\ tmp'.written <= Total(records')
      BY <2>2 DEF CountInv, Torn
    <2>4. Total(records') \in Nat /\ Total(records) <= Total(records')
      BY <2>2
    <2>5. Counted(opened, Total(records'))
      BY <2>1, <2>2
    <2> QED BY ONLY <2>2, <2>3, <2>4, <2>5, CountStepOfOne, IInv, CountInv, p \in Processes
  <1>3. CASE FillTemporary(p)
    <2>1. Counted(filled, Total(records))
      BY <1>1, <1>3 DEF Counted, Memory, FillTemporary, At, After
    <2>2. Merged(p).written <= Total(records) /\ Torn.written <= Total(records)
      <3>1. proc[p].batch = <<>>
        BY <1>1, <1>3 DEF Counted, FillTemporary, At, After
      <3> QED BY <1>1, <3>1 DEF Counted, Merged, Torn
    <2>3. \A old : Filled(p, old) \subseteq {Merged(p), Torn}
      BY DEF Filled
    <2>4. tmp' \in {Merged(p), Torn, tmp} /\ manifest' \in {Merged(p), Torn, manifest}
      BY <1>3, <2>3 DEF FillTemporary
    <2>5. tmp'.written <= Total(records) /\ manifest'.written <= Total(records)
      BY <2>2, <2>4 DEF CountInv
    <2>6. proc' = [proc EXCEPT ![p] = filled] /\ records' = records
      BY <1>3 DEF FillTemporary
    <2> HIDE DEF filled
    <2>7. /\ Total(records') \in Nat /\ Total(records) <= Total(records')
          /\ Counted(filled, Total(records'))
          /\ manifest'.written <= Total(records') /\ tmp'.written <= Total(records')
      BY <2>1, <2>5, <2>6
    <2> QED BY ONLY <2>6, <2>7, CountStepOfOne, IInv, CountInv, p \in Processes
  <1>4. CASE RenameTemporary(p)
    <2>1. CASE tmp.state = "absent"
      BY <1>4, <2>1, IdleCounts, CountStepInMemory DEF RenameTemporary
    <2>2. CASE tmp.state # "absent"
      <3>1. /\ manifest' = tmp /\ tmp' = Absent /\ records' = records
            /\ proc' = [q \in Processes |->
                          IF q = p THEN Idle ELSE [proc[q] EXCEPT !.handle = Moved(@)]]
        BY <1>4, <2>2 DEF RenameTemporary
      <3>2. ASSUME NEW q \in Processes PROVE Counted(proc'[q], Total(records))
        <4>1. CASE q = p
          BY <3>1, <4>1, IdleCounts
        <4>2. CASE q # p
          <5>1. Counted(proc[q], Total(records)) /\ proc[q] \in Memory
            BY DEF CountInv
          <5>2. proc'[q] = [proc[q] EXCEPT !.handle = Moved(proc[q].handle)]
            BY <3>1, <4>2
          <5> QED BY <5>1, <5>2 DEF Counted, Memory
        <4> QED BY <4>1, <4>2
      <3> QED BY <3>1, <3>2 DEF CountInv, Absent
    <2> QED BY <2>1, <2>2
  <1> QED BY <1>2, <1>3, <1>4

\* Every step keeps the claims covered.
LEMMA CountsKept == IInv /\ CountInv /\ [Next]_vars => CountInv'
  <1> SUFFICES ASSUME IInv, CountInv, [Next]_vars PROVE CountInv'
    OBVIOUS
  <1>1. CASE Grow \/ UNCHANGED vars
    BY <1>1 DEF Grow, vars, CountInv
  <1>2. ASSUME NEW p \in Processes, Kill(p) PROVE CountInv'
    BY <1>2, IdleCounts, CountedTypes, CountStepInMemory DEF Kill
  <1>3. ASSUME NEW p \in Processes, Step(p) PROVE CountInv'
    BY <1>3, ReadingCounts, ReadRowCounts, WritingCounts, ManifestCounts DEF Step
  <1> QED BY <1>1, <1>2, <1>3 DEF Next

\* The manifest that survives a race may have lost the other run's counts; it
\* never claims more records than are in the file (store.py:100-135, 203-210).
THEOREM CountsNeverAheadHolds == Spec => []CountsNeverAhead
  <1>1. Init => CountInv
    <2> SUFFICES ASSUME Init PROVE CountInv
      OBVIOUS
    <2>1. Total(records) \in Nat
      <3>1. records \in [Lines -> Nat] /\ MaxSize \div 2 \in 0 .. (MaxSize \div 2)
        BY BoundsAssumption DEF Init
      <3> QED BY <3>1, SumExists
    <2> QED BY <2>1, IdleCounts DEF Init, CountInv, Absent
  <1>2. CountInv => CountsNeverAhead
    <2>1. Copies[MaxSize \div 2] = Total(records)
      BY DEF Copies, Total
    <2> QED BY <2>1 DEF CountInv, CountsNeverAhead
  <1> QED BY <1>1, <1>2, CountsKept, Inductive, PTL DEF Spec
============================================================================
