--------------------------- MODULE GoldensProofs ---------------------------
(***************************************************************************)
(* Proofs about Goldens, for every set of records, every slugging of their *)
(* ids, every shortlist and every number of commands and kills.            *)
(***************************************************************************)
EXTENDS Goldens, SequenceTheorems, Induction

\* The goldens file is a sequence, of whatever the candidates file put in it.
GoldensSeq == \E S : goldens \in Seq(S)

\* What protects the goldens: see GoldenIdsUnique and NoPlaceholderAdopted.
GoldensInv == GoldensSeq /\ GoldenIdsUnique /\ NoPlaceholderAdopted

\* A function on 1 .. n is a sequence of n elements.
LEMMA FunctionIsSeq ==
    ASSUME NEW T, NEW n \in Nat, NEW f \in [1 .. n -> T]
    PROVE  f \in Seq(T) /\ Len(f) = n
<1>1. f \in Seq(T)
  BY SeqDef
<1>2. 1 .. Len(f) = 1 .. n /\ Len(f) \in Nat
  BY <1>1, LenProperties
<1> QED
  BY <1>1, <1>2

\* The goldens after a promotion: what was there, and then one case for each
\* id named, none of them a placeholder, no id twice.
LEMMA AdoptedProperties ==
    ASSUME GoldensSeq, NEW ids \in Wanted, Promotable(ids)
    PROVE  /\ \E S : Adopted(ids) \in Seq(S)
           /\ Cardinality(Ids(Adopted(ids))) = Len(Adopted(ids))
           /\ Len(Adopted(ids)) > Len(goldens)
           /\ SubSeq(Adopted(ids), 1, Len(goldens)) = goldens
           /\ \A k \in DOMAIN Adopted(ids) :
                \/ k \in DOMAIN goldens /\ Adopted(ids)[k] = goldens[k]
                \/ Adopted(ids)[k].by # "dry run"
<1> DEFINE new == [k \in DOMAIN ids |-> [id |-> ids[k], by |-> Named(ids[k]).by]]
<1>1. PICK S : goldens \in Seq(S)
  BY DEF GoldensSeq
<1> DEFINE T == S \cup {new[k] : k \in DOMAIN ids}
<1>2. goldens \in Seq(T)
  BY <1>1, SeqMonotonic, S \subseteq T
<1>3. PICK n \in 1 .. 2 : ids \in [1 .. n -> CaseIds]
  BY DEF Wanted
<1>4. n \in Nat /\ n > 0 /\ DOMAIN ids = 1 .. n
  BY <1>3
<1>5. new \in [1 .. n -> T]
  BY <1>4
<1>6. new \in Seq(T) /\ Len(new) = n
  BY <1>4, <1>5, FunctionIsSeq
<1>7. Adopted(ids) = goldens \o new
  BY DEF Adopted
<1>8. \A k \in DOMAIN ids : new[k].by # "dry run"
  BY DEF Promotable, Placeholder
<1> HIDE DEF new, T
<1>9. /\ goldens \o new \in Seq(T)
      /\ Len(goldens \o new) = Len(goldens) + Len(new)
      /\ \A k \in 1 .. Len(goldens) + Len(new) :
            (goldens \o new)[k] = IF k <= Len(goldens) THEN goldens[k] ELSE new[k - Len(goldens)]
  BY <1>2, <1>6, ConcatProperties
<1>10. Len(goldens) \in Nat /\ DOMAIN goldens = 1 .. Len(goldens)
  BY <1>2, LenProperties
<1>11. Len(Adopted(ids)) > Len(goldens)
  BY <1>4, <1>6, <1>7, <1>9, <1>10
<1>12. SubSeq(Adopted(ids), 1, Len(goldens)) = goldens
  BY <1>2, <1>6, <1>7, SubSeqOfConcat1, ConcatSimplifications, <1>9, <1>10
<1>13. \A k \in DOMAIN Adopted(ids) :
         \/ k \in DOMAIN goldens /\ Adopted(ids)[k] = goldens[k]
         \/ Adopted(ids)[k].by # "dry run"
  <2> TAKE k \in DOMAIN Adopted(ids)
  <2>1. k \in 1 .. Len(goldens) + n
    BY <1>6, <1>7, <1>9, LenProperties
  <2>2. CASE k <= Len(goldens)
    <3>1. Adopted(ids)[k] = goldens[k]
      BY <2>1, <2>2, <1>6, <1>7, <1>9
    <3>2. k \in DOMAIN goldens
      BY <2>1, <2>2, <1>4, <1>10
    <3> QED
      BY <3>1, <3>2
  <2>3. CASE k > Len(goldens)
    <3>1. Adopted(ids)[k] = new[k - Len(goldens)]
      BY <2>1, <2>3, <1>4, <1>6, <1>7, <1>9, <1>10
    <3>2. k - Len(goldens) \in 1 .. n
      BY <2>1, <2>3, <1>4, <1>10
    <3> QED
      BY <3>1, <3>2, <1>4, <1>8
  <2>4. k <= Len(goldens) \/ k > Len(goldens)
    BY <2>1, <1>4, <1>10
  <2> QED
    BY <2>2, <2>3, <2>4
<1>14. Cardinality(Ids(Adopted(ids))) = Len(Adopted(ids))
  BY DEF Promotable, Loads
<1> QED
  BY <1>7, <1>9, <1>11, <1>12, <1>13, <1>14

\* Every action but a promotion leaves the goldens file alone.
LEMMA OnlyPromoteWrites ==
    ASSUME [Next]_vars
    PROVE  \/ goldens' = goldens
           \/ \E ids \in Wanted : Promote(ids)
<1>1. CASE UNCHANGED vars
  BY <1>1 DEF vars, disk
<1>2. CASE Next
  BY <1>2 DEF Next, Select, RefuseLabel, StartLabel, Draft, WriteLabels, RefuseEmit, StartEmit,
      WriteYaml, WriteReview, RefusePromote, HandWrite, Kill, Rest, RefuseCommand, vars, disk
<1> QED
  BY <1>1, <1>2

\* An action keeps what protects the goldens.
LEMMA GoldensKept ==
    ASSUME GoldensInv, [Next]_vars
    PROVE  GoldensInv'
<1>1. CASE goldens' = goldens
  BY <1>1 DEF GoldensInv, GoldensSeq, GoldenIdsUnique, NoPlaceholderAdopted, Ids
<1>2. ASSUME NEW ids \in Wanted, Promote(ids)
      PROVE  GoldensInv'
  <2>1. Promotable(ids) /\ goldens' = Adopted(ids)
    BY <1>2 DEF Promote
  <2>2. GoldensSeq /\ NoPlaceholderAdopted
    BY DEF GoldensInv
  <2>3. GoldensSeq'
    BY <2>1, <2>2, AdoptedProperties DEF GoldensSeq
  <2>4. GoldenIdsUnique'
    <3>1. Cardinality(Ids(Adopted(ids))) = Len(Adopted(ids))
      BY <2>1, <2>2, AdoptedProperties
    <3> QED
      BY <2>1, <3>1 DEF GoldenIdsUnique, Ids
  <2>5. NoPlaceholderAdopted'
    <3>1. \A k \in DOMAIN Adopted(ids) :
             \/ k \in DOMAIN goldens /\ Adopted(ids)[k] = goldens[k]
             \/ Adopted(ids)[k].by # "dry run"
      BY <2>1, <2>2, AdoptedProperties
    <3> QED
      BY <2>1, <2>2, <3>1 DEF NoPlaceholderAdopted
  <2> QED
    BY <2>3, <2>4, <2>5 DEF GoldensInv
<1> QED
  BY <1>1, <1>2, OnlyPromoteWrites

\* The goldens a project may already have are a dataset its loader takes.
LEMMA GoldensInit ==
    ASSUME Init
    PROVE  GoldensInv
<1>1. PICK ids \in Standing : goldens = [k \in DOMAIN ids |-> [id |-> ids[k], by |-> "before"]]
  BY DEF Init
<1>2. /\ ids \in Seq(CaseIds)
      /\ Cardinality({ids[k] : k \in DOMAIN ids}) = Len(ids)
  BY StandingAssumption
<1>3. DOMAIN ids = 1 .. Len(ids) /\ Len(ids) \in Nat
  BY <1>2, LenProperties
<1>4. goldens \in [1 .. Len(ids) -> [id : CaseIds, by : {"before"}]]
  BY <1>1, <1>2, <1>3, ElementOfSeq
<1>5. goldens \in Seq([id : CaseIds, by : {"before"}]) /\ Len(goldens) = Len(ids)
  BY <1>3, <1>4, FunctionIsSeq
<1>6. Ids(goldens) = {ids[k] : k \in DOMAIN ids}
  BY <1>1 DEF Ids
<1>7. \A k \in DOMAIN goldens : goldens[k].by # "dry run"
  BY <1>1
<1> QED
  BY <1>2, <1>5, <1>6, <1>7 DEF GoldensInv, GoldensSeq, GoldenIdsUnique, NoPlaceholderAdopted

\* The goldens file is protected in every reachable state.
LEMMA GoldensAlways == Spec => []GoldensInv
<1>1. Init => GoldensInv
  BY GoldensInit
<1>2. GoldensInv /\ [Next]_vars => GoldensInv'
  BY GoldensKept
<1> QED
  BY <1>1, <1>2, PTL DEF Spec

\* No id twice in the goldens file, whatever is labelled, emitted and promoted
\* in whatever order: promote's own checks suffice (src/loghog/emit/promote.py).
THEOREM GoldenIdsAlwaysUnique == Spec => []GoldenIdsUnique
<1>1. GoldensInv => GoldenIdsUnique
  BY DEF GoldensInv
<1> QED
  BY <1>1, GoldensAlways, PTL

\* No case whose criteria a dry run wrote is ever in the goldens file.
THEOREM NoPlaceholderEverAdopted == Spec => []NoPlaceholderAdopted
<1>1. GoldensInv => NoPlaceholderAdopted
  BY DEF GoldensInv
<1> QED
  BY <1>1, GoldensAlways, PTL

\* The goldens file only grows, at its end, and only by a promotion.
THEOREM GoldensOnlyEverGrow == Spec => GoldensOnlyGrow
<1> DEFINE Grow == goldens' # goldens =>
                     /\ Len(goldens') > Len(goldens)
                     /\ SubSeq(goldens', 1, Len(goldens)) = goldens
                     /\ last' = "promote" /\ exit' = "ok"
<1>1. GoldensInv /\ [Next]_vars => [Grow]_vars
  <2> SUFFICES ASSUME GoldensInv, [Next]_vars PROVE Grow
    OBVIOUS
  <2>1. CASE goldens' = goldens
    BY <2>1
  <2>2. ASSUME NEW ids \in Wanted, Promote(ids)
        PROVE  Grow
    <3>1. Promotable(ids) /\ goldens' = Adopted(ids) /\ last' = "promote" /\ exit' = "ok"
      BY <2>2 DEF Promote, Type, End
    <3> QED
      BY <3>1, AdoptedProperties DEF GoldensInv
  <2> QED
    BY <2>1, <2>2, OnlyPromoteWrites
<1>2. Spec => [][GoldensInv /\ [Next]_vars]_vars
  BY GoldensAlways, PTL DEF Spec
<1> QED
  BY <1>1, GoldensAlways, PTL DEF Spec, GoldensOnlyGrow
----------------------------------------------------------------------------
(***************************************************************************)
(* One call for each candidate.  In the middle of a run the labels so far  *)
(* are about the first rows of the shortlist, and the rows to come are its *)
(* others; between runs nothing but a select changes the shortlist.        *)
(***************************************************************************)
RowsInv ==
    /\ candidates.rows \in Seq(Records)
    /\ todo \in Seq(Records)
    /\ batch \in Seq(Label)
    /\ calls \in Nat /\ calls <= MaxCalls

DraftInv ==
    pc = "draft" =>
        /\ last = "label"
        /\ Len(candidates.rows) <= MaxCalls
        /\ calls = Len(batch)
        /\ calls + Len(todo) = Len(candidates.rows)
        /\ \A k \in 1 .. Len(batch) : batch[k].rec = candidates.rows[k]
        /\ \A k \in 1 .. Len(todo) : todo[k] = candidates.rows[Len(batch) + k]

SettledInv ==
    last = "label" /\ exit # "killed" /\ exit # "refused" /\ pc = "idle" =>
        /\ calls = Len(candidates.rows)
        /\ [k \in DOMAIN labels.rows |-> labels.rows[k].rec] = candidates.rows

CallsInv == RowsInv /\ DraftInv /\ SettledInv

\* What a kill leaves of a file of rows is rows.
LEMMA CutRows ==
    ASSUME NEW T, NEW rows \in Seq(T), NEW f \in Cut(rows)
    PROVE  f.rows \in Seq(T)
<1>1. PICK n \in 0 .. Len(rows) : f.rows = SubSeq(rows, 1, n)
  BY DEF Cut
<1>2. Len(rows) \in Nat
  BY LenProperties
<1>3. \A m \in 1 .. n : rows[m] \in T
  BY <1>2, LenProperties
<1> QED
  BY <1>1, <1>2, <1>3, SubSeqProperties

\* select: the shortlist is replaced, and the last command is not label.
LEMMA SelectCalls ==
    ASSUME CallsInv, NEW rows \in Shortlists, Select(rows)
    PROVE  CallsInv'
<1>1. rows \in Seq(Records)
  BY ShortlistsAssumption
<1>2. /\ todo' = todo /\ batch' = batch /\ calls' = calls
      /\ pc' = "idle" /\ last' = "select"
      /\ candidates' = Whole(rows) \/ candidates' \in Cut(rows)
  BY DEF Select, Type, End, memory
<1>3. candidates'.rows \in Seq(Records)
  BY <1>1, <1>2, CutRows DEF Whole
<1> QED
  BY <1>2, <1>3 DEF CallsInv, RowsInv, DraftInv, SettledInv

\* The first moment of a run of label: nothing drafted, everything to do.
LEMMA StartCalls ==
    ASSUME CallsInv, NEW d \in BOOLEAN, StartLabel(d)
    PROVE  CallsInv'
<1>1. /\ candidates' = candidates /\ todo' = candidates.rows /\ batch' = << >> /\ calls' = 0
      /\ pc' = "draft" /\ last' = "label"
  BY DEF StartLabel, Type, disk
<1>2. candidates.rows \in Seq(Records) /\ Len(candidates.rows) \in Nat
  BY LenProperties DEF CallsInv, RowsInv
<1>3. Len(candidates.rows) <= MaxCalls
  BY <1>2, BoundsAssumption DEF StartLabel, LabelRefused
<1>4. << >> \in Seq(Label) /\ Len(<< >>) = 0
  BY EmptySeq
<1>5. RowsInv'
  BY <1>1, <1>2, <1>4, BoundsAssumption DEF RowsInv
<1>6. \A k \in 1 .. Len(candidates.rows) : candidates.rows[k] = candidates.rows[0 + k]
  BY <1>2
<1>7. DraftInv'
  BY <1>1, <1>2, <1>3, <1>4, <1>6 DEF DraftInv
<1>8. SettledInv'
  BY <1>1 DEF SettledInv
<1> QED
  BY <1>5, <1>7, <1>8 DEF CallsInv

\* One row moves from what is to do to what is done.
LEMMA OneStep ==
    ASSUME NEW done \in Nat, NEW left \in Nat, NEW n \in Nat, done + left = n
    PROVE  (done + 1) + (left - 1) = n
OBVIOUS

\* One call: the first row to do becomes the last row done.
LEMMA DraftCalls ==
    ASSUME CallsInv, Draft
    PROVE  CallsInv'
<1>1. PICK l : /\ l \in [rec : {Head(todo)}, drafted : BOOLEAN, by : {"dry run", "model"}]
               /\ batch' = Append(batch, l)
  BY DEF Draft
<1>2. /\ candidates' = candidates /\ todo' = Tail(todo) /\ calls' = calls + 1
      /\ pc = "draft" /\ pc' = "draft" /\ last' = last /\ todo # << >>
  BY DEF Draft, disk
<1>3. /\ candidates.rows \in Seq(Records) /\ todo \in Seq(Records) /\ batch \in Seq(Label)
      /\ calls \in Nat
  BY DEF CallsInv, RowsInv
<1>4. /\ last = "label" /\ Len(candidates.rows) <= MaxCalls
      /\ calls = Len(batch) /\ calls + Len(todo) = Len(candidates.rows)
      /\ \A k \in 1 .. Len(batch) : batch[k].rec = candidates.rows[k]
      /\ \A k \in 1 .. Len(todo) : todo[k] = candidates.rows[Len(batch) + k]
  BY <1>2 DEF CallsInv, DraftInv
<1>5. /\ Head(todo) \in Records /\ Tail(todo) \in Seq(Records)
      /\ Len(Tail(todo)) = Len(todo) - 1
      /\ \A k \in 1 .. Len(Tail(todo)) : Tail(todo)[k] = todo[k + 1]
  BY <1>2, <1>3, HeadTailProperties
<1>6. Len(todo) \in Nat /\ Len(batch) \in Nat /\ Len(candidates.rows) \in Nat /\ Len(todo) > 0
  BY <1>2, <1>3, LenProperties, EmptySeq
<1>7. Head(todo) = todo[1]
  BY <1>2, <1>3
<1>8. l \in Label /\ l.rec = todo[1]
  BY <1>1, <1>5, <1>7 DEF Label, Authors
<1>9. /\ batch' \in Seq(Label)
      /\ Len(batch') = Len(batch) + 1
      /\ \A k \in 1 .. Len(batch) + 1 :
           batch'[k] = IF k <= Len(batch) THEN batch[k] ELSE l
  <2>1. /\ Append(batch, l) \in Seq(Label)
        /\ Len(Append(batch, l)) = Len(batch) + 1
        /\ \A k \in 1 .. Len(batch) : Append(batch, l)[k] = batch[k]
        /\ Append(batch, l)[Len(batch) + 1] = l
    BY <1>3, <1>8, AppendProperties
  <2>2. ASSUME NEW k \in 1 .. Len(batch) + 1
        PROVE  Append(batch, l)[k] = IF k <= Len(batch) THEN batch[k] ELSE l
    <3>1. CASE k = Len(batch) + 1
      BY <3>1, <2>1, <1>6
    <3>2. CASE k # Len(batch) + 1
      <4>1. k \in 1 .. Len(batch) /\ k <= Len(batch)
        BY <3>2, <1>6
      <4> QED
        BY <4>1, <2>1
    <3> QED
      BY <3>1, <3>2
  <2> QED
    BY <2>1, <2>2, <1>1
<1>10. calls + 1 <= MaxCalls
  BY <1>3, <1>4, <1>6, BoundsAssumption
<1>11. RowsInv'
  BY <1>2, <1>3, <1>5, <1>9, <1>10 DEF RowsInv
<1>12. todo[1] = candidates.rows[Len(batch) + 1]
  BY <1>4, <1>6
<1>13. \A k \in 1 .. Len(batch') : batch'[k].rec = candidates.rows[k]
  <2> TAKE k \in 1 .. Len(batch')
  <2>1. CASE k = Len(batch) + 1
    BY <2>1, <1>6, <1>8, <1>9, <1>12
  <2>2. CASE k # Len(batch) + 1
    <3>1. k \in 1 .. Len(batch)
      BY <2>2, <1>6, <1>9
    <3>2. batch'[k] = batch[k]
      BY <3>1, <1>6, <1>9
    <3> QED
      BY <3>1, <3>2, <1>4
  <2> QED
    BY <2>1, <2>2
<1>14. \A k \in 1 .. Len(Tail(todo)) : Tail(todo)[k] = candidates.rows[Len(batch') + k]
  <2> TAKE k \in 1 .. Len(Tail(todo))
  <2>1. k + 1 \in 1 .. Len(todo)
    BY <1>5, <1>6
  <2>2. todo[k + 1] = candidates.rows[Len(batch) + (k + 1)]
    BY <2>1, <1>4
  <2>3. Len(batch) + (k + 1) = Len(batch') + k
    BY <1>5, <1>6, <1>9
  <2> QED
    BY <2>2, <2>3, <1>5
<1>15. calls + 1 = Len(batch') /\ (calls + 1) + Len(Tail(todo)) = Len(candidates.rows)
  <2>1. calls = Len(batch) /\ calls + Len(todo) = Len(candidates.rows)
    BY <1>4
  <2>2. Len(Tail(todo)) = Len(todo) - 1 /\ Len(batch') = Len(batch) + 1
    BY <1>5, <1>9
  <2>3. (calls + 1) + (Len(todo) - 1) = Len(candidates.rows)
    BY <2>1, <1>3, <1>6, OneStep
  <2>4. calls + 1 = Len(batch')
    BY ONLY <2>1, <2>2
  <2> QED
    BY ONLY <2>2, <2>3, <2>4
<1>16. DraftInv'
  BY <1>2, <1>4, <1>13, <1>14, <1>15 DEF DraftInv
<1>17. SettledInv'
  BY <1>2 DEF SettledInv
<1> QED
  BY <1>11, <1>16, <1>17 DEF CallsInv

\* The end of a run: every row has its label, in the order of the shortlist.
LEMMA WriteCalls ==
    ASSUME CallsInv, WriteLabels
    PROVE  CallsInv'
<1>1. /\ candidates' = candidates /\ todo' = todo /\ batch' = batch /\ calls' = calls
      /\ labels'.rows = batch /\ pc = "draft" /\ pc' = "idle" /\ todo = << >>
  BY DEF WriteLabels, memory, Whole, End
<1>2. candidates.rows \in Seq(Records) /\ batch \in Seq(Label) /\ calls \in Nat
  BY DEF CallsInv, RowsInv
<1>3. /\ calls = Len(batch) /\ calls + Len(todo) = Len(candidates.rows)
      /\ \A k \in 1 .. Len(batch) : batch[k].rec = candidates.rows[k]
  BY <1>1 DEF CallsInv, DraftInv
<1>4. Len(batch) = Len(candidates.rows) /\ calls = Len(candidates.rows)
  <2>1. Len(todo) = 0
    BY <1>1, EmptySeq
  <2>2. Len(batch) \in Nat
    BY <1>2, LenProperties
  <2> QED
    BY <2>1, <2>2, <1>3
<1>5. /\ DOMAIN batch = 1 .. Len(batch)
      /\ candidates.rows \in [1 .. Len(batch) -> Records]
  BY <1>2, <1>4, LenProperties
<1>6. [k \in DOMAIN batch |-> batch[k].rec] = candidates.rows
  BY <1>3, <1>5
<1>7. RowsInv'
  BY <1>1 DEF CallsInv, RowsInv
<1>8. DraftInv'
  BY <1>1 DEF DraftInv
<1>9. SettledInv'
  BY <1>1, <1>4, <1>6 DEF SettledInv
<1> QED
  BY <1>7, <1>8, <1>9 DEF CallsInv

\* Every other step: the shortlist and the drafts stay, and the run is over or
\* another command's.
LEMMA OtherCalls ==
    ASSUME CallsInv,
           UNCHANGED <<candidates, todo, batch, calls>>,
           \/ pc' # "draft" /\ (last' # "label" \/ exit' \in {"killed", "refused"} \/ pc' # "idle")
           \/ UNCHANGED <<pc, last, exit, labels>>
    PROVE  CallsInv'
<1>1. RowsInv'
  BY DEF CallsInv, RowsInv
<1>2. DraftInv'
  BY DEF CallsInv, DraftInv
<1>3. SettledInv'
  BY DEF CallsInv, SettledInv
<1> QED
  BY <1>1, <1>2, <1>3 DEF CallsInv

\* An emit writes its files only while an emit runs.
EmitRuns == pc \in {"yaml", "review"} => last = "emit"

\* Every step keeps it.
LEMMA EmitRunsKept ==
    ASSUME EmitRuns, [Next]_vars
    PROVE  EmitRuns'
<1>1. CASE UNCHANGED vars
  BY <1>1 DEF EmitRuns, vars
<1>2. CASE Next
  BY <1>2 DEF Next, EmitRuns, Select, RefuseLabel, StartLabel, Draft, WriteLabels, RefuseEmit,
      StartEmit, WriteYaml, WriteReview, RefusePromote, Promote, HandWrite, Kill, Rest,
      RefuseCommand, Type, End, vars
<1> QED
  BY <1>1, <1>2

\* Every step keeps the count of calls.
LEMMA CallsKept ==
    ASSUME CallsInv, EmitRuns, [Next]_vars
    PROVE  CallsInv'
<1>1. CASE UNCHANGED vars
  BY <1>1, OtherCalls DEF vars, disk, memory
<1>2. ASSUME NEW rows \in Shortlists, Select(rows) PROVE CallsInv'
  BY <1>2, SelectCalls
<1>3. CASE RefuseLabel
  BY <1>3, OtherCalls DEF RefuseLabel, RefuseCommand, Type, End, disk, memory
<1>4. ASSUME NEW d \in BOOLEAN, StartLabel(d) PROVE CallsInv'
  BY <1>4, StartCalls
<1>5. CASE Draft
  BY <1>5, DraftCalls
<1>6. CASE WriteLabels
  BY <1>6, WriteCalls
<1>7. CASE RefuseEmit
  BY <1>7, OtherCalls DEF RefuseEmit, RefuseCommand, Type, End, disk, memory
<1>8. CASE StartEmit
  BY <1>8, OtherCalls DEF StartEmit, Type, disk, memory
<1>9. CASE WriteYaml
  BY <1>9, OtherCalls DEF WriteYaml, memory
<1>10. CASE WriteReview
  BY <1>10, OtherCalls DEF WriteReview, EmitRuns, End, memory
<1>11. ASSUME NEW ids \in Wanted, RefusePromote(ids) \/ Promote(ids) PROVE CallsInv'
  BY <1>11, OtherCalls DEF RefusePromote, Promote, RefuseCommand, Type, End, disk, memory
<1>12. CASE HandWrite
  BY <1>12, OtherCalls DEF HandWrite, memory
<1>13. CASE Kill
  BY <1>13, OtherCalls DEF Kill, End, memory
<1>14. CASE Rest
  BY <1>14, OtherCalls DEF Rest, vars, disk, memory
<1> QED
  BY <1>1, <1>2, <1>3, <1>4, <1>5, <1>6, <1>7, <1>8, <1>9, <1>10, <1>11, <1>12, <1>13, <1>14
     DEF Next

\* Exactly one call for each candidate and never more than the budget, in every
\* run of label and whatever is killed (label_window, src/loghog/label/run.py).
THEOREM OneCallForEach == Spec => []OneCallEach
<1>1. Init => CallsInv /\ EmitRuns
  <2> SUFFICES ASSUME Init PROVE CallsInv /\ EmitRuns
    OBVIOUS
  <2>1. /\ candidates.rows = << >> /\ todo = << >> /\ batch = << >> /\ calls = 0
        /\ pc = "idle" /\ last = "none"
    BY DEF Init, Absent
  <2>2. << >> \in Seq(Records) /\ << >> \in Seq(Label)
    BY EmptySeq
  <2> QED
    BY <2>1, <2>2, BoundsAssumption DEF CallsInv, RowsInv, DraftInv, SettledInv, EmitRuns
<1>2. CallsInv /\ EmitRuns /\ [Next]_vars => (CallsInv /\ EmitRuns)'
  BY CallsKept, EmitRunsKept
<1>3. CallsInv => OneCallEach
  BY DEF CallsInv, RowsInv, DraftInv, SettledInv, OneCallEach
<1> QED
  BY <1>1, <1>2, <1>3, PTL DEF Spec
----------------------------------------------------------------------------
(***************************************************************************)
(* The labels with a draft and those without one.                          *)
(***************************************************************************)
LEMMA PickedBySteps ==
    ASSUME NEW ls \in Seq(Label), NEW b \in BOOLEAN
    PROVE  \E c : /\ Picked(ls, b) = c[Len(ls)]
                  /\ c[0] = << >>
                  /\ \A k \in 1 .. Len(ls) :
                       c[k] = IF ls[k].drafted = b THEN Append(c[k - 1], ls[k]) ELSE c[k - 1]
<1> DEFINE N == Len(ls)
           h == [d \in Nat \X Seq(Label) |->
                   IF d[1] + 1 \in 1 .. N /\ ls[d[1] + 1].drafted = b
                   THEN Append(d[2], ls[d[1] + 1]) ELSE d[2]]
           Picks(c) == c = [k \in 0 .. N |->
                   IF k = 0 THEN << >>
                   ELSE IF ls[k].drafted = b THEN Append(c[k - 1], ls[k]) ELSE c[k - 1]]
           d == CHOOSE c : Picks(c)
<1>1. N \in Nat /\ \A k \in 1 .. N : ls[k] \in Label
  BY LenProperties
<1>2. h \in [Nat \X Seq(Label) -> Seq(Label)]
  BY <1>1
<1>3. Picked(ls, b) = d[N]
  BY DEF Picked
<1>4. PICK f \in [Nat -> Seq(Label)] : f[0] = << >> /\ \A n \in Nat : f[n + 1] = h[<<n, f[n]>>]
  <2> HIDE DEF h
  <2>1. << >> \in Seq(Label)
    OBVIOUS
  <2>2. \E f \in [Nat -> Seq(Label)] : Continues(f, << >>, h)
    BY <1>2, <2>1, Recursion
  <2> QED
    BY <2>2 DEF Continues
<1> HIDE DEF N, d
<1>5. \A k \in 1 .. N : f[k] = IF ls[k].drafted = b THEN Append(f[k - 1], ls[k]) ELSE f[k - 1]
  <2> TAKE k \in 1 .. N
  <2>1. k - 1 \in Nat /\ (k - 1) + 1 = k /\ f[k - 1] \in Seq(Label)
    BY <1>1
  <2>2. f[(k - 1) + 1] = h[<<k - 1, f[k - 1]>>]
    <3> HIDE DEF h
    <3> QED
      BY <1>4, <2>1
  <2> QED
    BY <2>1, <2>2
<1>6. \A k \in 0 .. N : k = 0 \/ (k \in 1 .. N /\ k # 0 /\ k - 1 \in 0 .. N)
  BY <1>1
<1>7. Picks([k \in 0 .. N |-> f[k]])
  <2> HIDE DEF h
  <2> QED
    BY <1>4, <1>5, <1>6
<1>8. Picks(d)
  <2> HIDE DEF Picks
  <2> QED
    BY <1>7 DEF d
<1>9. d[0] = << >>
  <2>1. 0 \in 0 .. N
    BY <1>1
  <2> QED
    BY <1>8, <2>1
<1>10. \A k \in 1 .. N : d[k] = IF ls[k].drafted = b THEN Append(d[k - 1], ls[k]) ELSE d[k - 1]
  <2>1. \A k \in 1 .. N : k \in 0 .. N /\ k # 0
    BY <1>1
  <2> QED
    BY <1>8, <2>1
<1> QED
  BY <1>3, <1>9, <1>10 DEF N

\* What is picked is labels of that kind, of the list and nothing else.
LEMMA PickedOfList ==
    ASSUME NEW ls \in Seq(Label), NEW b \in BOOLEAN
    PROVE  Picked(ls, b) \in Seq({l \in Label : \E k \in DOMAIN ls : ls[k] = l})
<1> DEFINE S == {l \in Label : \E k \in DOMAIN ls : ls[k] = l}
           N == Len(ls)
<1>1. N \in Nat /\ \A k \in 1 .. N : ls[k] \in S
  BY LenProperties
<1>2. PICK c : /\ Picked(ls, b) = c[N]
               /\ c[0] = << >>
               /\ \A k \in 1 .. N :
                    c[k] = IF ls[k].drafted = b THEN Append(c[k - 1], ls[k]) ELSE c[k - 1]
  BY PickedBySteps
<1> HIDE DEF S, N
<1> DEFINE G == {n \in Nat : n <= N => c[n] \in Seq(S)}
<1>3. 0 \in G
  <2>1. << >> \in Seq(S)
    BY EmptySeq
  <2> QED
    BY <1>2, <2>1
<1>4. ASSUME NEW n \in Nat, n \in G PROVE n + 1 \in G
  <2> SUFFICES ASSUME n + 1 <= N PROVE c[n + 1] \in Seq(S)
    OBVIOUS
  <2>1. n + 1 \in 1 .. N /\ (n + 1) - 1 = n /\ n <= N
    BY <1>1
  <2>2. c[n + 1] = IF ls[n + 1].drafted = b THEN Append(c[n], ls[n + 1]) ELSE c[n]
    BY <1>2, <2>1
  <2>3. c[n] \in Seq(S) /\ ls[n + 1] \in S
    BY <1>1, <1>4, <2>1
  <2> QED
    BY <2>2, <2>3
<1>5. \A n \in Nat : n \in G
  <2> HIDE DEF G
  <2> QED
    BY <1>3, <1>4, NumberInduction
<1> QED
  BY <1>1, <1>2, <1>5 DEF S

\* Counting in one place, or in the other.
LEMMA OneMore ==
    ASSUME NEW a \in Nat, NEW b \in Nat, NEW n \in Nat, a + b = n
    PROVE  (a + 1) + b = n + 1 /\ a + (b + 1) = n + 1
OBVIOUS

\* Every label is picked once: as drafted or as failed.
LEMMA PickedCount ==
    ASSUME NEW ls \in Seq(Label)
    PROVE  Len(Drafted(ls)) + Len(Failed(ls)) = Len(ls)
<1> DEFINE N == Len(ls)
<1>1. N \in Nat /\ \A k \in 1 .. N : ls[k] \in Label /\ ls[k].drafted \in BOOLEAN
  <2>1. \A l \in Label : l.drafted \in BOOLEAN
    BY DEF Label
  <2> QED
    BY <2>1, LenProperties
<1>2. PICK c : /\ Picked(ls, TRUE) = c[N]
               /\ c[0] = << >>
               /\ \A k \in 1 .. N :
                    c[k] = IF ls[k].drafted = TRUE THEN Append(c[k - 1], ls[k]) ELSE c[k - 1]
  BY PickedBySteps
<1>3. PICK d : /\ Picked(ls, FALSE) = d[N]
               /\ d[0] = << >>
               /\ \A k \in 1 .. N :
                    d[k] = IF ls[k].drafted = FALSE THEN Append(d[k - 1], ls[k]) ELSE d[k - 1]
  BY PickedBySteps
<1> HIDE DEF N
<1> DEFINE G == {n \in Nat : n <= N => /\ c[n] \in Seq(Label) /\ d[n] \in Seq(Label)
                                       /\ Len(c[n]) + Len(d[n]) = n}
<1>4. 0 \in G
  <2>1. << >> \in Seq(Label) /\ Len(<< >>) = 0
    BY EmptySeq
  <2>2. /\ c[0] \in Seq(Label) /\ d[0] \in Seq(Label)
        /\ Len(c[0]) + Len(d[0]) = 0
    BY <1>2, <1>3, <2>1
  <2> QED
    BY <2>2
<1>5. ASSUME NEW n \in Nat, n \in G PROVE n + 1 \in G
  <2>0. n \in Nat /\ n + 1 \in Nat
    BY <1>5
  <2> SUFFICES ASSUME n + 1 <= N
               PROVE  /\ c[n + 1] \in Seq(Label) /\ d[n + 1] \in Seq(Label)
                      /\ Len(c[n + 1]) + Len(d[n + 1]) = n + 1
    BY <2>0
  <2>1. n + 1 \in 1 .. N /\ (n + 1) - 1 = n /\ n <= N
    BY <1>1
  <2> DEFINE l == ls[n + 1]
  <2>2. /\ c[n + 1] = IF l.drafted = TRUE THEN Append(c[n], l) ELSE c[n]
        /\ d[n + 1] = IF l.drafted = FALSE THEN Append(d[n], l) ELSE d[n]
    BY <1>2, <1>3, <2>1
  <2>3. /\ c[n] \in Seq(Label) /\ d[n] \in Seq(Label) /\ Len(c[n]) + Len(d[n]) = n
        /\ l \in Label /\ l.drafted \in BOOLEAN
    BY <1>1, <1>5, <2>1
  <2> HIDE DEF l
  <2>4. /\ Len(c[n]) \in Nat /\ Len(d[n]) \in Nat
        /\ Append(c[n], l) \in Seq(Label) /\ Len(Append(c[n], l)) = Len(c[n]) + 1
        /\ Append(d[n], l) \in Seq(Label) /\ Len(Append(d[n], l)) = Len(d[n]) + 1
    BY <2>3, LenProperties, AppendProperties
  <2>5. CASE l.drafted = TRUE
    <3>1. c[n + 1] = Append(c[n], l) /\ d[n + 1] = d[n]
      BY <2>2, <2>5
    <3>2. (Len(c[n]) + 1) + Len(d[n]) = n + 1
      BY <2>0, <2>3, <2>4, OneMore
    <3>3. Len(c[n + 1]) + Len(d[n + 1]) = n + 1
      BY ONLY <2>4, <3>1, <3>2
    <3> QED
      BY <2>3, <2>4, <3>1, <3>3
  <2>6. CASE l.drafted = FALSE
    <3>1. c[n + 1] = c[n] /\ d[n + 1] = Append(d[n], l)
      BY <2>2, <2>6
    <3>2. Len(c[n]) + (Len(d[n]) + 1) = n + 1
      BY <2>0, <2>3, <2>4, OneMore
    <3>3. Len(c[n + 1]) + Len(d[n + 1]) = n + 1
      BY ONLY <2>4, <3>1, <3>2
    <3> QED
      BY <2>3, <2>4, <3>1, <3>3
  <2> QED
    BY <2>3, <2>5, <2>6
<1>6. \A n \in Nat : n \in G
  <2> HIDE DEF G
  <2> QED
    BY <1>4, <1>5, NumberInduction
<1>7. Len(c[N]) + Len(d[N]) = N
  <2>1. N \in Nat /\ N <= N
    BY <1>1
  <2>2. N \in G
    <3> HIDE DEF G
    <3> QED
      BY <1>6, <2>1
  <2> QED
    BY <2>1, <2>2
<1> QED
  BY <1>2, <1>3, <1>7 DEF N, Drafted, Failed

\* The cases of a list of labels: one for each, of its record.
LEMMA CasesOfLabels ==
    ASSUME NEW ls \in Seq(Label), NEW rows,
           rows = [k \in DOMAIN Drafted(ls) |-> CaseOf(Drafted(ls)[k])]
    PROVE  /\ rows \in Seq(Case)
           /\ Len(rows) = Len(Drafted(ls))
           /\ \A k \in DOMAIN rows : \E j \in DOMAIN ls : rows[k].rec = ls[j].rec
<1> DEFINE p == Drafted(ls)
           S == {l \in Label : \E k \in DOMAIN ls : ls[k] = l}
<1>1. p \in Seq(S)
  BY PickedOfList DEF Drafted
<1> HIDE DEF p
<1>2. DOMAIN p = 1 .. Len(p) /\ Len(p) \in Nat /\ \A k \in DOMAIN p : p[k] \in S
  BY <1>1, LenProperties, ElementOfSeq
<1>3. \A l \in Label : CaseOf(l) \in Case /\ CaseOf(l).rec = l.rec
  BY CaseIdAssumption DEF Label, Case, CaseOf
<1>4. rows = [k \in DOMAIN p |-> CaseOf(p[k])]
  BY DEF p
<1>5. rows \in [1 .. Len(p) -> Case]
  BY <1>2, <1>3, <1>4
<1>6. rows \in Seq(Case) /\ Len(rows) = Len(p)
  BY <1>2, <1>5, FunctionIsSeq
<1>7. \A k \in DOMAIN rows : \E j \in DOMAIN ls : rows[k].rec = ls[j].rec
  BY <1>2, <1>3, <1>4
<1> QED
  BY <1>6, <1>7 DEF p

----------------------------------------------------------------------------
(***************************************************************************)
(* Type correctness.                                                       *)
(***************************************************************************)
\* What a kill leaves of a file is a file.
LEMMA CutIsFile ==
    ASSUME NEW T, NEW rows \in Seq(T), NEW f \in Cut(rows)
    PROVE  f \in File(T)
<1>1. f.rows \in Seq(T)
  BY CutRows
<1>2. \E s \in {"whole", "torn"}, n \in 0 .. Len(rows) :
         f = [state |-> s, rows |-> SubSeq(rows, 1, n)]
  BY DEF Cut
<1> QED
  BY <1>1, <1>2 DEF File

\* A file written whole is a file.
LEMMA WholeIsFile ==
    ASSUME NEW T, NEW rows \in Seq(T)
    PROVE  Whole(rows) \in File(T)
BY DEF Whole, File

\* A promotion adds goldens.
LEMMA AdoptedTyped ==
    ASSUME goldens \in Seq(Golden), yaml \in File(Case), NEW ids \in Wanted, Promotable(ids)
    PROVE  Adopted(ids) \in Seq(Golden)
<1> DEFINE new == [k \in DOMAIN ids |-> [id |-> ids[k], by |-> Named(ids[k]).by]]
<1>1. PICK n \in 1 .. 2 : ids \in [1 .. n -> CaseIds]
  BY DEF Wanted
<1>2. n \in Nat /\ DOMAIN ids = 1 .. n
  BY <1>1
<1>3. ASSUME NEW k \in DOMAIN ids
      PROVE  [id |-> ids[k], by |-> Named(ids[k]).by] \in Golden
  <2>1. ids[k] \in Ids(yaml.rows)
    BY DEF Promotable
  <2>2. \E j \in DOMAIN yaml.rows : yaml.rows[j].id = ids[k]
    BY <2>1 DEF Ids
  <2>3. \E j \in DOMAIN yaml.rows : Named(ids[k]) = yaml.rows[j]
    BY <2>2 DEF Named
  <2>4. yaml.rows \in Seq(Case)
    BY DEF File
  <2>5. Named(ids[k]) \in Case
    BY <2>3, <2>4, LenProperties, ElementOfSeq
  <2>6. Named(ids[k]).by \in Authors /\ ids[k] \in CaseIds
    BY <1>1, <2>5 DEF Case
  <2> QED
    BY <2>6 DEF Golden
<1>4. new \in [1 .. n -> Golden]
  BY <1>2, <1>3
<1>5. new \in Seq(Golden)
  BY <1>2, <1>4, FunctionIsSeq
<1>6. Adopted(ids) = goldens \o new
  BY DEF Adopted
<1> HIDE DEF new
<1> QED
  BY <1>5, <1>6, ConcatProperties

\* The files a project starts from are typed.
LEMMA GoldensTypeInit == Init => TypeOK
<1> SUFFICES ASSUME Init PROVE TypeOK
  OBVIOUS
<1>1. \A T : << >> \in Seq(T)
  BY EmptySeq
<1>2. candidates \in File(Records) /\ labels \in File(Label) /\ yaml \in File(Case)
  BY <1>1 DEF Init, Absent, File
<1>3. review \in [there : BOOLEAN, cases : Seq(Case), failed : Seq(Label)]
  BY <1>1 DEF Init, NoReview
<1>4. goldens \in Seq(Golden)
  <2>1. PICK ids \in Standing : goldens = [k \in DOMAIN ids |-> [id |-> ids[k], by |-> "before"]]
    BY DEF Init
  <2>2. ids \in Seq(CaseIds)
    BY StandingAssumption
  <2>3. DOMAIN ids = 1 .. Len(ids) /\ Len(ids) \in Nat
    BY <2>2, LenProperties
  <2>4. goldens \in [1 .. Len(ids) -> Golden]
    BY <2>1, <2>2, <2>3, ElementOfSeq DEF Golden
  <2> QED
    BY <2>3, <2>4, FunctionIsSeq
<1>5. todo \in Seq(Records) /\ batch \in Seq(Label)
  BY <1>1 DEF Init
<1>6. pc = "idle" /\ dry = FALSE /\ calls = 0 /\ commands = 0 /\ kills = 0
  BY DEF Init
<1>7. calls \in Nat /\ commands \in 0 .. MaxCommands /\ kills \in 0 .. MaxKills
  BY <1>6, BoundsAssumption
<1>8. dry \in BOOLEAN
  BY <1>6
<1>9. pc \in {"idle", "draft", "yaml", "review"} /\ ~(pc \in {"yaml", "review"})
  BY <1>6
<1> QED
  BY <1>2, <1>3, <1>4, <1>5, <1>7, <1>8, <1>9, Zenon DEF TypeOK

\* A command that is refused, and the counters of those that are not.
LEMMA TypedCommand ==
    ASSUME TypeOK, NEW command, Type(command)
    PROVE  commands' \in 0 .. MaxCommands /\ commands' = commands + 1 /\ pc = "idle"
BY BoundsAssumption DEF TypeOK, Type

\* select writes a list of records.
LEMMA TypeSelect ==
    ASSUME TypeOK, NEW rows \in Shortlists, Select(rows)
    PROVE  TypeOK'
<1>1. rows \in Seq(Records)
  BY ShortlistsAssumption
<1>2. candidates' \in File(Records)
  BY <1>1, CutIsFile, WholeIsFile DEF Select
<1>3. kills' \in 0 .. MaxKills /\ pc' = "idle"
  BY BoundsAssumption DEF Select, End, TypeOK
<1>4. commands' \in 0 .. MaxCommands
  BY TypedCommand DEF Select
<1>5. UNCHANGED <<labels, yaml, review, goldens, dry, todo, batch, calls>>
  BY DEF Select, memory
<1> QED
  BY <1>2, <1>3, <1>4, <1>5 DEF TypeOK

\* A command that is refused writes nothing.
LEMMA TypeRefused ==
    ASSUME TypeOK, NEW command, RefuseCommand(command)
    PROVE  TypeOK'
<1>1. commands' \in 0 .. MaxCommands
  BY TypedCommand DEF RefuseCommand
<1> QED
  BY <1>1 DEF RefuseCommand, End, disk, memory, TypeOK

\* label moves typed labels, and writes them.
LEMMA TypeLabel ==
    ASSUME TypeOK, (\E d \in BOOLEAN : StartLabel(d)) \/ Draft \/ WriteLabels
    PROVE  TypeOK'
<1>1. ASSUME NEW d \in BOOLEAN, StartLabel(d) PROVE TypeOK'
  <2>1. commands' \in 0 .. MaxCommands
    BY <1>1, TypedCommand DEF StartLabel
  <2>2. candidates.rows \in Seq(Records) /\ << >> \in Seq(Label)
    BY EmptySeq DEF TypeOK, File
  <2> QED
    BY <1>1, <2>1, <2>2 DEF StartLabel, disk, TypeOK
<1>2. CASE Draft
  <2>1. todo # << >> /\ todo \in Seq(Records) /\ batch \in Seq(Label) /\ calls \in Nat
    BY <1>2 DEF Draft, TypeOK
  <2>2. Head(todo) \in Records /\ Tail(todo) \in Seq(Records)
    BY <2>1, HeadTailProperties
  <2>3. PICK l : /\ l \in [rec : {Head(todo)}, drafted : BOOLEAN, by : {"dry run", "model"}]
                 /\ batch' = Append(batch, l)
    BY <1>2 DEF Draft
  <2>4. l \in Label
    BY <2>2, <2>3 DEF Label, Authors
  <2>5. batch' \in Seq(Label)
    BY <2>1, <2>3, <2>4, AppendProperties
  <2>6. /\ calls' = calls + 1 /\ todo' = Tail(todo) /\ pc = "draft"
        /\ UNCHANGED <<disk, pc, dry, commands, kills>>
    BY <1>2 DEF Draft
  <2>7. calls' \in Nat /\ pc' = "draft"
        /\ UNCHANGED <<candidates, labels, yaml, review, goldens, dry, commands, kills>>
    BY <2>1, <2>6 DEF disk
  <2> QED
    BY <2>2, <2>5, <2>6, <2>7 DEF TypeOK
<1>3. CASE WriteLabels
  <2>1. labels' \in File(Label)
    BY <1>3, WholeIsFile DEF WriteLabels, TypeOK
  <2> QED
    BY <1>3, <2>1 DEF WriteLabels, End, memory, TypeOK
<1> QED
  BY <1>1, <1>2, <1>3

\* The labels of the file, as cases and as failures.
LEMMA CasesTyped ==
    ASSUME TypeOK
    PROVE  /\ Cases \in Seq(Case)
           /\ Failed(labels.rows) \in Seq(Label)
           /\ Drafted(labels.rows) \in Seq(Label)
           /\ Len(Cases) = Len(Drafted(labels.rows))
           /\ \A k \in DOMAIN Cases : \E j \in DOMAIN labels.rows : Cases[k].rec = labels.rows[j].rec
<1> DEFINE ls == labels.rows
           S == {l \in Label : \E k \in DOMAIN ls : ls[k] = l}
<1>1. ls \in Seq(Label)
  BY DEF TypeOK, File
<1>2. Cases = [k \in DOMAIN Drafted(ls) |-> CaseOf(Drafted(ls)[k])]
  BY DEF Cases
<1> HIDE DEF ls
<1>3. Picked(ls, TRUE) \in Seq(S) /\ Picked(ls, FALSE) \in Seq(S)
  BY <1>1, PickedOfList
<1>4. Picked(ls, TRUE) \in Seq(Label) /\ Picked(ls, FALSE) \in Seq(Label)
  BY <1>3, SeqMonotonic, S \subseteq Label
<1>5. /\ Cases \in Seq(Case)
      /\ Len(Cases) = Len(Drafted(ls))
      /\ \A k \in DOMAIN Cases : \E j \in DOMAIN ls : Cases[k].rec = ls[j].rec
  BY <1>1, <1>2, CasesOfLabels
<1> QED
  BY <1>4, <1>5 DEF Drafted, Failed, ls

\* emit writes cases, and the ids they have.
LEMMA TypeEmit ==
    ASSUME TypeOK, StartEmit \/ WriteYaml \/ WriteReview
    PROVE  TypeOK'
<1>1. CASE StartEmit
  <2>1. commands' \in 0 .. MaxCommands
    BY <1>1, TypedCommand DEF StartEmit
  <2> QED
    BY <1>1, <2>1 DEF StartEmit, EmitRefused, disk, memory, TypeOK, Readable
<1>2. CASE WriteYaml
  <2>1. yaml' \in File(Case)
    BY <1>2, CasesTyped, WholeIsFile DEF WriteYaml
  <2>2. /\ pc = "yaml" /\ pc' = "review"
        /\ UNCHANGED <<candidates, labels, review, goldens, dry, todo, batch, calls, commands, kills>>
    BY <1>2 DEF WriteYaml, memory
  <2> QED
    BY <2>1, <2>2 DEF TypeOK, Readable
<1>3. CASE WriteReview
  <2>1. review' = [there |-> TRUE, failed |-> Failed(labels.rows), cases |-> Cases]
    BY <1>3 DEF WriteReview, Cases
  <2>2. review' \in [there : BOOLEAN, cases : Seq(Case), failed : Seq(Label)]
    BY <2>1, CasesTyped
  <2>3. /\ pc' = "idle"
        /\ UNCHANGED <<candidates, labels, yaml, goldens, dry, todo, batch, calls, commands, kills>>
    BY <1>3 DEF WriteReview, End, memory
  <2> QED
    BY <2>2, <2>3 DEF TypeOK
<1> QED
  BY <1>1, <1>2, <1>3

\* promote adds cases to cases.
LEMMA TypePromote ==
    ASSUME TypeOK, NEW ids \in Wanted, Promote(ids)
    PROVE  TypeOK'
<1>1. commands' \in 0 .. MaxCommands
  BY TypedCommand DEF Promote
<1>2. goldens' \in Seq(Golden)
  BY AdoptedTyped DEF Promote, TypeOK
<1> QED
  BY <1>1, <1>2 DEF Promote, End, memory, TypeOK

\* An edit changes who wrote a case.
LEMMA TypeEdit ==
    ASSUME TypeOK, HandWrite
    PROVE  TypeOK'
<1>1. PICK k \in DOMAIN yaml.rows : yaml' = [yaml EXCEPT !.rows[k].by = "operator"]
  BY DEF HandWrite
<1>2. yaml \in File(Case) /\ yaml.rows \in Seq(Case)
  BY DEF TypeOK, File
<1> DEFINE rows == [yaml.rows EXCEPT ![k].by = "operator"]
<1>3. yaml' = [yaml EXCEPT !.rows = rows]
  BY <1>1
<1>4. yaml.rows[k] \in Case
  BY <1>2, LenProperties, ElementOfSeq
<1>5. [yaml.rows[k] EXCEPT !.by = "operator"] \in Case
  BY <1>4 DEF Case, Authors
<1>6. rows \in Seq(Case)
  <2>1. rows = [yaml.rows EXCEPT ![k] = [yaml.rows[k] EXCEPT !.by = "operator"]]
    OBVIOUS
  <2>2. k \in 1 .. Len(yaml.rows)
    BY <1>2, LenProperties
  <2> QED
    BY <1>2, <1>5, <2>1, <2>2, ExceptSeq
<1> HIDE DEF rows
<1>7. yaml' \in File(Case)
  BY <1>2, <1>3, <1>6 DEF File
<1> QED
  BY <1>7 DEF HandWrite, memory, TypeOK

\* A kill leaves a part of what was being written.
LEMMA TypeKill ==
    ASSUME TypeOK, Kill
    PROVE  TypeOK'
<1>1. labels' \in File(Label)
  <2>1. labels' = labels \/ labels' \in Cut(batch)
    BY DEF Kill
  <2> QED
    BY <2>1, CutIsFile DEF TypeOK
<1>2. yaml' \in File(Case)
  <2>1. yaml' = yaml \/ yaml' \in Cut(Cases)
    BY DEF Kill
  <2> QED
    BY <2>1, CutIsFile, CasesTyped DEF TypeOK
<1>3. review' \in [there : BOOLEAN, cases : Seq(Case), failed : Seq(Label)]
  <2>1. review' = review \/ review' = NoReview
    BY DEF Kill
  <2>2. << >> \in Seq(Case) /\ << >> \in Seq(Label)
    BY EmptySeq
  <2>3. NoReview \in [there : BOOLEAN, cases : Seq(Case), failed : Seq(Label)]
    BY <2>2 DEF NoReview
  <2> QED
    BY <2>1, <2>3 DEF TypeOK
<1>4. kills' \in 0 .. MaxKills /\ pc' = "idle"
  BY BoundsAssumption DEF Kill, End, TypeOK
<1>5. UNCHANGED <<candidates, goldens, dry, todo, batch, calls, commands>>
  BY DEF Kill, memory
<1> QED
  BY <1>1, <1>2, <1>3, <1>4, <1>5 DEF TypeOK

\* Every step keeps the types.
LEMMA GoldensTypeStep ==
    ASSUME TypeOK, [Next]_vars
    PROVE  TypeOK'
<1>1. CASE Rest \/ UNCHANGED vars
  BY <1>1 DEF Rest, vars, disk, memory, TypeOK, Readable
<1>2. CASE RefuseLabel \/ RefuseEmit \/ \E ids \in Wanted : RefusePromote(ids)
  BY <1>2, TypeRefused DEF RefuseLabel, RefuseEmit, RefusePromote
<1> QED
  BY <1>1, <1>2, TypeSelect, TypeLabel, TypeEmit, TypePromote, TypeEdit, TypeKill DEF Next

\* The files of stages 06 and 07 hold rows of their kind, cut or not, whatever
\* is typed and killed (src/loghog/label, src/loghog/emit).
THEOREM GoldensTypeCorrect == Spec => []TypeOK
<1> QED
  BY GoldensTypeInit, GoldensTypeStep, PTL DEF Spec

----------------------------------------------------------------------------
(***************************************************************************)
(* The story of an emit.  Its files are written from the labels that were  *)
(* checked when it started, and nothing changes them while it runs.        *)
(***************************************************************************)
Emitting == pc \in {"yaml", "review"}

StoryInv ==
    /\ EmitTellsOneStory
    /\ pc = "draft" => last = "label"
    /\ Emitting => \A k \in DOMAIN labels.rows : labels.rows[k].rec \in Listed
    /\ pc = "review" /\ Drafted(labels.rows) # << >> => yaml.rows = Cases

\* The end of an emit.
LEMMA ReviewTells ==
    ASSUME TypeOK, StoryInv, WriteReview
    PROVE  StoryInv'
<1> DEFINE ls == labels.rows
<1>1. /\ pc = "review" /\ pc' = "idle"
      /\ review'.cases = Cases /\ review'.failed = Failed(ls)
      /\ exit' = Outcome(Drafted(ls), Failed(ls))
      /\ UNCHANGED <<candidates, labels, yaml, last>>
  BY DEF WriteReview, Cases, End
<1>2. ls \in Seq(Label)
  BY DEF TypeOK, File
<1>3. /\ Len(Cases) = Len(Drafted(ls))
      /\ \A k \in DOMAIN Cases : \E j \in DOMAIN ls : Cases[k].rec = ls[j].rec
  BY CasesTyped
<1>4. Len(Drafted(ls)) + Len(Failed(ls)) = Len(ls)
  BY <1>2, PickedCount
<1>5. EmitTellsOneStory'
  <2> SUFFICES ASSUME exit' \in {"ok", "partial"}
               PROVE  /\ yaml.rows = Cases
                      /\ Len(Cases) + Len(Failed(ls)) = Len(ls)
                      /\ exit' = "ok" <=> Failed(ls) = << >>
                      /\ \A k \in DOMAIN yaml.rows : yaml.rows[k].rec \in Listed
    BY <1>1 DEF EmitTellsOneStory, Listed
  <2>1. Drafted(ls) # << >>
    BY <1>1 DEF Outcome
  <2>2. yaml.rows = Cases
    BY <1>1, <2>1 DEF StoryInv
  <2>3. exit' = "ok" <=> Failed(ls) = << >>
    BY <1>1, <2>1 DEF Outcome
  <2>4. \A k \in DOMAIN Cases : Cases[k].rec \in Listed
    BY <1>1, <1>3 DEF StoryInv, Emitting
  <2> QED
    BY <1>3, <1>4, <2>2, <2>3, <2>4
<1> QED
  BY <1>1, <1>5 DEF StoryInv, Emitting

\* A command that leaves the files of an emit alone keeps its story; one that
\* touches them is not an emit.
LEMMA StoryApart ==
    ASSUME StoryInv,
           pc' = "idle" \/ pc' = "draft",
           pc' = "draft" => last' = "label",
           last' # "emit" \/ exit' \in {"refused", "killed"} \/ pc' # "idle"
    PROVE  StoryInv'
<1>1. EmitTellsOneStory'
  BY DEF EmitTellsOneStory
<1> QED
  BY <1>1 DEF StoryInv, Emitting

\* Every step keeps the story of the two files.
LEMMA StoryStep ==
    ASSUME TypeOK, StoryInv, EmitRuns, [Next]_vars
    PROVE  StoryInv'
<1>1. CASE Rest \/ UNCHANGED vars
  <2>1. UNCHANGED <<candidates, labels, yaml, review, pc, last, exit>>
    BY <1>1 DEF Rest, vars, disk
  <2>2. Cases' = Cases
    BY <2>1, Zenon DEF Cases, CaseOf
  <2> QED
    BY <2>1, <2>2 DEF StoryInv, EmitTellsOneStory, Emitting, Listed
<1>2. ASSUME NEW rows \in Shortlists, Select(rows) PROVE StoryInv'
  BY <1>2, StoryApart DEF Select, Type, End
<1>3. CASE RefuseLabel \/ RefuseEmit \/ \E ids \in Wanted : RefusePromote(ids)
  BY <1>3, StoryApart DEF RefuseLabel, RefuseEmit, RefusePromote, RefuseCommand, Type, End
<1>4. CASE (\E d \in BOOLEAN : StartLabel(d)) \/ Draft \/ WriteLabels
  BY <1>4, StoryApart DEF StartLabel, Draft, WriteLabels, Type, End, StoryInv
<1>5. CASE StartEmit
  <2>1. /\ pc' = IF Drafted(labels.rows) = << >> THEN "review" ELSE "yaml"
        /\ UNCHANGED <<candidates, labels, yaml>>
        /\ \A k \in DOMAIN labels.rows : labels.rows[k].rec \in Listed
    BY <1>5 DEF StartEmit, EmitRefused, disk
  <2>2. EmitTellsOneStory'
    BY <2>1 DEF EmitTellsOneStory
  <2>3. Drafted(labels.rows) # << >> => pc' # "review"
    BY <2>1
  <2> QED
    BY <2>1, <2>2, <2>3 DEF StoryInv, Emitting, Listed
<1>6. CASE WriteYaml
  <2>1. /\ pc = "yaml" /\ pc' = "review" /\ yaml'.rows = Cases
        /\ UNCHANGED <<candidates, labels>>
    BY <1>6 DEF WriteYaml, Whole
  <2>2. EmitTellsOneStory'
    BY <2>1 DEF EmitTellsOneStory
  <2>3. Cases' = Cases
    BY <2>1, Zenon DEF Cases, CaseOf
  <2> QED
    BY <2>1, <2>2, <2>3 DEF StoryInv, Emitting, Listed
<1>7. CASE WriteReview
  BY <1>7, ReviewTells
<1>8. ASSUME NEW ids \in Wanted, Promote(ids) PROVE StoryInv'
  BY <1>8, StoryApart DEF Promote, Type, End
<1>9. CASE HandWrite
  BY <1>9, StoryApart DEF HandWrite
<1>10. CASE Kill
  BY <1>10, StoryApart DEF Kill, End
<1> QED
  BY <1>1, <1>2, <1>3, <1>4, <1>5, <1>6, <1>7, <1>8, <1>9, <1>10 DEF Next

\* After an emit that exits 0 or 1 the candidates file and the review hold the
\* same cases, each of a record of the shortlist, and every label is a case or
\* a failure (emit_window, src/loghog/emit/run.py).
THEOREM EmitAlwaysTellsOneStory == Spec => []EmitTellsOneStory
<1>1. Init => StoryInv /\ EmitRuns
  BY DEF Init, StoryInv, EmitTellsOneStory, Emitting, EmitRuns
<1>2. TypeOK /\ StoryInv /\ EmitRuns /\ [Next]_vars => (StoryInv /\ EmitRuns)'
  BY StoryStep, EmitRunsKept
<1>3. StoryInv => EmitTellsOneStory
  BY DEF StoryInv
<1> QED
  BY <1>1, <1>2, <1>3, GoldensTypeCorrect, PTL DEF Spec
=============================================================================
