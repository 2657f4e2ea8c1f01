------------------------------ MODULE RowsProofs ------------------------------
(***************************************************************************)
(* What Rows keeps, for every set of sources, patterns and JSON values: a  *)
(* line ends as a record or as a failure it may have, every text of a      *)
(* record reads as the row's does with one token for each value that no    *)
(* better match rules out, and the Redactor has numbered the values of the *)
(* run in the order in which a reader meets them.                          *)
(*                                                                         *)
(* In order: one text (the greedy pass of detect.py, the numbering and the *)
(* rewriting of redact.py), one record (run.py, _redacted), one value and  *)
(* one row (paths.py, extractors.py, coerce.py, normalise.py), and the run.*)
(***************************************************************************)
EXTENDS Rows, SequenceTheorems, Induction

----------------------------------------------------------------------------

\* The numbers up to n.
LEMMA UpToFinite ==
    ASSUME NEW n \in Nat
    PROVE  IsFiniteSet(1 .. n) /\ Cardinality(1 .. n) = n
  <1>1. 1 \in Int /\ n \in Int /\ (IF 1 > n THEN 0 ELSE n - 1 + 1) = n
    OBVIOUS
  <1> QED BY <1>1, FS_Interval

----------------------------------------------------------------------------
(***************************************************************************)
(* The matches in a text.                                                  *)
(***************************************************************************)

\* Where a match is, and of what: its value follows from the text.
IsSpan(s, text) ==
    /\ s.start \in 1 .. Len(text) /\ s.end \in 1 .. Len(text) + 1 /\ s.start < s.end
    /\ s.class \in ToSet(Classes)
    /\ s = [ start |-> s.start, end |-> s.end, class |-> s.class,
             value |-> Canonical[SubSeq(text, s.start, s.end - 1)] ]

\* What the patterns match is a span of the text, and its value is what is there.
LEMMA OpenAreSpans ==
    ASSUME NEW W, NEW text \in Seq(W)
    PROVE  \A s \in Open(text) : IsSpan(s, text)
  <1> SUFFICES ASSUME NEW p \in Detectors, NEW s \in Matches(text, p) PROVE IsSpan(s, text)
    BY DEF Open, Candidates
  <1>1. /\ p.class \in ToSet(Classes) /\ p.words \in Seq(STRING) /\ p.words # << >>
    BY PatternsAssumption DEF Detectors
  <1>2. Len(p.words) \in Nat \ {0} /\ Len(text) \in Nat
    BY <1>1, EmptySeq, LenProperties
  <1>3. PICK i \in 1 .. Len(text) - Len(p.words) + 1 :
          /\ SubSeq(text, i, i + Len(p.words) - 1) = p.words
          /\ s = [start |-> i, end |-> i + Len(p.words), class |-> p.class, value |-> Canonical[p.words]]
    BY DEF Matches
  <1> DEFINE n == Len(p.words)
  <1> HIDE DEF n
  <1>4. s.start = i /\ s.end = i + n /\ s.class = p.class /\ s.value = Canonical[p.words]
    BY <1>3 DEF n
  <1>5. i \in 1 .. Len(text) /\ i + n \in 1 .. Len(text) + 1 /\ i < i + n
    BY <1>2, <1>3 DEF n
  <1>6. SubSeq(text, s.start, s.end - 1) = p.words
    BY <1>3, <1>4 DEF n
  <1>7. s = [ start |-> s.start, end |-> s.end, class |-> s.class,
              value |-> Canonical[SubSeq(text, s.start, s.end - 1)] ]
    BY <1>3, <1>4, <1>6 DEF n
  <1> QED BY <1>1, <1>4, <1>5, <1>7 DEF IsSpan

\* There are finitely many of them.
LEMMA OpenIsFinite ==
    ASSUME NEW W, NEW text \in Seq(W)
    PROVE  IsFiniteSet(Open(text))
  <1> DEFINE n == Len(text)
             B == ((1 .. n) \X (1 .. n + 1)) \X ToSet(Classes)
             span(d) == [ start |-> d[1][1], end |-> d[1][2], class |-> d[2],
                          value |-> Canonical[SubSeq(text, d[1][1], d[1][2] - 1)] ]
             D == {d \in B : span(d) \in Open(text)}
             f == [d \in D |-> span(d)]
  <1>1. n \in Nat /\ n + 1 \in Nat
    BY LenProperties
  <1>2. IsFiniteSet(1 .. n) /\ IsFiniteSet(1 .. n + 1)
    <2> HIDE DEF n
    <2> QED BY <1>1, UpToFinite
  <1>3. IsFiniteSet(ToSet(Classes))
    <2>1. IsFiniteSet(1 .. 8)
      BY UpToFinite
    <2>2. Classes \in Surjection(1 .. 8, ToSet(Classes))
      BY DEF Surjection, ToSet, Classes
    <2> QED BY <2>1, <2>2, FS_Surjection
  <1>4. IsFiniteSet(B)
    <2> HIDE DEF n
    <2>1. IsFiniteSet((1 .. n) \X (1 .. n + 1))
      BY <1>2, FS_Product
    <2> QED BY <1>3, <2>1, FS_Product
  <1>5. IsFiniteSet(D)
    <2> HIDE DEF B, span
    <2> QED BY <1>4, FS_Subset
  <1>6. \A s \in Open(text) : \E d \in D : s = span(d)
    <2> TAKE s \in Open(text)
    <2>1. IsSpan(s, text)
      BY OpenAreSpans
    <2> DEFINE d == << <<s.start, s.end>>, s.class>>
    <2>2. d \in B /\ span(d) = s
      BY <2>1 DEF IsSpan
    <2> QED BY <2>2
  <1>7. f \in Surjection(D, Open(text))
    <2> HIDE DEF B, span
    <2> QED BY <1>6 DEF Surjection
  <1> QED
    <2> HIDE DEF f, D
    <2> QED BY <1>5, <1>7, FS_Surjection

\* Outranks, term by term.
LEMMA OutranksIs ==
    ASSUME NEW s, NEW t
    PROVE  Outranks(s, t) <=>
             \/ Priority(s.class) < Priority(t.class)
             \/ /\ Priority(s.class) = Priority(t.class)
                /\ \/ s.start - s.end < t.start - t.end
                   \/ s.start - s.end = t.start - t.end /\ s.start < t.start
  <1> DEFINE a == <<Priority(s.class), s.start - s.end, s.start>>
             b == <<Priority(t.class), t.start - t.end, t.start>>
  <1>1. Outranks(s, t) <=> \E i \in 1 .. 3 : a[i] < b[i] /\ \A j \in 1 .. i - 1 : a[j] = b[j]
    BY DEF Outranks
  <1>2. (\E i \in 1 .. 3 : a[i] < b[i] /\ \A j \in 1 .. i - 1 : a[j] = b[j]) <=>
          \/ a[1] < b[1]
          \/ a[1] = b[1] /\ (a[2] < b[2] \/ (a[2] = b[2] /\ a[3] < b[3]))
    <2> HIDE DEF a, b
    <2>1. 1 .. 3 = {1, 2, 3} /\ 1 .. 1 - 1 = {} /\ 1 .. 2 - 1 = {1} /\ 1 .. 3 - 1 = {1, 2}
      OBVIOUS
    <2> QED BY <2>1
  <1> QED BY <1>1, <1>2

\* Classes have their place in the priority, and no two the same.
LEMMA PriorityOf ==
    \A c \in ToSet(Classes) : Priority(c) \in Nat /\ Classes[Priority(c)] = c
  <1> SUFFICES ASSUME NEW c \in ToSet(Classes)
               PROVE  Priority(c) \in Nat /\ Classes[Priority(c)] = c
    OBVIOUS
  <1>1. DOMAIN Classes = 1 .. 8
    BY DEF Classes
  <1>2. \E i \in DOMAIN Classes : Classes[i] = c
    BY DEF ToSet
  <1>3. Priority(c) \in DOMAIN Classes /\ Classes[Priority(c)] = c
    BY <1>2 DEF Priority
  <1> QED BY <1>1, <1>3

\* It is a strict total order on the matches in a text.
LEMMA OutranksIsAnOrder ==
    ASSUME NEW W, NEW text \in Seq(W)
    PROVE  /\ \A s \in Open(text) : ~Outranks(s, s)
           /\ \A s, t, u \in Open(text) : Outranks(s, t) /\ Outranks(t, u) => Outranks(s, u)
           /\ \A s, t \in Open(text) : s = t \/ Outranks(s, t) \/ Outranks(t, s)
  <1>1. \A s \in Open(text) : /\ IsSpan(s, text)
                              /\ Priority(s.class) \in Nat /\ Classes[Priority(s.class)] = s.class
    BY OpenAreSpans, PriorityOf DEF IsSpan
  <1>2. \A s \in Open(text) : s.start \in Nat /\ s.end \in Nat
    BY <1>1, LenProperties DEF IsSpan
  <1>3. \A s \in Open(text) : ~Outranks(s, s)
    BY <1>1, <1>2, OutranksIs
  <1>4. ASSUME NEW s \in Open(text), NEW t \in Open(text), NEW u \in Open(text),
               Outranks(s, t), Outranks(t, u)
        PROVE  Outranks(s, u)
    <2> DEFINE p(x) == Priority(x.class)
               d(x) == x.start - x.end
               before(x, y) == \/ p(x) < p(y)
                               \/ p(x) = p(y) /\ (d(x) < d(y) \/ (d(x) = d(y) /\ x.start < y.start))
    <2>1. before(s, t) /\ before(t, u)
      BY <1>4, OutranksIs
    <2>2. \A x \in Open(text) : p(x) \in Int /\ d(x) \in Int /\ x.start \in Int
      BY <1>1, <1>2
    <2>3. before(s, u)
      <3> HIDE DEF p, d
      <3> QED BY <2>1, <2>2
    <2> QED BY <2>3, OutranksIs
  <1>5. ASSUME NEW s \in Open(text), NEW t \in Open(text), ~Outranks(s, t), ~Outranks(t, s)
        PROVE  s = t
    <2>1. /\ Priority(s.class) = Priority(t.class) /\ s.start = t.start
          /\ s.start - s.end = t.start - t.end
      BY <1>1, <1>2, <1>5, OutranksIs
    <2>2. s.class = t.class /\ s.end = t.end
      BY <1>1, <1>2, <2>1
    <2> QED BY <1>1, <2>1, <2>2 DEF IsSpan
  <1> QED BY <1>3, <1>4, <1>5

----------------------------------------------------------------------------
(***************************************************************************)
(* The greedy pass keeps the dominant matches, and there is one such set.  *)
(***************************************************************************)

\* No two matches kept overlap, and each match left out overlaps a better one
\* that is kept.
Dominates(kept, open) ==
    /\ kept \subseteq open
    /\ \A s, t \in kept : s # t => ~Overlap(s, t)
    /\ \A s \in open \ kept : \E t \in kept : Overlap(s, t) /\ Outranks(t, s)

Order(open) == {p \in open \X open : Outranks(p[1], p[2])}

\* The same order, as a set of pairs.
LEMMA OrderIsTotal ==
    ASSUME NEW W, NEW text \in Seq(W), NEW open, open = Open(text)
    PROVE  /\ \A s, t \in open : <<s, t>> \in Order(open) <=> Outranks(s, t)
           /\ \A s \in open : <<s, s>> \notin Order(open)
           /\ \A s, t, u \in open :
                <<s, t>> \in Order(open) /\ <<t, u>> \in Order(open) => <<s, u>> \in Order(open)
           /\ \A s, t \in open : s = t \/ <<s, t>> \in Order(open) \/ <<t, s>> \in Order(open)
  <1>1. \A s, t \in open : <<s, t>> \in Order(open) <=> Outranks(s, t)
    BY DEF Order
  <1>2. /\ \A s \in open : ~Outranks(s, s)
        /\ \A s, t, u \in open : Outranks(s, t) /\ Outranks(t, u) => Outranks(s, u)
        /\ \A s, t \in open : s = t \/ Outranks(s, t) \/ Outranks(t, s)
    BY OutranksIsAnOrder
  <1> QED BY <1>1, <1>2

\* No two sets dominate.
LEMMA DominantIsOne ==
    ASSUME NEW W, NEW text \in Seq(W), NEW a, NEW b,
           Dominates(a, Open(text)), Dominates(b, Open(text))
    PROVE  a = b
  <1> DEFINE open == Open(text)
             diff == (a \ b) \cup (b \ a)
  <1> HIDE DEF open
  <1>1. a \subseteq open /\ b \subseteq open
    BY DEF Dominates, open
  <1> SUFFICES ASSUME diff # {} PROVE FALSE
    OBVIOUS
  <1>2. IsFiniteSet(diff) /\ diff \subseteq open
    BY <1>1, OpenIsFinite, FS_Subset DEF open
  <1>3. PICK s \in diff : \A t \in diff : <<t, s>> \notin Order(open)
    <2> HIDE DEF diff
    <2>1. /\ \A x \in diff : <<x, x>> \notin Order(open)
          /\ \A x, y, z \in diff :
               <<x, y>> \in Order(open) /\ <<y, z>> \in Order(open) => <<x, z>> \in Order(open)
      BY <1>2, OrderIsTotal DEF open
    <2> QED BY <1>2, <2>1, FirstElement
  <1>4. \A t \in diff : ~Outranks(t, s)
    BY <1>2, <1>3, OrderIsTotal DEF open
  <1>5. \A t \in open : ~Outranks(t, t)
    BY OutranksIsAnOrder DEF open
  <1>6. ASSUME NEW x, NEW y, Dominates(x, open), Dominates(y, open), s \in x, s \notin y,
               diff = (x \ y) \cup (y \ x)
        PROVE  FALSE
    <2>1. s \in open \ y
      BY <1>6 DEF Dominates
    <2>2. PICK t \in y : Overlap(s, t) /\ Outranks(t, s)
      BY <1>6, <2>1 DEF Dominates
    <2>3. t \notin x
      BY <1>5, <1>6, <2>1, <2>2 DEF Dominates
    <2> QED BY <1>4, <1>6, <2>2, <2>3
  <1> QED BY <1>3, <1>6 DEF open

\* The n-th match in the order of resolve_overlaps.
LEMMA RankedIs ==
    ASSUME NEW W, NEW text \in Seq(W), NEW open, open = Open(text)
    PROVE  /\ Cardinality(open) \in Nat
           /\ \E place \in [open -> 1 .. Cardinality(open)] :
                /\ \A s, t \in open : Outranks(s, t) => place[s] < place[t]
                /\ \A n \in 1 .. Cardinality(open) :
                     Ranked(open, n) \in open /\ place[Ranked(open, n)] = n
  <1> DEFINE place == [s \in open |-> Cardinality(UpTo(open, Order(open), s))]
  <1>1. IsFiniteSet(open) /\ Cardinality(open) \in Nat
    BY OpenIsFinite, FS_CardinalityType
  <1>2. /\ \A s \in open : place[s] \in 1 .. Cardinality(open)
        /\ \A s, t \in open : <<s, t>> \in Order(open) => place[s] < place[t]
        /\ \A n \in 1 .. Cardinality(open) : \E s \in open : place[s] = n
    <2>1. /\ \A s \in open : <<s, s>> \notin Order(open)
          /\ \A s, t, u \in open :
               <<s, t>> \in Order(open) /\ <<t, u>> \in Order(open) => <<s, u>> \in Order(open)
          /\ \A s, t \in open : s = t \/ <<s, t>> \in Order(open) \/ <<t, s>> \in Order(open)
      BY OrderIsTotal
    <2>2. /\ \A s \in open : Cardinality(UpTo(open, Order(open), s)) \in 1 .. Cardinality(open)
          /\ \A s, t \in open : <<s, t>> \in Order(open) =>
               Cardinality(UpTo(open, Order(open), s)) < Cardinality(UpTo(open, Order(open), t))
          /\ \A k \in 1 .. Cardinality(open) :
               \E s \in open : Cardinality(UpTo(open, Order(open), s)) = k
      <3> DEFINE L == Order(open)
      <3>1. /\ IsFiniteSet(open)
            /\ \A s \in open : <<s, s>> \notin L
            /\ \A s, t, u \in open : <<s, t>> \in L /\ <<t, u>> \in L => <<s, u>> \in L
            /\ \A s, t \in open : s = t \/ <<s, t>> \in L \/ <<t, s>> \in L
        BY <1>1, <2>1
      <3> HIDE DEF L
      <3>2. /\ \A x \in open : Cardinality(UpTo(open, L, x)) \in 1 .. Cardinality(open)
            /\ \A x, y \in open : <<x, y>> \in L =>
                 Cardinality(UpTo(open, L, x)) < Cardinality(UpTo(open, L, y))
            /\ \A k \in 1 .. Cardinality(open) : \E x \in open : Cardinality(UpTo(open, L, x)) = k
        BY ONLY <3>1, Numbering
      <3> QED BY <3>2 DEF L
    <2> QED BY <2>2
  <1>3. \A s, t \in open : Outranks(s, t) => place[s] < place[t]
    <2>1. \A s, t \in open : <<s, t>> \in Order(open) <=> Outranks(s, t)
      BY OrderIsTotal
    <2> HIDE DEF place
    <2> QED BY <1>2, <2>1
  <1>4. \A s \in open : place[s] = Cardinality({t \in open : Outranks(t, s)}) + 1
    <2> TAKE s \in open
    <2> DEFINE A == {t \in open : Outranks(t, s)}
    <2>1. ~Outranks(s, s)
      BY OutranksIsAnOrder
    <2>2. UpTo(open, Order(open), s) = A \cup {s} /\ s \notin A
      BY <2>1, OrderIsTotal DEF UpTo
    <2>3. IsFiniteSet(A)
      BY <1>1, FS_Subset
    <2> HIDE DEF A
    <2>4. Cardinality(A \cup {s}) = Cardinality(A) + 1
      BY <2>2, <2>3, CardAdd
    <2> QED BY <2>2, <2>4 DEF A
  <1>5. \A n \in 1 .. Cardinality(open) :
          Ranked(open, n) \in open /\ place[Ranked(open, n)] = n
    <2> TAKE n \in 1 .. Cardinality(open)
    <2>1. PICK s \in open : place[s] = n
      BY <1>2
    <2> DEFINE size(x) == Cardinality({t \in open : Outranks(t, x)})
    <2>2. \A x \in open : size(x) \in Nat /\ place[x] = size(x) + 1
      <3>1. \A x \in open : IsFiniteSet({t \in open : Outranks(t, x)})
        BY <1>1, FS_Subset
      <3> QED BY <1>4, <3>1, FS_CardinalityType
    <2> HIDE DEF place
    <2>3. size(s) = n - 1
      BY <2>1, <2>2
    <2>4. Ranked(open, n) = CHOOSE x \in open : size(x) = n - 1
      BY DEF Ranked
    <2> HIDE DEF size
    <2>5. Ranked(open, n) \in open /\ size(Ranked(open, n)) = n - 1
      BY <2>3, <2>4
    <2> QED BY <2>2, <2>5
  <1>6. place \in [open -> 1 .. Cardinality(open)]
    BY <1>2
  <1> QED
    <2> HIDE DEF place
    <2> QED BY <1>1, <1>3, <1>5, <1>6

\* FindSpans, step by step.
LEMMA KeptBySteps ==
    ASSUME NEW text, NEW open, open = Open(text), Cardinality(open) \in Nat
    PROVE  \E c : /\ FindSpans(text) = c[Cardinality(open)]
                  /\ c[0] = {}
                  /\ \A k \in 1 .. Cardinality(open) : c[k] = Kept(c[k - 1], Ranked(open, k))
  <1> DEFINE N == Cardinality(open)
             e(x, k) == Kept(x, Ranked(open, k))
             Steps(f, n) == f = [k \in 0 .. n |-> IF k = 0 THEN {} ELSE e(f[k - 1], k)]
             G == {n \in Nat : \E f : Steps(f, n)}
             d == CHOOSE f : Steps(f, N)
  <1>1. FindSpans(text) = d[N]
    BY DEF FindSpans
  <1> HIDE DEF N, e
  <1>2. 0 \in G
    <2>1. Steps([k \in 0 .. 0 |-> {}], 0)
      OBVIOUS
    <2> QED BY <2>1
  <1>3. ASSUME NEW n \in Nat, n \in G PROVE n + 1 \in G
    <2>1. PICK f : Steps(f, n)
      BY <1>3
    <2> DEFINE g == [k \in 0 .. n + 1 |-> IF k = n + 1 THEN e(f[n], n + 1) ELSE f[k]]
    <2>2. \A k \in 0 .. n + 1 : g[k] = IF k = 0 THEN {} ELSE e(g[k - 1], k)
      <3>1. \A k \in 0 .. n : f[k] = IF k = 0 THEN {} ELSE e(f[k - 1], k)
        BY <2>1
      <3>2. \A k \in 0 .. n : g[k] = f[k]
        OBVIOUS
      <3>3. g[n + 1] = e(f[n], n + 1)
        OBVIOUS
      <3> HIDE DEF g
      <3> QED BY <3>1, <3>2, <3>3
    <2>3. Steps(g, n + 1)
      BY <2>2
    <2> HIDE DEF g, Steps
    <2> QED BY <2>3
  <1>4. N \in G
    <2> HIDE DEF G
    <2> QED BY <1>2, <1>3, NumberInduction DEF N
  <1>5. Steps(d, N)
    <2> HIDE DEF Steps
    <2> QED BY <1>4
  <1>6. \A k \in 0 .. N : d[k] = IF k = 0 THEN {} ELSE e(d[k - 1], k)
    <2> HIDE DEF d
    <2> QED BY <1>5
  <1>7. d[0] = {} /\ \A k \in 1 .. N : d[k] = e(d[k - 1], k)
    <2> HIDE DEF d
    <2> QED BY <1>6 DEF N
  <1> HIDE DEF d
  <1> QED BY <1>1, <1>7 DEF N, e

\* The greedy pass keeps the dominant matches.
LEMMA FindSpansDominates ==
    ASSUME NEW W, NEW text \in Seq(W)
    PROVE  Dominates(FindSpans(text), Open(text))
  <1> DEFINE open == Open(text)
             N == Cardinality(open)
  <1> HIDE DEF open
  <1>1. /\ N \in Nat
        /\ \E place \in [open -> 1 .. N] :
             /\ \A s, t \in open : Outranks(s, t) => place[s] < place[t]
             /\ \A n \in 1 .. N : Ranked(open, n) \in open /\ place[Ranked(open, n)] = n
    BY RankedIs DEF open
  <1>2. PICK place \in [open -> 1 .. N] :
             /\ \A s, t \in open : Outranks(s, t) => place[s] < place[t]
             /\ \A n \in 1 .. N : Ranked(open, n) \in open /\ place[Ranked(open, n)] = n
    BY <1>1
  <1>3. PICK c : /\ FindSpans(text) = c[N]
                 /\ c[0] = {}
                 /\ \A k \in 1 .. N : c[k] = Kept(c[k - 1], Ranked(open, k))
    <2>1. open = Open(text)
      BY DEF open
    <2> QED BY <1>1, <2>1, KeptBySteps
  <1> HIDE DEF N
  \* no two matches have one place: places are a numbering of open by Ranked
  <1>4. \A s \in open : s = Ranked(open, place[s])
    <2> TAKE s \in open
    <2>1. /\ place[s] \in 1 .. N /\ Ranked(open, place[s]) \in open
          /\ place[Ranked(open, place[s])] = place[s]
      BY <1>2
    <2>2. ~(place[s] < place[s])
      BY <1>1, <2>1
    <2>3. s = Ranked(open, place[s]) \/ Outranks(s, Ranked(open, place[s]))
                                     \/ Outranks(Ranked(open, place[s]), s)
      BY <2>1, OutranksIsAnOrder DEF open
    <2> QED BY <1>2, <2>1, <2>2, <2>3
  <1> DEFINE upTo(n) == {s \in open : place[s] <= n}
             G == {n \in Nat : n <= N => Dominates(c[n], upTo(n))}
  <1>5. 0 \in G
    <2>1. upTo(0) = {}
      BY <1>1, <1>2
    <2> QED BY <1>3, <2>1 DEF Dominates
  <1>6. ASSUME NEW n \in Nat, n \in G PROVE n + 1 \in G
    <2> SUFFICES ASSUME n + 1 <= N PROVE Dominates(c[n + 1], upTo(n + 1))
      <3> HIDE DEF upTo
      <3> QED OBVIOUS
    <2> DEFINE x == Ranked(open, n + 1)
    <2>1. n + 1 \in 1 .. N /\ (n + 1) - 1 = n /\ n <= N
      BY <1>1
    <2>2. /\ c[n + 1] = IF \E t \in c[n] : Overlap(x, t) THEN c[n] ELSE c[n] \cup {x}
          /\ x \in open /\ place[x] = n + 1
      BY <1>2, <1>3, <2>1 DEF Kept
    <2>3. \A s \in open : place[s] <= n + 1 => s = x \/ place[s] <= n
      <3> TAKE s \in open
      <3>1. place[s] \in Nat /\ s = Ranked(open, place[s])
        BY <1>1, <1>2, <1>4
      <3> QED BY <3>1
    <2>4. Dominates(c[n], upTo(n))
      BY <1>6, <2>1
    <2>5. \A t \in c[n] : t \in open /\ place[t] <= n /\ Outranks(t, x)
      <3> TAKE t \in c[n]
      <3>1. t \in open /\ place[t] <= n
        BY <2>4 DEF Dominates
      <3>2. t = x \/ Outranks(t, x) \/ Outranks(x, t)
        BY <2>2, <3>1, OutranksIsAnOrder DEF open
      <3>3. place[t] \in Nat
        BY <1>1, <1>2, <3>1
      <3>4. t # x /\ ~(place[x] < place[t])
        BY <2>2, <3>1, <3>3
      <3> QED BY <1>2, <2>2, <3>1, <3>2, <3>4
    <2>6. c[n + 1] \subseteq upTo(n + 1)
      <3>1. \A t \in c[n] : place[t] <= n + 1
        BY <1>1, <1>2, <2>5
      <3>2. x \in upTo(n + 1)
        BY <2>2
      <3> HIDE DEF x
      <3> QED BY <2>2, <2>5, <3>1, <3>2
    <2>7. \A s, t : Overlap(s, t) <=> Overlap(t, s)
      BY DEF Overlap
    <2>8. \A s, t \in c[n + 1] : s # t => ~Overlap(s, t)
      <3> HIDE DEF x
      <3> QED BY <2>2, <2>4, <2>7 DEF Dominates
    <2>9. ASSUME NEW s \in upTo(n + 1) \ c[n + 1]
          PROVE  \E t \in c[n + 1] : Overlap(s, t) /\ Outranks(t, s)
      <3>1. CASE s = x
        <4>1. \E t \in c[n] : Overlap(x, t)
          <5> HIDE DEF x
          <5> QED BY <2>2, <2>9, <3>1
        <4> HIDE DEF x
        <4> QED BY <2>2, <2>5, <3>1, <4>1
      <3>2. CASE s # x
        <4>1. s \in upTo(n) \ c[n]
          <5> HIDE DEF x
          <5> QED BY <2>2, <2>3, <2>9, <3>2
        <4>2. \E t \in c[n] : Overlap(s, t) /\ Outranks(t, s)
          BY <2>4, <4>1 DEF Dominates
        <4> HIDE DEF x
        <4> QED BY <2>2, <4>2
      <3> QED BY <3>1, <3>2
    <2> HIDE DEF x, upTo
    <2> QED BY <2>6, <2>8, <2>9 DEF Dominates
  <1>7. \A n \in Nat : n \in G
    <2> HIDE DEF G
    <2> QED BY <1>5, <1>6, NumberInduction
  <1>8. upTo(N) = open
    BY <1>1, <1>2
  <1> QED
    <2>1. Dominates(c[N], upTo(N))
      <3> HIDE DEF upTo
      <3> QED BY <1>1, <1>7
    <2> QED BY <1>3, <1>8, <2>1 DEF open

\* What the reference calls dominant is what the greedy pass keeps.
LEMMA DominantIs ==
    ASSUME NEW W, NEW text \in Seq(W)
    PROVE  Dominant(text) = IF redactor.enabled THEN FindSpans(text) ELSE {}
  <1> DEFINE open == Open(text)
  <1>1. Dominates(FindSpans(text), open)
    BY FindSpansDominates
  <1>2. redactor.enabled => Dominant(text) = CHOOSE kept \in SUBSET open : Dominates(kept, open)
    <2>1. \A kept \in SUBSET open : Dominates(kept, open) <=>
            /\ \A s, t \in kept : s # t => ~Overlap(s, t)
            /\ \A s \in open \ kept : \E t \in kept : Overlap(s, t) /\ Outranks(t, s)
      BY DEF Dominates
    <2> QED BY <2>1 DEF Dominant
  <1>3. \A kept : Dominates(kept, open) => kept \in SUBSET open /\ kept = FindSpans(text)
    <2> TAKE kept
    <2> HAVE Dominates(kept, open)
    <2>1. kept = FindSpans(text)
      BY <1>1, DominantIsOne
    <2> QED BY <2>1 DEF Dominates
  <1> QED BY <1>1, <1>2, <1>3 DEF Dominant

----------------------------------------------------------------------------
(***************************************************************************)
(* Numbering.                                                              *)
(***************************************************************************)


\* Where a reader first meets a value.
LEMMA FirstInIs ==
    ASSUME NEW K, NEW read \in Seq(K), NEW k \in ToSet(read)
    PROVE  /\ FirstIn(read, k) \in 1 .. Len(read)
           /\ read[FirstIn(read, k)] = k
           /\ \A i \in 1 .. Len(read) : read[i] = k => FirstIn(read, k) <= i
  <1> DEFINE n == Len(read)
             T == {i \in 1 .. n : read[i] = k}
  <1>1. n \in Nat /\ DOMAIN read = 1 .. n
    BY LenProperties
  <1>2. T \in SUBSET Nat /\ T # {}
    BY <1>1 DEF ToSet
  <1>3. PICK m \in T : \A i \in T : m <= i
    <2> HIDE DEF T
    <2> QED BY <1>2, LeastNumber
  <1>4. m \in DOMAIN read /\ read[m] = k /\ \A j \in 1 .. m - 1 : read[j] # k
    <2>1. \A j \in 1 .. m - 1 : j \in 1 .. n /\ ~(m <= j)
      BY <1>1
    <2> HIDE DEF n
    <2> QED BY <1>1, <1>3, <2>1
  <1>5. \A i \in DOMAIN read : read[i] = k /\ (\A j \in 1 .. i - 1 : read[j] # k) => i = m
    <2> SUFFICES ASSUME NEW i \in DOMAIN read, read[i] = k, \A j \in 1 .. i - 1 : read[j] # k
                 PROVE  i = m
      OBVIOUS
    <2>1. i \in T
      BY <1>1
    <2>2. i \in Nat /\ m \in Nat /\ m <= i
      BY <1>1, <1>3, <2>1
    <2>3. ~(m \in 1 .. i - 1)
      BY <1>4
    <2>4. m >= 1
      BY <1>1, <1>3
    <2> QED BY <2>2, <2>3, <2>4
  <1>6. FirstIn(read, k) = m
    <2> DEFINE P(i) == read[i] = k /\ \A j \in 1 .. i - 1 : read[j] # k
    <2>1. P(m) /\ m \in DOMAIN read /\ \A i \in DOMAIN read : P(i) => i = m
      BY <1>4, <1>5
    <2>2. FirstIn(read, k) = CHOOSE i \in DOMAIN read : P(i)
      BY DEF FirstIn
    <2> HIDE DEF P
    <2> QED BY <2>1, <2>2
  <1> QED BY <1>3, <1>6

\* A key read later changes no first place, and has its own at the end if it is new.
LEMMA FirstInAppend ==
    ASSUME NEW K, NEW read \in Seq(K), NEW k \in K
    PROVE  /\ ToSet(Append(read, k)) = ToSet(read) \cup {k}
           /\ \A j \in ToSet(read) : FirstIn(Append(read, k), j) = FirstIn(read, j)
           /\ k \notin ToSet(read) => FirstIn(Append(read, k), k) = Len(read) + 1
  <1> DEFINE n == Len(read)
             more == Append(read, k)
  <1>1. /\ n \in Nat /\ DOMAIN read = 1 .. n
        /\ more \in Seq(K) /\ Len(more) = n + 1 /\ DOMAIN more = 1 .. n + 1
        /\ \A i \in 1 .. n : more[i] = read[i]
        /\ more[n + 1] = k
    BY LenProperties, AppendProperties
  <1> HIDE DEF n, more
  <1>2. ToSet(more) = ToSet(read) \cup {k}
    <2>1. \A i \in 1 .. n + 1 : i \in 1 .. n \/ i = n + 1
      BY <1>1
    <2>2. \A i \in 1 .. n : i \in 1 .. n + 1
      BY <1>1
    <2>3. n + 1 \in 1 .. n + 1
      BY <1>1
    <2> QED BY <1>1, <2>1, <2>2, <2>3 DEF ToSet
  <1>3. ASSUME NEW j \in ToSet(read) PROVE FirstIn(more, j) = FirstIn(read, j)
    <2> DEFINE a == FirstIn(read, j)
               b == FirstIn(more, j)
    <2>1. a \in 1 .. n /\ read[a] = j /\ \A i \in 1 .. n : read[i] = j => a <= i
      BY FirstInIs DEF n
    <2>2. b \in 1 .. n + 1 /\ more[b] = j /\ \A i \in 1 .. n + 1 : more[i] = j => b <= i
      BY <1>1, <1>2, FirstInIs
    <2> HIDE DEF a, b
    <2>3. a \in 1 .. n + 1 /\ more[a] = j
      BY <1>1, <2>1
    <2>4. b <= a /\ b \in 1 .. n
      BY <1>1, <2>1, <2>2, <2>3
    <2>5. a <= b
      BY <1>1, <2>1, <2>2, <2>4
    <2> QED BY <1>1, <2>1, <2>4, <2>5 DEF a, b
  <1>4. ASSUME k \notin ToSet(read) PROVE FirstIn(more, k) = n + 1
    <2>1. FirstIn(more, k) \in 1 .. n + 1 /\ more[FirstIn(more, k)] = k
      BY <1>1, <1>2, FirstInIs
    <2>2. \A i \in 1 .. n : more[i] # k
      BY <1>1, <1>4 DEF ToSet
    <2> QED BY <1>1, <2>1, <2>2
  <1> QED BY <1>2, <1>3, <1>4 DEF more, n

\* A sequence has finitely many places and values.
LEMMA ToSetFinite ==
    ASSUME NEW K, NEW read \in Seq(K)
    PROVE  IsFiniteSet(ToSet(read)) /\ IsFiniteSet(DOMAIN read)
  <1> DEFINE n == Len(read)
  <1>1. n \in Nat /\ DOMAIN read = 1 .. n /\ read \in [1 .. n -> K]
    BY LenProperties
  <1> HIDE DEF n
  <1>2. IsFiniteSet(1 .. n)
    BY <1>1, UpToFinite
  <1>3. read \in Surjection(1 .. n, ToSet(read))
    BY <1>1 DEF Surjection, ToSet
  <1> QED BY <1>1, <1>2, <1>3, FS_Surjection

\* An index holds the values read, numbered in each class as they first came.
IndexTold(index, read) ==
    /\ DOMAIN index = ToSet(read)
    /\ \A k \in DOMAIN index :
         index[k] = Cardinality({j \in OfClass(index, k[1]) : FirstIn(read, j) <= FirstIn(read, k)})

Extends(more, index) ==
    \A k \in DOMAIN index : k \in DOMAIN more /\ more[k] = index[k]

\* A value met gets the next index of its class unless it has one: the index still
\* says how many of its class were first met no later.
LEMMA OneMoreRead ==
    ASSUME NEW K, NEW read \in Seq(K), NEW index, IndexTold(index, read), NEW s, Key(s) \in K
    PROVE  /\ IndexTold(WithToken(index, s), Append(read, Key(s)))
           /\ Extends(WithToken(index, s), index)
           /\ Key(s) \in DOMAIN WithToken(index, s)
  <1> DEFINE k == Key(s)
             c == s.class
             more == Append(read, k)
             new == WithToken(index, s)
  <1>1. k[1] = c
    BY DEF Key
  <1>2. /\ ToSet(more) = ToSet(read) \cup {k}
        /\ \A j \in ToSet(read) : FirstIn(more, j) = FirstIn(read, j)
        /\ k \notin ToSet(read) => FirstIn(more, k) = Len(read) + 1
    <2> HIDE DEF k
    <2> QED BY FirstInAppend DEF k
  <1>3. new = [l \in DOMAIN index \cup {k} |->
                 IF l \in DOMAIN index THEN index[l] ELSE Cardinality(OfClass(index, c)) + 1]
    BY DEF WithToken
  <1> HIDE DEF k, c, more, new
  <1>4. CASE k \in DOMAIN index
    <2>1. /\ DOMAIN new = DOMAIN index /\ \A l \in DOMAIN index : new[l] = index[l]
          /\ ToSet(more) = ToSet(read)
      BY <1>2, <1>3, <1>4 DEF IndexTold
    <2>2. ASSUME NEW l \in DOMAIN index
          PROVE  new[l] = Cardinality({j \in OfClass(new, l[1]) : FirstIn(more, j) <= FirstIn(more, l)})
      <3>1. /\ \A j \in OfClass(index, l[1]) : FirstIn(more, j) = FirstIn(read, j)
            /\ FirstIn(more, l) = FirstIn(read, l)
        BY <1>2 DEF IndexTold, OfClass
      <3>2. OfClass(new, l[1]) = OfClass(index, l[1])
        BY <2>1 DEF OfClass
      <3>3. {j \in OfClass(new, l[1]) : FirstIn(more, j) <= FirstIn(more, l)}
              = {j \in OfClass(index, l[1]) : FirstIn(read, j) <= FirstIn(read, l)}
        BY <3>1, <3>2
      <3> QED BY <2>1, <3>3 DEF IndexTold
    <2> QED BY <1>4, <2>1, <2>2 DEF IndexTold, Extends, k, more, new
  <1>5. CASE k \notin DOMAIN index
    <2> DEFINE size == Cardinality(OfClass(index, c)) + 1
    <2>1. /\ DOMAIN new = DOMAIN index \cup {k} /\ new[k] = size
          /\ \A l \in DOMAIN index : new[l] = index[l]
      BY <1>3, <1>5
    <2>2. /\ \A l \in DOMAIN index : FirstIn(more, l) = FirstIn(read, l)
          /\ FirstIn(more, k) = Len(read) + 1
          /\ \A l \in DOMAIN index : FirstIn(read, l) \in 1 .. Len(read)
          /\ Len(read) \in Nat
      BY <1>2, <1>5, FirstInIs, LenProperties DEF IndexTold
    <2>3. \A l : OfClass(new, l) = OfClass(index, l) \cup (IF l = c THEN {k} ELSE {})
      BY <1>1, <2>1 DEF OfClass
    <2>4. \A l : OfClass(index, l) \subseteq DOMAIN index
      BY DEF OfClass
    <2>5. ASSUME NEW l \in DOMAIN index
          PROVE  new[l] = Cardinality({j \in OfClass(new, l[1]) : FirstIn(more, j) <= FirstIn(more, l)})
      <3>1. {j \in OfClass(new, l[1]) : FirstIn(more, j) <= FirstIn(more, l)}
              = {j \in OfClass(index, l[1]) : FirstIn(read, j) <= FirstIn(read, l)}
        <4>1. ~(FirstIn(more, k) <= FirstIn(more, l))
          BY <2>2
        <4>2. \A j \in OfClass(index, l[1]) : FirstIn(more, j) = FirstIn(read, j)
          BY <2>2, <2>4
        <4> QED BY <2>2, <2>3, <4>1, <4>2
      <3> QED BY <2>1, <3>1 DEF IndexTold
    <2>6. new[k] = Cardinality({j \in OfClass(new, c) : FirstIn(more, j) <= FirstIn(more, k)})
      <3>1. {j \in OfClass(new, c) : FirstIn(more, j) <= FirstIn(more, k)} = OfClass(index, c) \cup {k}
        <4>1. \A j \in OfClass(index, c) : FirstIn(more, j) <= FirstIn(more, k)
          BY <2>2, <2>4
        <4>2. FirstIn(more, k) <= FirstIn(more, k)
          BY <2>2
        <4> QED BY <2>3, <4>1, <4>2
      <3>2. IsFiniteSet(OfClass(index, c)) /\ k \notin OfClass(index, c)
        BY <1>5, <2>4, ToSetFinite, FS_Subset DEF IndexTold
      <3>3. Cardinality(OfClass(index, c) \cup {k}) = size
        BY <3>2, CardAdd
      <3> QED BY <2>1, <3>1, <3>3
    <2>7. DOMAIN new = ToSet(more)
      BY <1>2, <2>1 DEF IndexTold
    <2>8. IndexTold(new, more)
      <3> HIDE DEF size
      <3> QED BY <1>1, <2>1, <2>5, <2>6, <2>7 DEF IndexTold
    <2> QED BY <2>1, <2>8 DEF Extends, k, more, new
  <1> QED BY <1>4, <1>5

OfClassIn(read, c) == Cardinality({i \in DOMAIN read : read[i][1] = c})

\* One more value read is one more of its class, and of no other.
LEMMA OneMoreCounted ==
    ASSUME NEW K, NEW read \in Seq(K), NEW k \in K, NEW c
    PROVE  /\ OfClassIn(read, c) \in Nat
           /\ OfClassIn(Append(read, k), c) = OfClassIn(read, c) + (IF k[1] = c THEN 1 ELSE 0)
  <1> DEFINE n == Len(read)
             more == Append(read, k)
             A == {i \in DOMAIN read : read[i][1] = c}
             B == {i \in DOMAIN more : more[i][1] = c}
  <1>1. /\ n \in Nat /\ DOMAIN read = 1 .. n /\ DOMAIN more = 1 .. n + 1
        /\ \A i \in 1 .. n : more[i] = read[i]
        /\ more[n + 1] = k
    BY LenProperties, AppendProperties
  <1>2. IsFiniteSet(A)
    BY ToSetFinite, FS_Subset
  <1> HIDE DEF n, more
  <1>3. (IF k[1] = c THEN B = A \cup {n + 1} ELSE B = A) /\ n + 1 \notin A
    <2>1. \A i \in 1 .. n + 1 : i \in 1 .. n \/ i = n + 1
      BY <1>1
    <2>2. \A i \in 1 .. n : i \in 1 .. n + 1
      BY <1>1
    <2>3. n + 1 \in 1 .. n + 1 /\ n + 1 \notin 1 .. n
      BY <1>1
    <2> QED BY <1>1, <2>1, <2>2, <2>3
  <1>4. Cardinality(A) \in Nat
    BY <1>2, FS_CardinalityType
  <1>5. Cardinality(B) = Cardinality(A) + (IF k[1] = c THEN 1 ELSE 0)
    <2> HIDE DEF A, B
    <2>1. Cardinality(A \cup {n + 1}) = Cardinality(A) + 1
      BY <1>2, <1>3, CardAdd
    <2>2. CASE k[1] = c
      BY <1>3, <2>1, <2>2
    <2>3. CASE k[1] # c
      BY <1>3, <1>4, <2>3
    <2> QED BY <2>2, <2>3
  <1> QED BY <1>4, <1>5 DEF more, OfClassIn

----------------------------------------------------------------------------
(***************************************************************************)
(* Sequences end to end.                                                   *)
(***************************************************************************)

\* FlattenSeq, step by step.
LEMMA FlattenBySteps ==
    ASSUME NEW S, NEW seqs \in Seq(Seq(S))
    PROVE  \E c : /\ FlattenSeq(seqs) = c[Len(seqs)]
                  /\ c[0] = << >>
                  /\ \A k \in 1 .. Len(seqs) : c[k] = c[k - 1] \o seqs[k]
                  /\ \A k \in 0 .. Len(seqs) : c[k] \in Seq(S)
  <1> DEFINE N == Len(seqs)
             Steps(f, n) == f = [k \in 1 .. n |-> IF k = 1 THEN seqs[k] ELSE f[k - 1] \o seqs[k]]
             G == {n \in Nat : \E f : Steps(f, n)}
             d == CHOOSE f : Steps(f, N)
             c == [k \in 0 .. N |-> IF k = 0 THEN << >> ELSE d[k]]
  <1>1. N \in Nat /\ \A k \in 1 .. N : seqs[k] \in Seq(S)
    BY LenProperties
  <1>2. FlattenSeq(seqs) = IF N = 0 THEN seqs ELSE d[N]
    BY DEF FlattenSeq
  <1>3. N = 0 => seqs = << >>
    BY EmptySeq
  <1> HIDE DEF N
  <1>4. 0 \in G
    <2>1. Steps([k \in 1 .. 0 |-> << >>], 0)
      OBVIOUS
    <2> QED BY <2>1
  <1>5. ASSUME NEW n \in Nat, n \in G PROVE n + 1 \in G
    <2>1. PICK f : Steps(f, n)
      BY <1>5
    <2> DEFINE x == IF n = 0 THEN seqs[1] ELSE f[n] \o seqs[n + 1]
               g == [k \in 1 .. n + 1 |-> IF k = n + 1 THEN x ELSE f[k]]
    <2>2. \A k \in 1 .. n + 1 : g[k] = IF k = 1 THEN seqs[k] ELSE g[k - 1] \o seqs[k]
      <3>1. \A k \in 1 .. n : f[k] = IF k = 1 THEN seqs[k] ELSE f[k - 1] \o seqs[k]
        BY <2>1
      <3>2. \A k \in 1 .. n : g[k] = f[k]
        OBVIOUS
      <3>3. g[n + 1] = x
        OBVIOUS
      <3> HIDE DEF g
      <3>4. \A k \in 1 .. n + 1 : k = n + 1 \/ k \in 1 .. n
        OBVIOUS
      <3>5. \A k \in 1 .. n : k # 1 => k - 1 \in 1 .. n
        OBVIOUS
      <3>6. n # 0 => n \in 1 .. n /\ n + 1 # 1 /\ (n + 1) - 1 = n
        OBVIOUS
      <3> QED BY <3>1, <3>2, <3>3, <3>4, <3>5, <3>6
    <2>3. Steps(g, n + 1)
      BY <2>2
    <2> HIDE DEF g, Steps
    <2> QED BY <2>3
  <1>6. N \in G
    <2> HIDE DEF G
    <2> QED BY <1>1, <1>4, <1>5, NumberInduction
  <1>7. Steps(d, N)
    <2> HIDE DEF Steps
    <2> QED BY <1>6
  <1>8. \A k \in 1 .. N : d[k] = IF k = 1 THEN seqs[k] ELSE d[k - 1] \o seqs[k]
    <2> HIDE DEF d
    <2> QED BY <1>7
  <1> HIDE DEF d
  <1>9. c[0] = << >> /\ \A k \in 1 .. N : c[k] = d[k]
    BY <1>1
  <1> HIDE DEF c
  <1>10. \A k \in 1 .. N : k # 1 => c[k] = c[k - 1] \o seqs[k]
    <2> TAKE k \in 1 .. N
    <2> HAVE k # 1
    <2>1. k - 1 \in 1 .. N
      BY <1>1
    <2> QED BY <1>8, <1>9, <2>1
  <1>11. \A k \in 1 .. N : c[k] = c[k - 1] \o seqs[k]
    <2>1. ASSUME NEW k \in 1 .. N, k = 1 PROVE c[k] = c[k - 1] \o seqs[k]
      <3>1. seqs[k] \in Seq(S) /\ c[k] = seqs[k]
        BY <1>1, <1>8, <1>9, <2>1
      <3>2. << >> \o seqs[k] = seqs[k]
        BY <3>1, ConcatEmptySeq
      <3>3. c[k - 1] = << >>
        BY <1>9, <2>1
      <3> QED BY <3>1, <3>2, <3>3
    <2> QED BY <1>10, <2>1
  <1> DEFINE H == {n \in Nat : n <= N => c[n] \in Seq(S)}
  <1>12. \A n \in Nat : n \in H
    <2>1. 0 \in H
      BY <1>9, EmptySeq
    <2>2. ASSUME NEW n \in Nat, n \in H PROVE n + 1 \in H
      <3> SUFFICES ASSUME n + 1 <= N PROVE c[n + 1] \in Seq(S)
        OBVIOUS
      <3>1. n + 1 \in 1 .. N /\ (n + 1) - 1 = n /\ n <= N
        BY <1>1
      <3>2. c[n] \in Seq(S) /\ seqs[n + 1] \in Seq(S) /\ c[n + 1] = c[n] \o seqs[n + 1]
        BY <1>1, <1>11, <2>2, <3>1
      <3> QED BY <3>2, ConcatProperties
    <2> HIDE DEF H
    <2> QED BY <2>1, <2>2, NumberInduction
  <1>13. \A k \in 0 .. N : c[k] \in Seq(S)
    BY <1>1, <1>12
  <1>14. FlattenSeq(seqs) = c[N]
    <2>1. N = 0 \/ N \in 1 .. N
      BY <1>1
    <2> QED BY <1>2, <1>3, <1>9, <2>1
  <1> QED BY <1>9, <1>11, <1>13, <1>14 DEF N

\* A sequence more at the end.
LEMMA FlattenAppend ==
    ASSUME NEW S, NEW seqs \in Seq(Seq(S)), NEW e \in Seq(S)
    PROVE  /\ FlattenSeq(seqs) \in Seq(S)
           /\ FlattenSeq(Append(seqs, e)) = FlattenSeq(seqs) \o e
  <1> DEFINE n == Len(seqs)
             more == Append(seqs, e)
  <1>1. /\ n \in Nat /\ more \in Seq(Seq(S)) /\ Len(more) = n + 1
        /\ \A k \in 1 .. n : more[k] = seqs[k]
        /\ more[n + 1] = e
    BY LenProperties, AppendProperties
  <1>2. PICK c : /\ FlattenSeq(seqs) = c[n]
                 /\ c[0] = << >>
                 /\ \A k \in 1 .. n : c[k] = c[k - 1] \o seqs[k]
                 /\ \A k \in 0 .. n : c[k] \in Seq(S)
    BY FlattenBySteps
  <1> HIDE DEF more, n
  <1>3. PICK d : /\ FlattenSeq(more) = d[n + 1]
                 /\ d[0] = << >>
                 /\ \A k \in 1 .. n + 1 : d[k] = d[k - 1] \o more[k]
    <2>1. \E d : /\ FlattenSeq(more) = d[Len(more)]
                 /\ d[0] = << >>
                 /\ \A k \in 1 .. Len(more) : d[k] = d[k - 1] \o more[k]
      <3>1. more \in Seq(Seq(S))
        BY <1>1
      <3>2. \E d : /\ FlattenSeq(more) = d[Len(more)]
                   /\ d[0] = << >>
                   /\ \A k \in 1 .. Len(more) : d[k] = d[k - 1] \o more[k]
                   /\ \A k \in 0 .. Len(more) : d[k] \in Seq(S)
        BY ONLY <3>1, FlattenBySteps
      <3> QED BY <3>2
    <2> QED BY <1>1, <2>1
  <1> DEFINE G == {k \in Nat : k <= n => d[k] = c[k]}
  <1>4. 0 \in G
    BY <1>2, <1>3
  <1>5. ASSUME NEW k \in Nat, k \in G PROVE k + 1 \in G
    <2> SUFFICES ASSUME k + 1 <= n PROVE d[k + 1] = c[k + 1]
      OBVIOUS
    <2>1. k + 1 \in 1 .. n /\ k + 1 \in 1 .. n + 1 /\ (k + 1) - 1 = k /\ k <= n
      BY <1>1
    <2>2. d[k] = c[k]
      BY <1>5, <2>1
    <2> QED BY <1>1, <1>2, <1>3, <2>1, <2>2
  <1>6. d[n] = c[n]
    <2>1. \A k \in Nat : k \in G
      <3> HIDE DEF G
      <3> QED BY <1>4, <1>5, NumberInduction
    <2> QED BY <1>1, <2>1
  <1>7. d[n + 1] = d[n] \o more[n + 1]
    <2>1. n + 1 \in 1 .. n + 1 /\ (n + 1) - 1 = n
      BY <1>1
    <2> QED BY <1>3, <2>1
  <1>8. n \in 0 .. n
    BY <1>1
  <1> QED BY <1>1, <1>2, <1>3, <1>6, <1>7, <1>8 DEF more

\* Sequences are joined in any grouping.
LEMMA Regrouped ==
    ASSUME NEW W, NEW a \in Seq(W), NEW b \in Seq(W), NEW c \in Seq(W)
    PROVE  (a \o b) \o c = a \o (b \o c)
  OBVIOUS


----------------------------------------------------------------------------
(***************************************************************************)
(* The values of a text are numbered, and counted, in reading order.       *)
(***************************************************************************)

\* Numbered, step by step.
LEMMA NumberedBySteps ==
    ASSUME NEW index, NEW spans, NEW N \in Nat
    PROVE  \E c : /\ Numbered(index, spans, N) = c[N]
                  /\ c[0] = index
                  /\ \A k \in 1 .. N : c[k] = WithTokenAt(c[k - 1], spans, k)
  <1> DEFINE e(x, k) == WithTokenAt(x, spans, k)
             Steps(f, n) == f = [k \in 0 .. n |-> IF k = 0 THEN index ELSE e(f[k - 1], k)]
             G == {n \in Nat : \E f : Steps(f, n)}
             d == CHOOSE f : Steps(f, N)
  <1>1. Numbered(index, spans, N) = d[N]
    BY DEF Numbered
  <1> HIDE DEF e
  <1>2. 0 \in G
    <2>1. Steps([k \in 0 .. 0 |-> index], 0)
      OBVIOUS
    <2> QED BY <2>1
  <1>3. ASSUME NEW n \in Nat, n \in G PROVE n + 1 \in G
    <2>1. PICK f : Steps(f, n)
      BY <1>3
    <2> DEFINE g == [k \in 0 .. n + 1 |-> IF k = n + 1 THEN e(f[n], n + 1) ELSE f[k]]
    <2>2. \A k \in 0 .. n + 1 : g[k] = IF k = 0 THEN index ELSE e(g[k - 1], k)
      <3>1. \A k \in 0 .. n : f[k] = IF k = 0 THEN index ELSE e(f[k - 1], k)
        BY <2>1
      <3>2. \A k \in 0 .. n : g[k] = f[k]
        OBVIOUS
      <3>3. g[n + 1] = e(f[n], n + 1)
        OBVIOUS
      <3> HIDE DEF g
      <3> QED BY <3>1, <3>2, <3>3
    <2>3. Steps(g, n + 1)
      BY <2>2
    <2> HIDE DEF g, Steps
    <2> QED BY <2>3
  <1>4. N \in G
    <2> HIDE DEF G
    <2> QED BY <1>2, <1>3, NumberInduction
  <1>5. Steps(d, N)
    <2> HIDE DEF Steps
    <2> QED BY <1>4
  <1>6. \A k \in 0 .. N : d[k] = IF k = 0 THEN index ELSE e(d[k - 1], k)
    <2> HIDE DEF d
    <2> QED BY <1>5
  <1>7. d[0] = index /\ \A k \in 1 .. N : d[k] = e(d[k - 1], k)
    <2> HIDE DEF d
    <2> QED BY <1>6
  <1> HIDE DEF d
  <1> QED BY <1>1, <1>7 DEF e

\* Matches with places of their own, among the first n.
Placed(spans, n) ==
    /\ IsFiniteSet(spans)
    /\ \A s \in spans : s.start \in 1 .. n
    /\ \A s, t \in spans : s.start = t.start => s = t


\* The values at the first n places.
ValueAt(spans, i) == IF StartsAt(spans, i) THEN <<Key(SpanAt(spans, i))>> ELSE << >>
ValuesOf(spans, n) == FlattenSeq([i \in 1 .. n |-> ValueAt(spans, i)])

\* What numbering the values of one text does.
LEMMA NumberedTold ==
    ASSUME NEW K, NEW read \in Seq(K), NEW index, IndexTold(index, read),
           NEW n \in Nat, NEW spans, Placed(spans, n), \A s \in spans : Key(s) \in K
    PROVE  /\ ValuesOf(spans, n) \in Seq(K)
           /\ IndexTold(Numbered(index, spans, n), read \o ValuesOf(spans, n))
           /\ Extends(Numbered(index, spans, n), index)
           /\ \A s \in spans : Key(s) \in DOMAIN Numbered(index, spans, n)
           /\ \A c : /\ OfClassIn(read, c) \in Nat
                     /\ OfClassIn(read \o ValuesOf(spans, n), c)
                          = OfClassIn(read, c) + Cardinality({s \in spans : s.class = c})
  <1> DEFINE seqs == [i \in 1 .. n |-> ValueAt(spans, i)]
  <1>1. PICK x : /\ Numbered(index, spans, n) = x[n]
                 /\ x[0] = index
                 /\ \A k \in 1 .. n : x[k] = WithTokenAt(x[k - 1], spans, k)
    BY NumberedBySteps
  <1>2. \A i \in 1 .. n : StartsAt(spans, i) => SpanAt(spans, i) \in spans
    BY DEF StartsAt, SpanAt
  <1>3. \A i \in 1 .. n : ValueAt(spans, i) \in Seq(K)
    <2> TAKE i \in 1 .. n
    <2>1. CASE StartsAt(spans, i)
      <3>1. Key(SpanAt(spans, i)) \in K
        BY <1>2, <2>1
      <3> QED BY <2>1, <3>1 DEF ValueAt
    <2>2. CASE ~StartsAt(spans, i)
      BY <2>2, EmptySeq DEF ValueAt
    <2> QED BY <2>1, <2>2
  <1>4. /\ seqs \in Seq(Seq(K)) /\ Len(seqs) = n
        /\ \A i \in 1 .. n : seqs[i] = ValueAt(spans, i)
    <2>1. seqs \in [1 .. n -> Seq(K)]
      BY <1>3
    <2>2. seqs \in Seq(Seq(K)) /\ DOMAIN seqs = 1 .. n
      BY <2>1
    <2>3. Len(seqs) \in Nat /\ DOMAIN seqs = 1 .. Len(seqs)
      BY <2>2, LenProperties
    <2>4. Len(seqs) = n
      BY <2>2, <2>3
    <2> QED BY <2>2, <2>4
  <1>5. ValuesOf(spans, n) = FlattenSeq(seqs)
    BY DEF ValuesOf
  <1> HIDE DEF seqs
  <1>6. PICK v : /\ ValuesOf(spans, n) = v[n]
                 /\ v[0] = << >>
                 /\ \A k \in 1 .. n : v[k] = v[k - 1] \o ValueAt(spans, k)
                 /\ \A k \in 0 .. n : v[k] \in Seq(K)
    <2>1. \E v : /\ FlattenSeq(seqs) = v[Len(seqs)]
                 /\ v[0] = << >>
                 /\ \A k \in 1 .. Len(seqs) : v[k] = v[k - 1] \o seqs[k]
                 /\ \A k \in 0 .. Len(seqs) : v[k] \in Seq(K)
      BY <1>4, FlattenBySteps
    <2> QED BY <1>4, <1>5, <2>1
  <1> DEFINE upTo(i, c) == {s \in spans : s.start <= i /\ s.class = c}
             Done(i) == /\ IndexTold(x[i], read \o v[i])
                        /\ Extends(x[i], index)
                        /\ \A s \in spans : s.start <= i => Key(s) \in DOMAIN x[i]
                        /\ \A c : OfClassIn(read \o v[i], c)
                                    = OfClassIn(read, c) + Cardinality(upTo(i, c))
             G == {i \in Nat : i <= n => Done(i)}
  <1>7. \A c : OfClassIn(read, c) \in Nat
    <2> TAKE c
    <2>1. IsFiniteSet({i \in DOMAIN read : read[i][1] = c})
      BY ToSetFinite, FS_Subset
    <2> QED BY <2>1, FS_CardinalityType DEF OfClassIn
  <1>8. \A i, c : IsFiniteSet(upTo(i, c)) /\ Cardinality(upTo(i, c)) \in Nat
    BY FS_Subset, FS_CardinalityType DEF Placed
  <1>9. \A s \in spans : s.start \in Nat /\ s.start >= 1 /\ s.start <= n
    BY DEF Placed
  <1>10. 0 \in G
    <2>1. read \o << >> = read
      BY ConcatEmptySeq
    <2>2. \A c : upTo(0, c) = {}
      BY <1>9
    <2>3. Cardinality({}) = 0
      BY FS_EmptySet
    <2>4. Done(0)
      <3> HIDE DEF upTo
      <3>1. IndexTold(x[0], read \o v[0]) /\ Extends(x[0], index)
        BY <1>1, <1>6, <2>1 DEF Extends
      <3>2. \A s \in spans : ~(s.start <= 0)
        BY <1>9
      <3>3. \A c : OfClassIn(read \o v[0], c) = OfClassIn(read, c) + Cardinality(upTo(0, c))
        <4> TAKE c
        <4>1. Cardinality(upTo(0, c)) = 0
          BY <2>2, <2>3
        <4>2. OfClassIn(read \o v[0], c) = OfClassIn(read, c)
          BY <1>6, <2>1
        <4>3. OfClassIn(read, c) \in Nat
          BY <1>7
        <4> QED BY <4>1, <4>2, <4>3
      <3> QED BY <3>1, <3>2, <3>3
    <2> HIDE DEF Done
    <2> QED BY <2>4
  <1>11. ASSUME NEW i \in Nat, i \in G PROVE i + 1 \in G
    <2> SUFFICES ASSUME i + 1 <= n PROVE Done(i + 1)
      <3> HIDE DEF Done
      <3> QED OBVIOUS
    <2>1. i + 1 \in 1 .. n /\ (i + 1) - 1 = i /\ i <= n /\ i \in 0 .. n
      OBVIOUS
    <2>2. /\ x[i + 1] = WithTokenAt(x[i], spans, i + 1)
          /\ v[i + 1] = v[i] \o ValueAt(spans, i + 1)
          /\ v[i] \in Seq(K)
      BY <1>1, <1>6, <2>1
    <2>3. Done(i)
      <3> HIDE DEF Done
      <3> QED BY <1>11, <2>1
    <2>4. \A s \in spans : s.start <= i + 1 <=> (s.start <= i \/ s.start = i + 1)
      BY <1>9
    <2>5. read \o v[i] \in Seq(K)
      BY <2>2, ConcatProperties
    <2>6. CASE StartsAt(spans, i + 1)
      <3> DEFINE s == SpanAt(spans, i + 1)
                 k == Key(s)
                 before == read \o v[i]
      <3>1. s \in spans /\ s.start = i + 1 /\ k \in K
        BY <2>1, <2>6 DEF StartsAt, SpanAt
      <3>2. x[i + 1] = WithToken(x[i], s)
        BY <2>2, <2>6 DEF WithTokenAt
      <3>3. read \o v[i + 1] = Append(before, k)
        <4>1. v[i + 1] = v[i] \o <<k>>
          BY <2>2, <2>6 DEF ValueAt
        <4> DEFINE one == <<k>>
        <4> HIDE DEF k
        <4>2. one \in Seq(K)
          BY <3>1
        <4>3. read \o (v[i] \o one) = (read \o v[i]) \o one
          <5> DEFINE u == v[i]
          <5>1. read \in Seq(K) /\ u \in Seq(K) /\ one \in Seq(K)
            BY <2>2, <4>2
          <5> HIDE DEF one, u
          <5>2. read \o (u \o one) = (read \o u) \o one
            BY ONLY <5>1, ConcatAssociative
          <5> QED BY <5>2 DEF u
        <4> QED BY <2>5, <3>1, <4>1, <4>3, AppendIsConcat
      <3>9. before \in Seq(K)
        BY <2>5
      <3> HIDE DEF s, before
      <3>4. IndexTold(x[i], before)
        BY <2>3 DEF before
      <3>5. /\ IndexTold(x[i + 1], Append(before, k))
            /\ Extends(x[i + 1], x[i])
            /\ k \in DOMAIN x[i + 1]
        BY <3>1, <3>2, <3>4, <3>9, OneMoreRead
      <3>6. Extends(x[i + 1], index)
        BY <2>3, <3>5 DEF Extends
      <3>7. \A t \in spans : t.start <= i + 1 => Key(t) \in DOMAIN x[i + 1]
        <4>1. \A t \in spans : t.start = i + 1 => t = s
          BY <3>1 DEF Placed
        <4>2. \A t \in spans : t.start <= i => Key(t) \in DOMAIN x[i + 1]
          BY <2>3, <3>5 DEF Extends
        <4> QED BY <2>4, <3>5, <4>1, <4>2
      <3>8. ASSUME NEW c
            PROVE  OfClassIn(Append(before, k), c) = OfClassIn(read, c) + Cardinality(upTo(i + 1, c))
        <4>1. OfClassIn(Append(before, k), c) = OfClassIn(before, c) + (IF s.class = c THEN 1 ELSE 0)
          <5>1. k[1] = s.class
            BY DEF Key
          <5> HIDE DEF k
          <5> QED BY <3>1, <3>9, <5>1, OneMoreCounted
        <4>2. OfClassIn(before, c) = OfClassIn(read, c) + Cardinality(upTo(i, c))
          BY <2>3 DEF before
        <4>3. \A t \in spans : t.start = i + 1 <=> t = s
          BY <3>1 DEF Placed
        <4>4. s \notin upTo(i, c)
          BY <3>1
        <4>5. /\ s.class = c => upTo(i + 1, c) = upTo(i, c) \cup {s}
              /\ s.class # c => upTo(i + 1, c) = upTo(i, c)
          BY <2>4, <3>1, <4>3
        <4> HIDE DEF upTo
        <4>6. Cardinality(upTo(i, c) \cup {s}) = Cardinality(upTo(i, c)) + 1
          BY <1>8, <4>4, CardAdd
        <4>9. OfClassIn(read, c) \in Nat /\ Cardinality(upTo(i, c)) \in Nat
          BY <1>7, <1>8
        <4>7. CASE s.class = c
          <5>1. OfClassIn(Append(before, k), c) = OfClassIn(before, c) + 1
            BY <4>1, <4>7
          <5>2. Cardinality(upTo(i + 1, c)) = Cardinality(upTo(i, c)) + 1
            BY <4>5, <4>6, <4>7
          <5> HIDE DEF before, k
          <5> QED BY <4>2, <4>9, <5>1, <5>2
        <4>8. CASE s.class # c
          BY <4>1, <4>2, <4>5, <4>8, <4>9
        <4> QED BY <4>7, <4>8
      <3> HIDE DEF upTo
      <3> QED BY <3>3, <3>5, <3>6, <3>7, <3>8
    <2>7. CASE ~StartsAt(spans, i + 1)
      <3>1. x[i + 1] = x[i]
        BY <2>2, <2>7 DEF WithTokenAt
      <3>2. v[i + 1] = v[i]
        BY <2>2, <2>7, ConcatEmptySeq DEF ValueAt
      <3>3. \A s \in spans : s.start # i + 1
        BY <2>7 DEF StartsAt
      <3>4. \A c : upTo(i + 1, c) = upTo(i, c)
        BY <2>4, <3>3
      <3> HIDE DEF upTo
      <3> QED BY <2>3, <2>4, <3>1, <3>2, <3>3, <3>4
    <2> QED BY <2>6, <2>7
  <1>12. Done(n)
    <2>1. \A i \in Nat : i \in G
      <3> HIDE DEF G
      <3> QED BY <1>10, <1>11, NumberInduction
    <2> HIDE DEF Done
    <2> QED BY <2>1
  <1>13. \A c : upTo(n, c) = {s \in spans : s.class = c}
    BY <1>9
  <1>14. n \in 0 .. n
    OBVIOUS
  <1> HIDE DEF upTo
  <1> QED BY <1>1, <1>6, <1>7, <1>9, <1>12, <1>13, <1>14

----------------------------------------------------------------------------
(***************************************************************************)
(* Replacing right to left puts each token where its match was.            *)
(***************************************************************************)

\* Rewritten, step by step.
LEMMA RewrittenBySteps ==
    ASSUME NEW text, NEW spans, NEW index, NEW N \in Nat, N = Len(text)
    PROVE  \E c : /\ Rewritten(text, spans, index) = c[N]
                  /\ c[0] = text
                  /\ \A k \in 1 .. N : c[k] = ReplacedAt(c[k - 1], spans, index, N + 1 - k)
  <1> DEFINE e(x, k) == ReplacedAt(x, spans, index, N + 1 - k)
             Steps(f, n) == f = [k \in 0 .. n |-> IF k = 0 THEN text ELSE e(f[k - 1], k)]
             G == {n \in Nat : \E f : Steps(f, n)}
             d == CHOOSE f : Steps(f, N)
  <1>1. Rewritten(text, spans, index) = d[N]
    BY DEF Rewritten
  <1> HIDE DEF e
  <1>2. 0 \in G
    <2>1. Steps([k \in 0 .. 0 |-> text], 0)
      OBVIOUS
    <2> QED BY <2>1
  <1>3. ASSUME NEW n \in Nat, n \in G PROVE n + 1 \in G
    <2>1. PICK f : Steps(f, n)
      BY <1>3
    <2> DEFINE g == [k \in 0 .. n + 1 |-> IF k = n + 1 THEN e(f[n], n + 1) ELSE f[k]]
    <2>2. \A k \in 0 .. n + 1 : g[k] = IF k = 0 THEN text ELSE e(g[k - 1], k)
      <3>1. \A k \in 0 .. n : f[k] = IF k = 0 THEN text ELSE e(f[k - 1], k)
        BY <2>1
      <3>2. \A k \in 0 .. n : g[k] = f[k]
        OBVIOUS
      <3>3. g[n + 1] = e(f[n], n + 1)
        OBVIOUS
      <3> HIDE DEF g
      <3> QED BY <3>1, <3>2, <3>3
    <2>3. Steps(g, n + 1)
      BY <2>2
    <2> HIDE DEF g, Steps
    <2> QED BY <2>3
  <1>4. N \in G
    <2> HIDE DEF G
    <2> QED BY <1>2, <1>3, NumberInduction
  <1>5. Steps(d, N)
    <2> HIDE DEF Steps
    <2> QED BY <1>4
  <1>6. \A k \in 0 .. N : d[k] = IF k = 0 THEN text ELSE e(d[k - 1], k)
    <2> HIDE DEF d
    <2> QED BY <1>5
  <1>7. d[0] = text /\ \A k \in 1 .. N : d[k] = e(d[k - 1], k)
    <2> HIDE DEF d
    <2> QED BY <1>6
  <1> HIDE DEF d
  <1> QED BY <1>1, <1>7 DEF e

\* Matches of a text of n words that do not overlap.
Apart(spans, n) ==
    /\ \A s \in spans : /\ s.start \in 1 .. n /\ s.end \in 1 .. n + 1
                        /\ s.start < s.end
    /\ \A s, t \in spans : s # t => ~Overlap(s, t)

\* What a reader finds at place i.
TokenOf(s, index) == Token(s.class, index[Key(s)])
PieceAt(text, spans, index, i) ==
    LET over == {s \in spans : s.start <= i /\ i < s.end}
    IN  IF over = {} THEN <<text[i]>>
        ELSE LET s == CHOOSE t \in over : TRUE
             IN  IF i = s.start THEN <<TokenOf(s, index)>> ELSE << >>

RetoldBy(text, spans, index) ==
    FlattenSeq([i \in DOMAIN text |-> PieceAt(text, spans, index, i)])

\* The token where a span starts, nothing further in, the word where there is none.
LEMMA PieceIs ==
    ASSUME NEW n \in Nat, NEW text, NEW spans, NEW index, Apart(spans, n), NEW i \in 1 .. n
    PROVE  /\ \A s \in spans : s.start = i => PieceAt(text, spans, index, i) = <<TokenOf(s, index)>>
           /\ \A s \in spans : s.start < i /\ i < s.end => PieceAt(text, spans, index, i) = << >>
           /\ (\A s \in spans : ~(s.start <= i /\ i < s.end))
                => PieceAt(text, spans, index, i) = <<text[i]>>
  <1> DEFINE over == {s \in spans : s.start <= i /\ i < s.end}
  <1>1. \A s \in spans : s.start \in Int /\ s.end \in Int /\ s.start < s.end
    BY DEF Apart
  <1>2. \A s, t \in over : s = t
    <2> SUFFICES ASSUME NEW s \in over, NEW t \in over PROVE s = t
      OBVIOUS
    <2>1. s.start < t.end /\ t.start < s.end
      BY <1>1
    <2> QED BY <2>1 DEF Apart, Overlap
  <1>3. \A s \in over : PieceAt(text, spans, index, i)
                          = IF i = s.start THEN <<TokenOf(s, index)>> ELSE << >>
    <2> TAKE s \in over
    <2>1. (CHOOSE t \in over : TRUE) = s /\ over # {}
      <3> HIDE DEF over
      <3> QED BY <1>2
    <2> QED BY <2>1 DEF PieceAt
  <1>4. over = {} => PieceAt(text, spans, index, i) = <<text[i]>>
    BY DEF PieceAt
  <1>5. \A s \in spans : s.start = i => s \in over
    BY <1>1
  <1>6. \A s \in spans : s.start < i /\ i < s.end => s \in over /\ i # s.start
    BY <1>1
  <1> HIDE DEF over
  <1> QED BY <1>3, <1>4, <1>5, <1>6 DEF over

\* One replacement, in a text that is as it came up to the end of the match.
LEMMA ReplacedIs ==
    ASSUME NEW W, NEW text \in Seq(W)
    PROVE  \A u \in Seq(W), word \in W : \A s, x :
             /\ s.start \in 1 .. Len(text) /\ s.end \in 1 .. Len(text) + 1 /\ s.start < s.end
             /\ x = SubSeq(text, 1, s.end - 1) \o u
             => Replaced(x, s, word) = SubSeq(text, 1, s.start - 1) \o (<<word>> \o u)
  <1> SUFFICES ASSUME NEW u \in Seq(W), NEW word \in W, NEW s,
                      s.start \in 1 .. Len(text), s.end \in 1 .. Len(text) + 1, s.start < s.end
               PROVE  \A x : x = SubSeq(text, 1, s.end - 1) \o u =>
                        Replaced(x, s, word) = SubSeq(text, 1, s.start - 1) \o (<<word>> \o u)
    OBVIOUS
  <1> DEFINE n == Len(text)
             a == s.start
             b == s.end
             head == SubSeq(text, 1, b - 1)
             t == head \o u
  <1>1. n \in Nat /\ DOMAIN text = 1 .. n /\ Len(u) \in Nat /\ \A i \in 1 .. n : text[i] \in W
    BY LenProperties
  <1>2. a \in 1 .. n /\ b \in 1 .. n + 1 /\ a < b
    OBVIOUS
  <1> HIDE DEF a, b, n
  <1>3. /\ head \in Seq(W) /\ Len(head) = b - 1
        /\ \A i \in 1 .. b - 1 : head[i] = text[i]
    <2>1. \A i \in 1 .. b - 1 : text[i] \in W
      BY <1>1, <1>2
    <2>2. 1 \in Int /\ b - 1 \in Int /\ 1 <= b - 1 /\ (b - 1) - 1 + 1 = b - 1
      BY <1>1, <1>2
    <2>3. /\ SubSeq(text, 1, b - 1) \in Seq(W)
          /\ Len(SubSeq(text, 1, b - 1)) = IF 1 <= b - 1 THEN (b - 1) - 1 + 1 ELSE 0
          /\ \A i \in 1 .. (b - 1) - 1 + 1 : SubSeq(text, 1, b - 1)[i] = text[1 + i - 1]
      BY <2>1, <2>2, SubSeqProperties
    <2>4. \A i \in 1 .. b - 1 : 1 + i - 1 = i
      BY <1>1, <1>2
    <2> QED BY <2>2, <2>3, <2>4
  <1> HIDE DEF head
  <1>4. /\ t \in Seq(W) /\ Len(t) = b - 1 + Len(u)
        /\ \A i \in 1 .. b - 1 : t[i] = text[i]
        /\ \A i \in 1 .. Len(u) : t[b - 1 + i] = u[i]
    <2>1. /\ head \o u \in Seq(W)
          /\ Len(head \o u) = Len(head) + Len(u)
          /\ \A i \in 1 .. Len(head) + Len(u) :
               (head \o u)[i] = IF i <= Len(head) THEN head[i] ELSE u[i - Len(head)]
      BY <1>3, ConcatProperties
    <2>2. \A i \in 1 .. b - 1 : i \in 1 .. b - 1 + Len(u) /\ i <= b - 1
      BY <1>1, <1>2
    <2>3. \A i \in 1 .. Len(u) : /\ b - 1 + i \in 1 .. b - 1 + Len(u) /\ ~(b - 1 + i <= b - 1)
                                 /\ b - 1 + i - (b - 1) = i
      BY <1>1, <1>2
    <2> QED BY <1>3, <2>1, <2>2, <2>3
  <1> HIDE DEF t
  <1>5. SubSeq(t, 1, a - 1) = SubSeq(text, 1, a - 1)
    <2>1. \A i \in 1 .. a - 1 : t[i] = text[i] /\ t[i] \in W
      BY <1>1, <1>2, <1>4
    <2>2. 1 \in Int /\ a - 1 \in Int
      BY <1>1, <1>2
    <2> DEFINE x == SubSeq(t, 1, a - 1)
               y == SubSeq(text, 1, a - 1)
    <2>3. /\ x \in Seq(W)
          /\ Len(x) = IF 1 <= a - 1 THEN a - 1 - 1 + 1 ELSE 0
          /\ \A i \in 1 .. a - 1 - 1 + 1 : x[i] = t[1 + i - 1]
      BY <2>1, <2>2, SubSeqProperties
    <2>4. /\ y \in Seq(W)
          /\ Len(y) = IF 1 <= a - 1 THEN a - 1 - 1 + 1 ELSE 0
          /\ \A i \in 1 .. a - 1 - 1 + 1 : y[i] = text[1 + i - 1]
      BY <2>1, <2>2, SubSeqProperties
    <2> HIDE DEF x, y
    <2>5. /\ Len(x) = a - 1 /\ Len(y) = a - 1
          /\ \A i \in 1 .. a - 1 : i \in 1 .. a - 1 - 1 + 1 /\ 1 + i - 1 = i
      BY <1>2, <1>1, <2>3, <2>4
    <2>6. \A i \in 1 .. Len(x) : x[i] = y[i]
      BY <2>1, <2>3, <2>4, <2>5
    <2>7. x = y
      BY <2>3, <2>4, <2>5, <2>6, SeqEqual
    <2> QED BY <2>7 DEF x, y
  <1>6. SubSeq(t, b, Len(t)) = u
    <2>1. b \in Int /\ Len(t) \in Int /\ \A i \in b .. Len(t) : i \in 1 .. Len(t)
      BY <1>1, <1>2, <1>4
    <2>2. \A i \in b .. Len(t) : t[i] \in W
      BY <1>4, <2>1, LenProperties
    <2> DEFINE x == SubSeq(t, b, Len(t))
    <2>3. /\ x \in Seq(W)
          /\ Len(x) = IF b <= Len(t) THEN Len(t) - b + 1 ELSE 0
          /\ \A i \in 1 .. Len(t) - b + 1 : x[i] = t[b + i - 1]
      BY <2>1, <2>2, SubSeqProperties
    <2> HIDE DEF x
    <2>4. /\ Len(x) = Len(u)
          /\ \A i \in 1 .. Len(u) : i \in 1 .. Len(t) - b + 1 /\ b + i - 1 = b - 1 + i
      BY <1>1, <1>2, <1>4, <2>3
    <2>5. \A i \in 1 .. Len(x) : x[i] = u[i]
      BY <1>4, <2>3, <2>4
    <2>6. x = u
      BY <2>3, <2>4, <2>5, SeqEqual
    <2> QED BY <2>6 DEF x
  <1>7. Replaced(t, s, word) = SubSeq(text, 1, a - 1) \o <<word>> \o u
    BY <1>5, <1>6 DEF Replaced, a, b
  <1>8. (SubSeq(text, 1, a - 1) \o <<word>>) \o u = SubSeq(text, 1, a - 1) \o (<<word>> \o u)
    <2> DEFINE x == SubSeq(text, 1, a - 1)
               one == <<word>>
    <2>1. \A i \in 1 .. a - 1 : text[i] \in W
      BY <1>1, <1>2
    <2>2. 1 \in Int /\ a - 1 \in Int
      BY <1>1, <1>2
    <2>3. x \in Seq(W) /\ one \in Seq(W) /\ u \in Seq(W)
      BY <2>1, <2>2, SubSeqProperties
    <2> HIDE DEF x, one
    <2>4. (x \o one) \o u = x \o (one \o u)
      BY ONLY <2>3, ConcatAssociative
    <2> QED BY <2>4 DEF x, one
  <1>9. Replaced(t, s, word) = SubSeq(text, 1, a - 1) \o (<<word>> \o u)
    BY <1>7, <1>8
  <1>10. t = SubSeq(text, 1, s.end - 1) \o u
    BY DEF t, head, b
  <1> QED BY ONLY <1>9, <1>10 DEF a

\* Place p of a text of which the places from p on are done: as it came up to p,
\* or up to the end of the match that p is inside.
UpToPlace(spans, p, q) ==
    \/ q = p /\ \A s \in spans : ~(s.start < p /\ p < s.end)
    \/ \E s \in spans : s.start < p /\ p < s.end /\ q = s.end

\* Replacing right to left, each span by the offsets of the text as it came, makes
\* the text with a token where each span was (redact.py, redact).
LEMMA RewrittenIs ==
    ASSUME NEW W, NEW text \in Seq(W), NEW spans, NEW index, Apart(spans, Len(text)),
           \A s \in spans : TokenOf(s, index) \in W
    PROVE  /\ Rewritten(text, spans, index) = RetoldBy(text, spans, index)
           /\ Rewritten(text, spans, index) \in Seq(W)
  <1> DEFINE n == Len(text)
             piece(i) == PieceAt(text, spans, index, i)
             seqs == [i \in DOMAIN text |-> piece(i)]
  <1>1. n \in Nat /\ DOMAIN text = 1 .. n /\ \A i \in 1 .. n : text[i] \in W
    BY LenProperties
  <1>2. \A s \in spans : /\ s.start \in 1 .. n /\ s.end \in 1 .. n + 1 /\ s.start < s.end
    BY DEF Apart
  <1>3. \A i \in 1 .. n :
          /\ \A s \in spans : s.start = i => piece(i) = <<TokenOf(s, index)>>
          /\ \A s \in spans : s.start < i /\ i < s.end => piece(i) = << >>
          /\ (\A s \in spans : ~(s.start <= i /\ i < s.end)) => piece(i) = <<text[i]>>
    BY <1>1, PieceIs
  <1>4. \A s, t \in spans : s.start < t.end /\ t.start < s.end => s = t
    BY DEF Apart, Overlap
  <1>5. \A s, t \in spans : s.start = t.start => s = t
    BY <1>1, <1>2, <1>4
  <1>6. PICK x : /\ Rewritten(text, spans, index) = x[n]
                 /\ x[0] = text
                 /\ \A k \in 1 .. n : x[k] = ReplacedAt(x[k - 1], spans, index, n + 1 - k)
    <2>1. Len(text) \in Nat
      BY <1>1
    <2>2. \E c : /\ Rewritten(text, spans, index) = c[Len(text)]
                 /\ c[0] = text
                 /\ \A k \in 1 .. Len(text) :
                      c[k] = ReplacedAt(c[k - 1], spans, index, Len(text) + 1 - k)
      BY ONLY <2>1, RewrittenBySteps
    <2> QED BY <2>2
  <1> HIDE DEF piece
  <1>7. \A i \in 1 .. n : piece(i) \in Seq(W)
    <2> TAKE i \in 1 .. n
    <2>1. \/ \E s \in spans : s.start = i
          \/ \E s \in spans : s.start < i /\ i < s.end
          \/ \A s \in spans : ~(s.start <= i /\ i < s.end)
      BY <1>1, <1>2
    <2>2. ASSUME NEW w \in W PROVE <<w>> \in Seq(W)
      OBVIOUS
    <2>3. << >> \in Seq(W)
      BY EmptySeq
    <2> QED BY <1>1, <1>3, <2>1, <2>2, <2>3
  <1> HIDE DEF n
  <1>8. /\ seqs \in Seq(Seq(W)) /\ Len(seqs) = n
        /\ \A i \in 1 .. n : seqs[i] = piece(i)
    <2>1. seqs \in [1 .. n -> Seq(W)]
      BY <1>1, <1>7
    <2>2. seqs \in Seq(Seq(W)) /\ DOMAIN seqs = 1 .. n
      BY <1>1, <2>1
    <2>3. Len(seqs) \in Nat /\ DOMAIN seqs = 1 .. Len(seqs)
      BY <2>2, LenProperties
    <2>4. Len(seqs) = n
      BY <1>1, <2>2, <2>3
    <2> QED BY <1>1, <2>2, <2>4
  <1>9. RetoldBy(text, spans, index) = FlattenSeq(seqs)
    BY DEF RetoldBy, piece
  <1> HIDE DEF seqs
  <1>10. PICK v : /\ RetoldBy(text, spans, index) = v[n]
                  /\ v[0] = << >>
                  /\ \A k \in 1 .. n : v[k] = v[k - 1] \o piece(k)
                  /\ \A k \in 0 .. n : v[k] \in Seq(W)
    <2>1. \E v : /\ FlattenSeq(seqs) = v[Len(seqs)]
                 /\ v[0] = << >>
                 /\ \A k \in 1 .. Len(seqs) : v[k] = v[k - 1] \o seqs[k]
                 /\ \A k \in 0 .. Len(seqs) : v[k] \in Seq(W)
      BY <1>8, FlattenBySteps
    <2> QED BY <1>8, <1>9, <2>1
  <1> DEFINE Told(i) == \E q \in 1 .. n + 1, u \in Seq(W) :
                           /\ UpToPlace(spans, n + 1 - i, q)
                           /\ x[i] = SubSeq(text, 1, q - 1) \o u
                           /\ v[n - i] \o u = v[n]
             G == {i \in Nat : i <= n => Told(i)}
  <1>11. 0 \in G
    <2>1. UpToPlace(spans, n + 1 - 0, n + 1)
      <3>1. \A s \in spans : ~(n + 1 < s.end)
        BY <1>1, <1>2
      <3>2. n + 1 - 0 = n + 1
        BY <1>1
      <3> QED BY <3>1, <3>2 DEF UpToPlace
    <2>2. x[0] = SubSeq(text, 1, (n + 1) - 1) \o << >>
      <3>1. SubSeq(text, 1, n) = text /\ text \o << >> = text
        BY SubSeqFull, ConcatEmptySeq DEF n
      <3>2. (n + 1) - 1 = n
        BY <1>1
      <3> QED BY <1>6, <3>1, <3>2
    <2>3. v[n - 0] \o << >> = v[n]
      <3>1. v[n] \in Seq(W) /\ n - 0 = n
        BY <1>1, <1>10
      <3> QED BY <3>1, ConcatEmptySeq
    <2>4. n + 1 \in 1 .. n + 1 /\ << >> \in Seq(W)
      BY <1>1, EmptySeq
    <2> QED BY <2>1, <2>2, <2>3, <2>4
  <1>12. ASSUME NEW i \in Nat, i \in G PROVE i + 1 \in G
    <2> SUFFICES ASSUME i + 1 <= n PROVE Told(i + 1)
      <3> HIDE DEF Told
      <3> QED OBVIOUS
    <2> DEFINE p == n + 1 - i
               r == n - i
    <2>1. /\ r \in 1 .. n /\ p = r + 1 /\ r + 1 \in 2 .. n + 1 /\ i + 1 \in 1 .. n
          /\ (i + 1) - 1 = i /\ n + 1 - (i + 1) = r /\ n - (i + 1) = r - 1 /\ i <= n
      BY <1>1
    <2>2. Told(i)
      <3> HIDE DEF Told
      <3> QED BY <1>12, <2>1
    <2>3. PICK q \in 1 .. n + 1, u \in Seq(W) :
                           /\ UpToPlace(spans, p, q)
                           /\ x[i] = SubSeq(text, 1, q - 1) \o u
                           /\ v[r] \o u = v[n]
      BY <2>2
    <2>4. x[i + 1] = ReplacedAt(x[i], spans, index, r)
      BY <1>6, <2>1
    <2>5. v[r] = v[r - 1] \o piece(r) /\ v[r - 1] \in Seq(W) /\ piece(r) \in Seq(W)
      <3>1. r - 1 \in 0 .. n
        BY <1>1, <2>1
      <3> HIDE DEF r
      <3> QED BY <1>7, <1>10, <2>1, <3>1
    <2> DEFINE w == piece(r) \o u
    <2>6. w \in Seq(W) /\ v[r - 1] \o w = v[n]
      <3> DEFINE a == v[r - 1]
                 b == piece(r)
      <3>1. a \in Seq(W) /\ b \in Seq(W)
        BY <2>5
      <3>2. v[r] \o u = v[n] /\ a \o b = v[r]
        BY <2>3, <2>5
      <3> HIDE DEF a, b
      <3>3. (a \o b) \o u = a \o (b \o u)
        BY ONLY <3>1, u \in Seq(W), Regrouped, SMTT(60)
      <3>4. b \o u \in Seq(W)
        BY <3>1, ConcatProperties
      <3> QED BY <3>2, <3>3, <3>4 DEF a, b
    <2> HIDE DEF w, p, r
    <2>7. SUFFICES \E z \in 1 .. n + 1 :
                      UpToPlace(spans, r, z) /\ x[i + 1] = SubSeq(text, 1, z - 1) \o w
      BY <2>1, <2>6
    <2>8. ASSUME NEW s \in spans, s.start = r
          PROVE  UpToPlace(spans, r, r) /\ x[i + 1] = SubSeq(text, 1, r - 1) \o w
      <3>1. q = s.end
        <4>1. CASE q = p /\ \A t \in spans : ~(t.start < p /\ p < t.end)
          <5>1. r < p /\ ~(p < s.end)
            BY <2>1, <2>8, <4>1
          <5> QED BY <1>1, <1>2, <2>1, <2>8, <4>1, <5>1
        <4>2. CASE \E t \in spans : t.start < p /\ p < t.end /\ q = t.end
          <5>1. PICK t \in spans : t.start < p /\ p < t.end /\ q = t.end
            BY <4>2
          <5>2. s.start < t.end /\ t.start < s.end
            BY <1>1, <1>2, <2>1, <2>8, <5>1
          <5> QED BY <1>4, <5>1, <5>2
        <4> QED BY <2>3, <4>1, <4>2 DEF UpToPlace
      <3>2. UpToPlace(spans, r, r)
        <4>1. \A t \in spans : ~(t.start < r /\ r < t.end)
          <5> SUFFICES ASSUME NEW t \in spans, t.start < r, r < t.end PROVE FALSE
            OBVIOUS
          <5>1. s.start < t.end /\ t.start < s.end
            BY <1>1, <1>2, <2>1, <2>8
          <5>2. s = t
            BY <1>4, <5>1
          <5> QED BY <2>1, <2>8, <5>2
        <4> QED BY <4>1 DEF UpToPlace
      <3>3. SpanAt(spans, r) = s /\ StartsAt(spans, r)
        BY <1>5, <2>8 DEF SpanAt, StartsAt
      <3>4. x[i + 1] = Replaced(x[i], s, TokenOf(s, index))
        BY <2>4, <3>3 DEF ReplacedAt, TokenOf
      <3>5. Replaced(x[i], s, TokenOf(s, index))
              = SubSeq(text, 1, s.start - 1) \o (<<TokenOf(s, index)>> \o u)
        <4> DEFINE word == TokenOf(s, index)
                   t == x[i]
        <4>1. /\ s.start \in 1 .. Len(text) /\ s.end \in 1 .. Len(text) + 1 /\ s.start < s.end
              /\ word \in W
              /\ t = SubSeq(text, 1, s.end - 1) \o u
          BY <1>2, <2>3, <3>1 DEF n
        <4> HIDE DEF word, t
        <4>2. Replaced(t, s, word) = SubSeq(text, 1, s.start - 1) \o (<<word>> \o u)
          <5>1. \A y \in Seq(W), a \in W : \A z, x0 :
                  /\ z.start \in 1 .. Len(text) /\ z.end \in 1 .. Len(text) + 1 /\ z.start < z.end
                  /\ x0 = SubSeq(text, 1, z.end - 1) \o y
                  => Replaced(x0, z, a) = SubSeq(text, 1, z.start - 1) \o (<<a>> \o y)
            BY ONLY text \in Seq(W), ReplacedIs
          <5> QED BY ONLY u \in Seq(W), <4>1, <5>1
        <4> QED BY <4>2 DEF word, t
      <3>6. w = <<TokenOf(s, index)>> \o u
        BY <1>3, <2>1, <2>8 DEF w
      <3> QED BY <2>8, <3>2, <3>4, <3>5, <3>6
    <2>9. ASSUME \A s \in spans : s.start # r
          PROVE  \E z \in 1 .. n + 1 :
                      UpToPlace(spans, r, z) /\ x[i + 1] = SubSeq(text, 1, z - 1) \o w
      <3>1. x[i + 1] = x[i]
        BY <2>4, <2>9 DEF ReplacedAt, StartsAt
      <3>2. CASE \E s \in spans : s.start < r /\ r < s.end
        <4>1. PICK s \in spans : s.start < r /\ r < s.end
          BY <3>2
        <4>2. q = s.end
          <5>1. CASE q = p /\ \A t \in spans : ~(t.start < p /\ p < t.end)
            <6>1. ~(p < s.end)
              BY <1>1, <1>2, <2>1, <4>1, <5>1
            <6> QED BY <1>1, <1>2, <2>1, <4>1, <5>1, <6>1
          <5>2. CASE \E t \in spans : t.start < p /\ p < t.end /\ q = t.end
            <6>1. PICK t \in spans : t.start < p /\ p < t.end /\ q = t.end
              BY <5>2
            <6>2. s.start < t.end /\ t.start < s.end
              BY <1>1, <1>2, <2>1, <4>1, <6>1
            <6> QED BY <1>4, <6>1, <6>2
          <5> QED BY <2>3, <5>1, <5>2 DEF UpToPlace
        <4>3. UpToPlace(spans, r, s.end) /\ s.end \in 1 .. n + 1
          BY <1>2, <4>1 DEF UpToPlace
        <4>4. w = u
          <5>1. piece(r) = << >>
            BY <1>3, <2>1, <4>1
          <5> QED BY <5>1, ConcatEmptySeq DEF w
        <4> QED BY <2>3, <3>1, <4>2, <4>3, <4>4
      <3>3. CASE \A s \in spans : ~(s.start < r /\ r < s.end)
        <4>1. \A s \in spans : ~(s.start <= r /\ r < s.end)
          BY <1>1, <1>2, <2>1, <2>9, <3>3
        <4>2. \A t \in spans : ~(t.start < p /\ p < t.end)
          BY <1>1, <1>2, <2>1, <4>1
        <4>3. q = p
          BY <2>3, <4>2 DEF UpToPlace
        <4>4. UpToPlace(spans, r, r) /\ r \in 1 .. n + 1
          BY <1>1, <2>1, <3>3 DEF UpToPlace
        <4>5. piece(r) = <<text[r]>> /\ text[r] \in W
          BY <1>1, <1>3, <2>1, <4>1
        <4>6. SubSeq(text, 1, r) = SubSeq(text, 1, r - 1) \o <<text[r]>>
          <5>1. 1 \in 1 .. Len(text) /\ r \in 1 .. Len(text)
            BY <1>1, <2>1 DEF n
          <5> QED BY <5>1, SubSeqRecursiveSecond
        <4>7. SubSeq(text, 1, r) \o u = SubSeq(text, 1, r - 1) \o w
          <5> DEFINE a == SubSeq(text, 1, r - 1)
                     b == <<text[r]>>
          <5>1. \A j \in 1 .. r - 1 : text[j] \in W
            BY <1>1, <2>1
          <5>2. 1 \in Int /\ r - 1 \in Int
            BY <2>1
          <5>3. a \in Seq(W) /\ b \in Seq(W)
            BY <4>5, <5>1, <5>2, SubSeqProperties
          <5> HIDE DEF a, b
          <5>4. a \o b = SubSeq(text, 1, r)
            BY <4>6 DEF a, b
          <5>5. (a \o b) \o u = a \o (b \o u)
            BY ONLY <5>3, u \in Seq(W), Regrouped, SMTT(60)
          <5> QED BY <4>5, <5>4, <5>5 DEF a, b, w
        <4>8. q - 1 = r
          BY <2>1, <4>3
        <4> QED BY <2>3, <3>1, <4>4, <4>7, <4>8
      <3> QED BY <3>2, <3>3
    <2>10. r \in 1 .. n + 1
      BY <1>1, <2>1
    <2> QED BY <2>8, <2>9, <2>10
  <1>13. Told(n)
    <2>1. \A i \in Nat : i \in G
      <3> HIDE DEF G
      <3> QED BY <1>11, <1>12, NumberInduction
    <2> HIDE DEF Told
    <2> QED BY <1>1, <2>1
  <1>14. PICK q \in 1 .. n + 1, u \in Seq(W) :
                           /\ UpToPlace(spans, 1, q)
                           /\ x[n] = SubSeq(text, 1, q - 1) \o u
                           /\ v[0] \o u = v[n]
    <2>1. n + 1 - n = 1 /\ n - n = 0
      BY <1>1
    <2> QED BY <1>13, <2>1
  <1>15. q = 1
    <2>1. \A s \in spans : ~(s.start < 1)
      BY <1>2
    <2> QED BY <1>14, <2>1 DEF UpToPlace
  <1>16. x[n] = u /\ v[n] = u
    <2>1. SubSeq(text, 1, q - 1) = << >>
      BY <1>15, SubSeqEmpty
    <2>2. << >> \o u = u
      BY ConcatEmptySeq
    <2> QED BY <1>10, <1>14, <2>1, <2>2
  <1> QED BY <1>6, <1>10, <1>16

----------------------------------------------------------------------------
(***************************************************************************)
(* One text through a Redactor.                                            *)
(***************************************************************************)

\* A sequence, of whatever its entries are.
IsSeq(s) == s \in Seq(ToSet(s))

\* A sequence is one over the set of its values.
LEMMA SeqIs ==
    /\ \A S : \A s \in Seq(S) : IsSeq(s) /\ ToSet(s) \subseteq S
    /\ \A s, S : IsSeq(s) /\ ToSet(s) \subseteq S => s \in Seq(S)
    /\ \A s, t : IsSeq(s) /\ IsSeq(t) => IsSeq(s \o t)
    /\ IsSeq(<< >>)
  <1>1. ASSUME NEW S, NEW s \in Seq(S) PROVE IsSeq(s) /\ ToSet(s) \subseteq S
    <2>1. Len(s) \in Nat /\ DOMAIN s = 1 .. Len(s) /\ \A i \in 1 .. Len(s) : s[i] \in S
      BY LenProperties
    <2>2. \A i \in 1 .. Len(s) : s[i] \in ToSet(s)
      BY <2>1 DEF ToSet
    <2>3. s = [i \in 1 .. Len(s) |-> s[i]]
      BY <2>1, LenProperties
    <2>4. s \in [1 .. Len(s) -> ToSet(s)]
      BY <2>2, <2>3
    <2>5. s \in Seq(ToSet(s))
      BY <2>1, <2>4
    <2> QED BY <2>1, <2>5 DEF IsSeq, ToSet
  <1>2. ASSUME NEW s, NEW S, IsSeq(s), ToSet(s) \subseteq S PROVE s \in Seq(S)
    BY <1>2, SeqMonotonic DEF IsSeq
  <1>3. ASSUME NEW s, NEW t, IsSeq(s), IsSeq(t) PROVE IsSeq(s \o t)
    <2> DEFINE S == ToSet(s) \cup ToSet(t)
    <2>1. s \in Seq(S) /\ t \in Seq(S)
      BY <1>2, <1>3
    <2>2. s \o t \in Seq(S)
      BY <2>1, ConcatProperties
    <2> QED BY <1>1, <2>2
  <1>4. IsSeq(<< >>)
    <2>1. << >> \in Seq({})
      BY EmptySeq
    <2> QED BY <1>1, <2>1
  <1> QED BY <1>1, <1>2, <1>3, <1>4

\* The matches a Redactor replaces.
SpansBy(enabled, text) == IF enabled THEN FindSpans(text) ELSE {}

\* They do not overlap, and each has a place of its own.
LEMMA SpansAre ==
    ASSUME NEW W, NEW text \in Seq(W), NEW enabled
    PROVE  /\ Placed(SpansBy(enabled, text), Len(text))
           /\ Apart(SpansBy(enabled, text), Len(text))
           /\ SpansBy(enabled, text) \subseteq Open(text)
  <1> DEFINE spans == SpansBy(enabled, text)
             n == Len(text)
  <1>1. Dominates(FindSpans(text), Open(text))
    BY FindSpansDominates
  <1>2. spans \subseteq Open(text) /\ \A s, t \in spans : s # t => ~Overlap(s, t)
    BY <1>1 DEF Dominates, SpansBy
  <1> HIDE DEF spans
  <1>3. \A s \in spans : /\ s.start \in 1 .. n /\ s.end \in 1 .. n + 1 /\ s.start < s.end
    BY <1>2, OpenAreSpans DEF IsSpan
  <1>4. n \in Nat
    BY LenProperties
  <1>5. \A s, t \in spans : s.start = t.start => s = t
    <2> SUFFICES ASSUME NEW s \in spans, NEW t \in spans, s.start = t.start PROVE s = t
      OBVIOUS
    <2>1. s.start < t.end /\ t.start < s.end
      BY <1>3, <1>4
    <2> QED BY <1>2, <2>1 DEF Overlap
  <1>6. IsFiniteSet(spans)
    BY <1>2, OpenIsFinite, FS_Subset
  <1> QED BY <1>2, <1>3, <1>5, <1>6 DEF Placed, Apart, spans

\* A text with nothing to replace stays as it is.
LEMMA NoneRewritten ==
    ASSUME NEW W, NEW text \in Seq(W), NEW index, NEW spans, \A s \in spans : FALSE
    PROVE  Rewritten(text, spans, index) = text
  <1> DEFINE n == Len(text)
  <1>1. n \in Nat
    BY LenProperties
  <1>2. PICK x : /\ Rewritten(text, spans, index) = x[n]
                 /\ x[0] = text
                 /\ \A k \in 1 .. n : x[k] = ReplacedAt(x[k - 1], spans, index, n + 1 - k)
    <2>1. Len(text) \in Nat
      BY <1>1
    <2>2. \E c : /\ Rewritten(text, spans, index) = c[Len(text)]
                 /\ c[0] = text
                 /\ \A k \in 1 .. Len(text) :
                      c[k] = ReplacedAt(c[k - 1], spans, index, Len(text) + 1 - k)
      BY ONLY <2>1, RewrittenBySteps
    <2> QED BY <2>2
  <1> HIDE DEF n
  <1>3. \A k \in 1 .. n : x[k] = x[k - 1]
    BY <1>2 DEF ReplacedAt, StartsAt
  <1> DEFINE G == {k \in Nat : k <= n => x[k] = text}
  <1>4. 0 \in G
    BY <1>2
  <1>5. ASSUME NEW k \in Nat, k \in G PROVE k + 1 \in G
    <2> SUFFICES ASSUME k + 1 <= n PROVE x[k + 1] = text
      OBVIOUS
    <2>1. k + 1 \in 1 .. n /\ (k + 1) - 1 = k /\ k <= n
      BY <1>1
    <2> QED BY <1>3, <1>5, <2>1
  <1>6. \A k \in Nat : k \in G
    <2> HIDE DEF G
    <2> QED BY <1>4, <1>5, NumberInduction
  <1> QED BY <1>1, <1>2, <1>6

\* A text retold under an index is the same under one that has more.
LEMMA RetoldStays ==
    ASSUME NEW text, NEW spans, NEW index, NEW more, Extends(more, index),
           \A s \in spans : Key(s) \in DOMAIN index
    PROVE  RetoldBy(text, spans, more) = RetoldBy(text, spans, index)
  <1>1. \A s \in spans : TokenOf(s, more) = TokenOf(s, index)
    BY DEF Extends, TokenOf
  <1>2. \A i : PieceAt(text, spans, more, i) = PieceAt(text, spans, index, i)
    <2> TAKE i
    <2> DEFINE over == {s \in spans : s.start <= i /\ i < s.end}
    <2>1. CASE over = {}
      BY <2>1 DEF PieceAt
    <2>2. CASE over # {}
      <3>1. (CHOOSE t \in over : TRUE) \in spans
        BY <2>2
      <3> QED BY <1>1, <2>2, <3>1 DEF PieceAt
    <2> QED BY <2>1, <2>2
  <1> QED BY <1>2 DEF RetoldBy

\* A Redactor that has numbered and counted the values read, and no others.
Telling(rd, read) ==
    /\ IsSeq(read)
    /\ IndexTold(rd.index, read)
    /\ \A c \in ToSet(Classes) : rd.counts[c] = OfClassIn(read, c)
    /\ rd.seen \in Nat /\ rd.changed \in Nat /\ rd.changed <= rd.seen

ValuesBy(enabled, text) == ValuesOf(SpansBy(enabled, text), Len(text))

\* One text through the Redactor: it reads as RetoldBy says, its values are numbered
\* after those before, and no index given before changes.
LEMMA RedactTold ==
    ASSUME NEW W, NEW text \in Seq(W), NEW rd, NEW read, Telling(rd, read), rd.enabled \in BOOLEAN,
           NEW one, one = Redact(rd, text)
    PROVE  /\ one.redactor.enabled = rd.enabled
           /\ IsSeq(ValuesBy(rd.enabled, text))
           /\ Telling(one.redactor, read \o ValuesBy(rd.enabled, text))
           /\ Extends(one.redactor.index, rd.index)
           /\ \A s \in SpansBy(rd.enabled, text) : Key(s) \in DOMAIN one.redactor.index
           /\ one.text = RetoldBy(text, SpansBy(rd.enabled, text), one.redactor.index)
  <1> DEFINE spans == SpansBy(rd.enabled, text)
             n == Len(text)
             K == ToSet(read) \cup {Key(s) : s \in spans}
             values == ValuesOf(spans, n)
             new == Numbered(rd.index, spans, n)
  <1>1. Placed(spans, n) /\ Apart(spans, n)
    BY SpansAre
  <1>2. n \in Nat
    BY LenProperties
  <1>3. read \in Seq(K) /\ IndexTold(rd.index, read)
    BY SeqIs DEF Telling
  <1>4. \A s \in spans : Key(s) \in K
    OBVIOUS
  <1> HIDE DEF spans, n, K
  <1>5. /\ values \in Seq(K)
        /\ IndexTold(new, read \o values)
        /\ Extends(new, rd.index)
        /\ \A s \in spans : Key(s) \in DOMAIN new
        /\ \A c : /\ OfClassIn(read, c) \in Nat
                  /\ OfClassIn(read \o values, c)
                       = OfClassIn(read, c) + Cardinality({s \in spans : s.class = c})
    BY <1>1, <1>2, <1>3, <1>4, NumberedTold
  <1>6. IsSeq(values) /\ IsSeq(read \o values)
    BY <1>5, SeqIs DEF Telling
  <1>7. Rewritten(text, spans, new) = RetoldBy(text, spans, new)
    <2> DEFINE V == W \cup {TokenOf(s, new) : s \in spans}
    <2>1. text \in Seq(V)
      BY SeqMonotonic
    <2>2. \A s \in spans : TokenOf(s, new) \in V
      OBVIOUS
    <2> HIDE DEF V, new
    <2> QED BY <1>1, <2>1, <2>2, RewrittenIs DEF n
  <1> HIDE DEF values, new
  <1>8. CASE rd.enabled
    <2>1. spans = FindSpans(text)
      BY <1>8 DEF spans, SpansBy
    <2>2. one = [ text |-> Rewritten(text, spans, new),
                  redactor |->
                    [ enabled |-> TRUE, index |-> new,
                      counts |-> [c \in ToSet(Classes) |->
                          rd.counts[c] + Cardinality({s \in spans : s.class = c})],
                      seen |-> rd.seen + 1,
                      changed |-> rd.changed + (IF spans = {} THEN 0 ELSE 1) ] ]
      BY <1>8, <2>1 DEF Redact, new, n
    <2>3. /\ one.redactor.index = new /\ one.redactor.enabled = TRUE
          /\ one.text = RetoldBy(text, spans, new)
          /\ \A c \in ToSet(Classes) :
               one.redactor.counts[c] = rd.counts[c] + Cardinality({s \in spans : s.class = c})
          /\ one.redactor.seen = rd.seen + 1
          /\ one.redactor.changed = rd.changed + (IF spans = {} THEN 0 ELSE 1)
      BY <1>7, <2>2
    <2>4. Telling(one.redactor, read \o values)
      <3>1. \A c \in ToSet(Classes) : one.redactor.counts[c] = OfClassIn(read \o values, c)
        <4> TAKE c \in ToSet(Classes)
        <4>1. rd.counts[c] = OfClassIn(read, c)
          BY DEF Telling
        <4>2. one.redactor.counts[c] = rd.counts[c] + Cardinality({s \in spans : s.class = c})
          BY <2>3
        <4>3. OfClassIn(read \o values, c) = OfClassIn(read, c) + Cardinality({s \in spans : s.class = c})
          BY <1>5
        <4> QED BY ONLY <4>1, <4>2, <4>3
      <3>2. /\ one.redactor.seen \in Nat /\ one.redactor.changed \in Nat
            /\ one.redactor.changed <= one.redactor.seen
        BY <2>3 DEF Telling
      <3> QED BY <1>5, <1>6, <2>3, <3>1, <3>2 DEF Telling
    <2> QED BY <1>5, <1>6, <1>8, <2>3, <2>4 DEF ValuesBy, spans, values, n
  <1>9. CASE ~rd.enabled
    <2>1. spans = {}
      BY <1>9 DEF spans, SpansBy
    <2>2. one.text = text /\ one.redactor = rd
      BY <1>9 DEF Redact
    <2>3. values = << >>
      <3>1. IndexTold(<< >>, << >>) /\ << >> \in Seq({})
        BY EmptySeq DEF IndexTold, ToSet
      <3>2. Placed({}, n)
        BY FS_EmptySet DEF Placed
      <3>3. ValuesOf({}, n) \in Seq({})
        BY <1>2, <3>1, <3>2, NumberedTold
      <3>4. ValuesOf({}, n) = << >>
        BY <3>3
      <3> QED BY <2>1, <3>4 DEF values
    <2>4. read \o values = read
      BY <1>3, <2>3, ConcatEmptySeq
    <2>5. RetoldBy(text, spans, rd.index) = text
      <3>1. \A s \in spans : TokenOf(s, rd.index) \in W /\ FALSE
        BY <2>1
      <3>2. Rewritten(text, spans, rd.index) = RetoldBy(text, spans, rd.index)
        BY <1>1, <3>1, RewrittenIs DEF n
      <3>3. Rewritten(text, spans, rd.index) = text
        BY <3>1, NoneRewritten
      <3> QED BY <3>2, <3>3
    <2>6. Extends(rd.index, rd.index)
      BY DEF Extends
    <2> QED BY <1>6, <1>9, <2>1, <2>2, <2>4, <2>5, <2>6 DEF ValuesBy, spans, values, n
  <1> QED BY <1>8, <1>9

----------------------------------------------------------------------------
(***************************************************************************)
(* The texts of one record through a Redactor.                             *)
(***************************************************************************)

\* A record whose texts are texts.
Readable(r) ==
    /\ "judge_verdicts" \in DOMAIN r =>
         /\ IsSeq(r.judge_verdicts)
         /\ \A i \in DOMAIN r.judge_verdicts : /\ "criterion" \in DOMAIN r.judge_verdicts[i]
                                               /\ IsSeq(r.judge_verdicts[i].criterion)
    /\ \A f \in ToSet(RedactedTextFields) \cap DOMAIN r : IsSeq(r[f])

\* A place in a record where a text may stand.
IsSlot(slot, r) ==
    /\ slot = [field |-> slot.field, at |-> slot.at]
    /\ \/ /\ slot.field = "judge_verdicts" /\ "judge_verdicts" \in DOMAIN r
          /\ slot.at \in DOMAIN r.judge_verdicts
       \/ slot.field \in ToSet(RedactedTextFields) /\ slot.at = 0

\* The fields that are redacted are four, and the verdicts are not among them.
LEMMA FieldsAre ==
    /\ DOMAIN RedactedTextFields = 1 .. 4
    /\ ToSet(RedactedTextFields) = {"input_text", "output_text", "feedback", "error"}
    /\ \A i, j \in 1 .. 4 : RedactedTextFields[i] = RedactedTextFields[j] => i = j
    /\ "judge_verdicts" \notin ToSet(RedactedTextFields)
  <1>1. DOMAIN RedactedTextFields = 1 .. 4
    BY DEF RedactedTextFields
  <1>2. 1 .. 4 = {1, 2, 3, 4}
    OBVIOUS
  <1>3. /\ RedactedTextFields[1] = "input_text" /\ RedactedTextFields[2] = "output_text"
        /\ RedactedTextFields[3] = "feedback" /\ RedactedTextFields[4] = "error"
    BY DEF RedactedTextFields
  <1>4. ToSet(RedactedTextFields) = {"input_text", "output_text", "feedback", "error"}
    BY <1>1, <1>2, <1>3 DEF ToSet
  <1>5. \A i, j \in 1 .. 4 : RedactedTextFields[i] = RedactedTextFields[j] => i = j
    BY <1>2, <1>3
  <1> QED BY <1>1, <1>4, <1>5

\* The slots of a record: sequences of places, none of them twice.
LEMMA SlotsAre ==
    ASSUME NEW r, Readable(r)
    PROVE  /\ IsSeq(Slots(r))
           /\ Len(Slots(r)) \in Nat /\ DOMAIN Slots(r) = 1 .. Len(Slots(r))
           /\ \A i \in 1 .. Len(Slots(r)) : IsSlot(Slots(r)[i], r)
           /\ \A i, j \in 1 .. Len(Slots(r)) : Slots(r)[i] = Slots(r)[j] => i = j
  <1> DEFINE V == Verdicts(r)
             nv == Len(V)
             a == [i \in DOMAIN V |-> [field |-> "judge_verdicts", at |-> i]]
             b == [i \in DOMAIN RedactedTextFields |-> [field |-> RedactedTextFields[i], at |-> 0]]
             S == [field : {"judge_verdicts"} \cup ToSet(RedactedTextFields), at : Nat]
             c == a \o b
  <1>1. IsSeq(V)
    <2>1. IsSeq(<< >>)
      BY SeqIs
    <2> QED BY <2>1 DEF Readable, Verdicts
  <1>2. nv \in Nat /\ DOMAIN V = 1 .. nv
    BY <1>1, LenProperties DEF IsSeq
  <1>3. DOMAIN V # {} => "judge_verdicts" \in DOMAIN r /\ V = r.judge_verdicts
    BY DEF Verdicts
  <1> HIDE DEF V, nv
  <1>4. a \in Seq(S) /\ Len(a) = nv /\ \A i \in 1 .. nv : a[i] = [field |-> "judge_verdicts", at |-> i]
    <2>1. a \in [1 .. nv -> S]
      BY <1>2
    <2>2. a \in Seq(S) /\ DOMAIN a = 1 .. nv
      BY <1>2, <2>1
    <2>3. Len(a) \in Nat /\ DOMAIN a = 1 .. Len(a)
      BY <2>2, LenProperties
    <2>4. Len(a) = nv
      BY <1>2, <2>2, <2>3
    <2> QED BY <1>2, <2>2, <2>4
  <1>5. b \in Seq(S) /\ Len(b) = 4 /\ \A i \in 1 .. 4 : b[i] = [field |-> RedactedTextFields[i], at |-> 0]
    <2>1. \A i \in 1 .. 4 : RedactedTextFields[i] \in ToSet(RedactedTextFields)
      BY FieldsAre DEF ToSet
    <2>2. b \in [1 .. 4 -> S]
      BY <2>1, FieldsAre
    <2>3. b \in Seq(S) /\ DOMAIN b = 1 .. 4
      BY <2>2
    <2>4. Len(b) \in Nat /\ DOMAIN b = 1 .. Len(b)
      BY <2>3, LenProperties
    <2>5. Len(b) = 4
      BY <2>3, <2>4
    <2> QED BY <2>3, <2>5, FieldsAre
  <1>6. Slots(r) = c
    BY DEF Slots, V
  <1> HIDE DEF a, b
  <1>7. /\ c \in Seq(S) /\ Len(c) = nv + 4
        /\ \A i \in 1 .. nv + 4 : c[i] = IF i <= nv THEN a[i] ELSE b[i - nv]
    <2>1. /\ a \o b \in Seq(S)
          /\ Len(a \o b) = Len(a) + Len(b)
          /\ \A i \in 1 .. Len(a) + Len(b) : (a \o b)[i] = IF i <= Len(a) THEN a[i] ELSE b[i - Len(a)]
      BY <1>4, <1>5, ConcatProperties
    <2> QED BY <1>4, <1>5, <2>1
  <1> HIDE DEF c, S
  <1>8. \A i \in 1 .. nv + 4 :
          \/ i \in 1 .. nv /\ c[i] = [field |-> "judge_verdicts", at |-> i]
          \/ i - nv \in 1 .. 4 /\ c[i] = [field |-> RedactedTextFields[i - nv], at |-> 0]
    <2> TAKE i \in 1 .. nv + 4
    <2>1. \/ i \in 1 .. nv /\ i <= nv
          \/ i - nv \in 1 .. 4 /\ ~(i <= nv)
      BY <1>2
    <2> QED BY <1>4, <1>5, <1>7, <2>1
  <1>9. \A i \in 1 .. nv + 4 : IsSlot(c[i], r)
    <2> TAKE i \in 1 .. nv + 4
    <2>1. CASE i \in 1 .. nv /\ c[i] = [field |-> "judge_verdicts", at |-> i]
      <3>1. "judge_verdicts" \in DOMAIN r /\ i \in DOMAIN r.judge_verdicts
        BY <1>2, <1>3, <2>1
      <3> QED BY <2>1, <3>1 DEF IsSlot
    <2>2. CASE i - nv \in 1 .. 4 /\ c[i] = [field |-> RedactedTextFields[i - nv], at |-> 0]
      <3>1. RedactedTextFields[i - nv] \in ToSet(RedactedTextFields)
        BY <2>2, FieldsAre DEF ToSet
      <3> QED BY <2>2, <3>1 DEF IsSlot
    <2> QED BY <1>8, <2>1, <2>2
  <1>10. \A i, j \in 1 .. nv + 4 : c[i] = c[j] => i = j
    <2> SUFFICES ASSUME NEW i \in 1 .. nv + 4, NEW j \in 1 .. nv + 4, c[i] = c[j] PROVE i = j
      OBVIOUS
    <2>1. c[i].at = c[j].at /\ c[i].field = c[j].field
      OBVIOUS
    <2>2. \A k \in 1 .. 4 : RedactedTextFields[k] # "judge_verdicts"
      BY FieldsAre DEF ToSet
    <2>5. \/ j \in 1 .. nv /\ c[j] = [field |-> "judge_verdicts", at |-> j]
          \/ j - nv \in 1 .. 4 /\ c[j] = [field |-> RedactedTextFields[j - nv], at |-> 0]
      BY <1>8
    <2>6. \/ j \in 1 .. nv /\ c[j].field = "judge_verdicts" /\ c[j].at = j
          \/ /\ j - nv \in 1 .. 4 /\ c[j].field = RedactedTextFields[j - nv]
             /\ c[j].field # "judge_verdicts"
      <3>1. ASSUME j \in 1 .. nv, c[j] = [field |-> "judge_verdicts", at |-> j]
            PROVE  c[j].field = "judge_verdicts" /\ c[j].at = j
        BY <3>1
      <3>2. ASSUME j - nv \in 1 .. 4, c[j] = [field |-> RedactedTextFields[j - nv], at |-> 0]
            PROVE  c[j].field = RedactedTextFields[j - nv] /\ c[j].field # "judge_verdicts"
        BY <2>2, <3>2
      <3> QED BY <2>5, <3>1, <3>2
    <2>3. CASE i \in 1 .. nv /\ c[i] = [field |-> "judge_verdicts", at |-> i]
      <3>1. c[i].field = "judge_verdicts" /\ c[i].at = i
        BY <2>3
      <3>2. c[j].field = "judge_verdicts" => c[j].at = j
        BY <2>6
      <3> QED BY <2>1, <3>1, <3>2
    <2>4. CASE i - nv \in 1 .. 4 /\ c[i] = [field |-> RedactedTextFields[i - nv], at |-> 0]
      <3>1. c[i].field = RedactedTextFields[i - nv] /\ c[i].field # "judge_verdicts"
        BY <2>2, <2>4
      <3>2. j - nv \in 1 .. 4 /\ c[j].field = RedactedTextFields[j - nv]
        BY <2>1, <2>6, <3>1
      <3>3. i - nv = j - nv
        BY <2>1, <2>4, <3>1, <3>2, FieldsAre
      <3> QED BY <1>2, <3>3
    <2> QED BY <1>8, <2>3, <2>4
  <1>11. nv + 4 \in Nat /\ IsSeq(c) /\ DOMAIN c = 1 .. Len(c)
    BY <1>2, <1>7, SeqIs, LenProperties
  <1> QED BY <1>6, <1>7, <1>9, <1>10, <1>11

\* A record with the fields and verdicts of another.
Fits(q, r) ==
    /\ DOMAIN q = DOMAIN r
    /\ "judge_verdicts" \in DOMAIN r =>
         /\ DOMAIN q.judge_verdicts = DOMAIN r.judge_verdicts
         /\ \A i \in DOMAIN r.judge_verdicts :
              DOMAIN q.judge_verdicts[i] = DOMAIN r.judge_verdicts[i]

\* Setting one text of a record leaves the others.
LEMMA WithTextIs ==
    ASSUME NEW r, Readable(r), NEW q, Fits(q, r), NEW slot, IsSlot(slot, r), slot.field \in DOMAIN r,
           NEW t
    PROVE  /\ Fits(WithText(q, slot, t), r)
           /\ TextAt(WithText(q, slot, t), slot) = t
           /\ \A other : IsSlot(other, r) /\ other.field \in DOMAIN r /\ other # slot =>
                TextAt(WithText(q, slot, t), other) = TextAt(q, other)
  <1> DEFINE w == WithText(q, slot, t)
  <1>1. CASE slot.field = "judge_verdicts"
    <2> DEFINE i == slot.at
    <2>1. /\ "judge_verdicts" \in DOMAIN q /\ i \in DOMAIN q.judge_verdicts
          /\ "criterion" \in DOMAIN q.judge_verdicts[i]
      BY <1>1, FieldsAre DEF Fits, IsSlot, Readable
    <2>2. w = [q EXCEPT !.judge_verdicts[i].criterion = t]
      BY <1>1 DEF WithText
    <2> HIDE DEF i, w
    <2>3. /\ DOMAIN w = DOMAIN q
          /\ \A f \in DOMAIN q : f # "judge_verdicts" => w[f] = q[f]
          /\ DOMAIN w.judge_verdicts = DOMAIN q.judge_verdicts
          /\ \A j \in DOMAIN q.judge_verdicts : j # i => w.judge_verdicts[j] = q.judge_verdicts[j]
          /\ DOMAIN w.judge_verdicts[i] = DOMAIN q.judge_verdicts[i]
          /\ w.judge_verdicts[i].criterion = t
      BY <2>1, <2>2
    <2>4. Fits(w, r)
      BY <2>1, <2>3 DEF Fits
    <2>5. TextAt(w, slot) = t
      BY <1>1, <2>3 DEF TextAt, i
    <2>6. ASSUME NEW other, IsSlot(other, r), other.field \in DOMAIN r, other # slot
          PROVE  TextAt(w, other) = TextAt(q, other)
      <3>1. CASE other.field = "judge_verdicts"
        <4>1. other.at \in DOMAIN q.judge_verdicts
          BY <2>6, <3>1, FieldsAre DEF IsSlot, Fits
        <4>2. other.at # i
          BY <1>1, <2>6, <3>1 DEF IsSlot, i
        <4> QED BY <2>3, <3>1, <4>1, <4>2 DEF TextAt
      <3>2. CASE other.field # "judge_verdicts"
        <4>1. TextAt(w, other) = w[other.field] /\ TextAt(q, other) = q[other.field]
          BY <3>2 DEF TextAt
        <4>2. w[other.field] = q[other.field]
          BY <2>3, <2>6, <3>2 DEF Fits
        <4> QED BY <4>1, <4>2
      <3> QED BY <3>1, <3>2
    <2> QED BY <2>4, <2>5, <2>6 DEF w
  <1>2. CASE slot.field # "judge_verdicts"
    <2> DEFINE f == slot.field
    <2>1. w = [q EXCEPT ![f] = t] /\ f \in DOMAIN q /\ f # "judge_verdicts"
      BY <1>2 DEF WithText, Fits
    <2> HIDE DEF w
    <2>2. /\ DOMAIN w = DOMAIN q /\ w[f] = t
          /\ \A g \in DOMAIN q : g # f => w[g] = q[g]
      BY <2>1
    <2>3. Fits(w, r)
      <3>1. "judge_verdicts" \in DOMAIN q => w.judge_verdicts = q.judge_verdicts
        BY <2>1, <2>2
      <3> QED BY <2>2, <3>1 DEF Fits
    <2>4. TextAt(w, slot) = t
      BY <1>2, <2>2 DEF TextAt
    <2>5. ASSUME NEW other, IsSlot(other, r), other.field \in DOMAIN r, other # slot
          PROVE  TextAt(w, other) = TextAt(q, other)
      <3>1. CASE other.field = "judge_verdicts"
        <4>1. w.judge_verdicts = q.judge_verdicts
          BY <2>1, <2>2, <2>5, <3>1 DEF Fits
        <4> QED BY <3>1, <4>1 DEF TextAt
      <3>2. CASE other.field # "judge_verdicts"
        <4>1. other.at = 0 /\ slot.at = 0
          BY <1>2, <2>5, <3>2 DEF IsSlot
        <4>2. other.field # f
          BY <2>5, <4>1 DEF IsSlot
        <4> QED BY <2>2, <2>5, <3>2, <4>2 DEF TextAt, Fits
      <3> QED BY <3>1, <3>2
    <2> QED BY <2>3, <2>4, <2>5 DEF w
  <1> QED BY <1>1, <1>2

\* Redacted, step by step.
LEMMA RedactedBySteps ==
    ASSUME NEW r, NEW rd, Len(Slots(r)) \in Nat
    PROVE  \E c : /\ Redacted(r, rd) = c[Len(Slots(r))]
                  /\ c[0] = [record |-> r, redactor |-> rd]
                  /\ \A k \in 1 .. Len(Slots(r)) : c[k] = RedactedAt(c[k - 1], Slots(r)[k])
  <1> DEFINE N == Len(Slots(r))
             a == [record |-> r, redactor |-> rd]
             e(x, k) == RedactedAt(x, Slots(r)[k])
             Steps(f, n) == f = [k \in 0 .. n |-> IF k = 0 THEN a ELSE e(f[k - 1], k)]
             G == {n \in Nat : \E f : Steps(f, n)}
             d == CHOOSE f : Steps(f, N)
  <1>1. Redacted(r, rd) = d[N]
    BY DEF Redacted
  <1>8. N \in Nat
    OBVIOUS
  <1> HIDE DEF e, a, N
  <1>2. 0 \in G
    <2>1. Steps([k \in 0 .. 0 |-> a], 0)
      OBVIOUS
    <2> QED BY <2>1
  <1>3. ASSUME NEW n \in Nat, n \in G PROVE n + 1 \in G
    <2>1. PICK f : Steps(f, n)
      BY <1>3
    <2> DEFINE g == [k \in 0 .. n + 1 |-> IF k = n + 1 THEN e(f[n], n + 1) ELSE f[k]]
    <2>2. \A k \in 0 .. n + 1 : g[k] = IF k = 0 THEN a ELSE e(g[k - 1], k)
      <3>1. \A k \in 0 .. n : f[k] = IF k = 0 THEN a ELSE e(f[k - 1], k)
        BY <2>1
      <3>2. \A k \in 0 .. n : g[k] = f[k]
        OBVIOUS
      <3>3. g[n + 1] = e(f[n], n + 1)
        OBVIOUS
      <3> HIDE DEF g
      <3> QED BY <3>1, <3>2, <3>3
    <2>3. Steps(g, n + 1)
      BY <2>2
    <2> HIDE DEF g, Steps
    <2> QED BY <2>3
  <1>4. N \in G
    <2> HIDE DEF G
    <2> QED BY <1>2, <1>3, <1>8, NumberInduction
  <1>5. Steps(d, N)
    <2> HIDE DEF Steps
    <2> QED BY <1>4
  <1>6. \A k \in 0 .. N : d[k] = IF k = 0 THEN a ELSE e(d[k - 1], k)
    <2> HIDE DEF d
    <2> QED BY <1>5
  <1>7. d[0] = a /\ \A k \in 1 .. N : d[k] = e(d[k - 1], k)
    <2> HIDE DEF d
    <2> QED BY <1>6, <1>8
  <1> HIDE DEF d
  <1> QED BY <1>1, <1>7 DEF e, a, N

\* The values a Redactor finds in the text at a slot, and in those of a record.
ValuesAtSlot(enabled, r, slot) ==
    IF slot \in TextSlots(r) THEN ValuesBy(enabled, TextAt(r, slot)) ELSE << >>
ValuesFrom(enabled, r) ==
    FlattenSeq([i \in DOMAIN Slots(r) |-> ValuesAtSlot(enabled, r, Slots(r)[i])])

\* The text at a slot is as a reader finds it, and its values have their tokens.
ToldAt(q, r, slot, enabled, index) ==
    /\ TextAt(q, slot) = RetoldBy(TextAt(r, slot), SpansBy(enabled, TextAt(r, slot)), index)
    /\ \A s \in SpansBy(enabled, TextAt(r, slot)) : Key(s) \in DOMAIN index

\* A text told under a numbering is told under every extension of it.
LEMMA ToldStays ==
    ASSUME NEW q, NEW r, NEW slot, NEW enabled, NEW index, ToldAt(q, r, slot, enabled, index),
           NEW more, Extends(more, index), NEW p, TextAt(p, slot) = TextAt(q, slot)
    PROVE  ToldAt(p, r, slot, enabled, more)
  <1>1. RetoldBy(TextAt(r, slot), SpansBy(enabled, TextAt(r, slot)), more)
          = RetoldBy(TextAt(r, slot), SpansBy(enabled, TextAt(r, slot)), index)
    BY RetoldStays DEF ToldAt
  <1> QED BY <1>1 DEF ToldAt, Extends

\* What stands where a text may stand is a text.
LEMMA TextsAreSeqs ==
    ASSUME NEW r, Readable(r), NEW slot, IsSlot(slot, r), slot.field \in DOMAIN r
    PROVE  IsSeq(TextAt(r, slot))
  <1>1. CASE slot.field = "judge_verdicts"
    BY <1>1, FieldsAre DEF IsSlot, Readable, TextAt
  <1>2. CASE slot.field # "judge_verdicts"
    BY <1>2 DEF IsSlot, Readable, TextAt
  <1> QED BY <1>1, <1>2

\* One record through the Redactor, slot by slot: every text of it is told, its
\* values are numbered in the order of the slots, and it keeps its fields.
LEMMA RedactedTold ==
    ASSUME NEW r, Readable(r), NEW rd, NEW read, Telling(rd, read), rd.enabled \in BOOLEAN,
           NEW done, done = Redacted(r, rd)
    PROVE  /\ done.redactor.enabled = rd.enabled
           /\ IsSeq(ValuesFrom(rd.enabled, r))
           /\ Telling(done.redactor, read \o ValuesFrom(rd.enabled, r))
           /\ Extends(done.redactor.index, rd.index)
           /\ Fits(done.record, r)
           /\ \A slot \in TextSlots(r) :
                ToldAt(done.record, r, slot, rd.enabled, done.redactor.index)
  <1> DEFINE sl == Slots(r)
             N == Len(sl)
             on == rd.enabled
             seqs == [i \in DOMAIN sl |-> ValuesAtSlot(on, r, sl[i])]
             S == UNION {ToSet(ValuesAtSlot(on, r, sl[i])) : i \in DOMAIN sl}
  <1>1. /\ N \in Nat /\ DOMAIN sl = 1 .. N
        /\ \A i \in 1 .. N : IsSlot(sl[i], r)
        /\ \A i, j \in 1 .. N : sl[i] = sl[j] => i = j
    BY SlotsAre
  <1>2. \A i \in 1 .. N : sl[i] \in TextSlots(r) <=> sl[i].field \in DOMAIN r
    BY <1>1 DEF TextSlots, ToSet
  <1>3. PICK c : /\ done = c[N]
                 /\ c[0] = [record |-> r, redactor |-> rd]
                 /\ \A k \in 1 .. N : c[k] = RedactedAt(c[k - 1], sl[k])
    <2>1. \E c : /\ Redacted(r, rd) = c[N]
                 /\ c[0] = [record |-> r, redactor |-> rd]
                 /\ \A k \in 1 .. N : c[k] = RedactedAt(c[k - 1], sl[k])
      BY ONLY <1>1, RedactedBySteps
    <2> QED BY <2>1
  <1> HIDE DEF N, sl
  <1>4. \A i \in 1 .. N : sl[i].field \in DOMAIN r => IsSeq(TextAt(r, sl[i]))
    BY <1>1, TextsAreSeqs
  <1>5. \A i \in 1 .. N : IsSeq(ValuesAtSlot(on, r, sl[i]))
    <2> TAKE i \in 1 .. N
    <2>1. CASE sl[i] \in TextSlots(r)
      <3>1. TextAt(r, sl[i]) \in Seq(ToSet(TextAt(r, sl[i])))
        BY <1>2, <1>4, <2>1 DEF IsSeq
      <3> DEFINE one == Redact(rd, TextAt(r, sl[i]))
      <3>2. IsSeq(ValuesBy(rd.enabled, TextAt(r, sl[i])))
        BY <3>1, RedactTold
      <3> QED BY <2>1, <3>2 DEF ValuesAtSlot
    <2>2. CASE sl[i] \notin TextSlots(r)
      BY <2>2, SeqIs DEF ValuesAtSlot
    <2> QED BY <2>1, <2>2
  <1>6. \A i \in 1 .. N : ValuesAtSlot(on, r, sl[i]) \in Seq(S)
    <2>1. \A i \in 1 .. N : ToSet(ValuesAtSlot(on, r, sl[i])) \subseteq S
      BY <1>1
    <2> HIDE DEF S
    <2> QED BY <1>5, <2>1, SeqIs
  <1> HIDE DEF S
  <1>7. /\ seqs \in Seq(Seq(S)) /\ Len(seqs) = N
        /\ \A i \in 1 .. N : seqs[i] = ValuesAtSlot(on, r, sl[i])
    <2>1. seqs \in [1 .. N -> Seq(S)]
      BY <1>1, <1>6
    <2>2. seqs \in Seq(Seq(S)) /\ DOMAIN seqs = 1 .. N
      BY <1>1, <2>1
    <2>3. Len(seqs) \in Nat /\ DOMAIN seqs = 1 .. Len(seqs)
      BY <2>2, LenProperties
    <2>4. Len(seqs) = N
      BY <1>1, <2>2, <2>3
    <2> QED BY <1>1, <2>2, <2>4
  <1>8. ValuesFrom(on, r) = FlattenSeq(seqs)
    BY DEF ValuesFrom, sl
  <1> HIDE DEF seqs
  <1>9. PICK v : /\ ValuesFrom(on, r) = v[N]
                 /\ v[0] = << >>
                 /\ \A k \in 1 .. N : v[k] = v[k - 1] \o ValuesAtSlot(on, r, sl[k])
                 /\ \A k \in 0 .. N : v[k] \in Seq(S)
    <2>1. \E v : /\ FlattenSeq(seqs) = v[Len(seqs)]
                 /\ v[0] = << >>
                 /\ \A k \in 1 .. Len(seqs) : v[k] = v[k - 1] \o seqs[k]
                 /\ \A k \in 0 .. Len(seqs) : v[k] \in Seq(S)
      BY <1>7, FlattenBySteps
    <2> QED BY <1>7, <1>8, <2>1
  <1> DEFINE Done(k) == /\ c[k].redactor.enabled = on
                        /\ Telling(c[k].redactor, read \o v[k])
                        /\ Extends(c[k].redactor.index, rd.index)
                        /\ Fits(c[k].record, r)
                        /\ \A i \in 1 .. N : sl[i].field \in DOMAIN r =>
                             IF i <= k THEN ToldAt(c[k].record, r, sl[i], on, c[k].redactor.index)
                             ELSE TextAt(c[k].record, sl[i]) = TextAt(r, sl[i])
             G == {k \in Nat : k <= N => Done(k)}
  <1>10. 0 \in G
    <2>1. c[0].record = r /\ c[0].redactor = rd
      BY <1>3
    <2>2. read \o v[0] = read
      <3>1. read \in Seq(ToSet(read))
        BY DEF Telling, IsSeq
      <3> QED BY <1>9, <3>1, ConcatEmptySeq
    <2>3. Extends(rd.index, rd.index) /\ Fits(r, r)
      BY DEF Extends, Fits
    <2>4. \A i \in 1 .. N : ~(i <= 0)
      BY <1>1
    <2>5. Done(0)
      BY <2>1, <2>2, <2>3, <2>4
    <2> HIDE DEF Done
    <2> QED BY <2>5
  <1>11. ASSUME NEW k \in Nat, k \in G PROVE k + 1 \in G
    <2> SUFFICES ASSUME k + 1 <= N PROVE Done(k + 1)
      <3> HIDE DEF Done
      <3> QED OBVIOUS
    <2>1. k + 1 \in 1 .. N /\ (k + 1) - 1 = k /\ k <= N /\ k \in 0 .. N
      BY <1>1
    <2>2. Done(k)
      <3> HIDE DEF Done
      <3> QED BY <1>11, <2>1
    <2> DEFINE slot == sl[k + 1]
    <2>3. /\ c[k + 1] = RedactedAt(c[k], slot)
          /\ v[k + 1] = v[k] \o ValuesAtSlot(on, r, slot)
          /\ v[k] \in Seq(S)
          /\ IsSlot(slot, r)
      BY <1>1, <1>3, <1>9, <2>1
    <2>4. \A i \in 1 .. N : i <= k + 1 <=> (i <= k \/ i = k + 1)
      BY <1>1
    <2>5. CASE slot.field \notin DOMAIN r
      <3>1. c[k + 1] = c[k]
        BY <2>2, <2>3, <2>5 DEF RedactedAt, Fits
      <3>2. v[k + 1] = v[k]
        <4>1. ValuesAtSlot(on, r, slot) = << >>
          BY <1>2, <2>1, <2>5 DEF ValuesAtSlot
        <4> QED BY <2>3, <4>1, ConcatEmptySeq
      <3>3. \A i \in 1 .. N : sl[i].field \in DOMAIN r => i # k + 1
        BY <2>5
      <3> QED BY <2>2, <2>4, <3>1, <3>2, <3>3
    <2>6. CASE slot.field \in DOMAIN r
      <3> DEFINE text == TextAt(r, slot)
                 one == Redact(c[k].redactor, text)
                 values == ValuesBy(on, text)
                 old == c[k].redactor
                 new == c[k + 1].redactor
      <3>1. TextAt(c[k].record, slot) = text
        <4>1. ~(k + 1 <= k)
          OBVIOUS
        <4> QED BY <2>1, <2>2, <2>6, <4>1
      <3>2. c[k + 1] = [record |-> WithText(c[k].record, slot, one.text), redactor |-> one.redactor]
        BY <2>2, <2>3, <2>6, <3>1 DEF RedactedAt, Fits
      <3>3. new = one.redactor /\ c[k + 1].record = WithText(c[k].record, slot, one.text)
        BY <3>2
      <3>4. text \in Seq(ToSet(text))
        BY <1>4, <2>1, <2>6 DEF IsSeq
      <3>5. Telling(old, read \o v[k]) /\ old.enabled = on /\ on \in BOOLEAN
        BY <2>2
      <3>6. one = Redact(old, text)
        OBVIOUS
      <3>7. ValuesAtSlot(on, r, slot) = values
        BY <1>2, <2>1, <2>6 DEF ValuesAtSlot
      <3> HIDE DEF one, text, old, new, slot
      <3>8. /\ one.redactor.enabled = old.enabled
            /\ IsSeq(ValuesBy(old.enabled, text))
            /\ Telling(one.redactor, (read \o v[k]) \o ValuesBy(old.enabled, text))
            /\ Extends(one.redactor.index, old.index)
            /\ \A s \in SpansBy(old.enabled, text) : Key(s) \in DOMAIN one.redactor.index
            /\ one.text = RetoldBy(text, SpansBy(old.enabled, text), one.redactor.index)
        BY <3>4, <3>5, <3>6, RedactTold
      <3>9. Telling(new, read \o v[k + 1])
        <4> DEFINE a == v[k]
        <4>1. IsSeq(values) /\ IsSeq(read) /\ IsSeq(a)
          BY <2>3, <3>5, <3>8, SeqIs DEF Telling
        <4>2. v[k + 1] = a \o values
          BY <2>3, <3>7
        <4> DEFINE V == ToSet(values) \cup ToSet(read) \cup ToSet(a)
        <4>3. values \in Seq(V) /\ read \in Seq(V) /\ a \in Seq(V)
          BY <4>1, SeqIs
        <4>4. Telling(new, (read \o a) \o values)
          BY <3>3, <3>5, <3>8
        <4> HIDE DEF V, values, a
        <4>5. (read \o a) \o values = read \o (a \o values)
          BY ONLY <4>3, Regrouped
        <4> QED BY <4>2, <4>4, <4>5
      <3>10. Extends(new.index, old.index) /\ Extends(new.index, rd.index)
        BY <2>2, <3>3, <3>8 DEF Extends, old
      <3>11. /\ Fits(c[k + 1].record, r)
             /\ TextAt(c[k + 1].record, slot) = one.text
             /\ \A other : IsSlot(other, r) /\ other.field \in DOMAIN r /\ other # slot =>
                  TextAt(c[k + 1].record, other) = TextAt(c[k].record, other)
        <4>1. Fits(c[k].record, r)
          BY <2>2
        <4> QED BY <2>3, <2>6, <3>3, <4>1, WithTextIs
      <3>12. ToldAt(c[k + 1].record, r, slot, on, new.index)
        BY <3>3, <3>5, <3>8, <3>11 DEF ToldAt, text
      <3>13. ASSUME NEW i \in 1 .. N, sl[i].field \in DOMAIN r
             PROVE  IF i <= k + 1 THEN ToldAt(c[k + 1].record, r, sl[i], on, new.index)
                    ELSE TextAt(c[k + 1].record, sl[i]) = TextAt(r, sl[i])
        <4>1. CASE i = k + 1
          BY <2>4, <3>12, <4>1 DEF slot
        <4>2. CASE i # k + 1
          <5>1. sl[i] # slot /\ IsSlot(sl[i], r)
            BY <1>1, <2>1, <4>2 DEF slot
          <5>2. TextAt(c[k + 1].record, sl[i]) = TextAt(c[k].record, sl[i])
            BY <3>11, <3>13, <5>1
          <5>3. IF i <= k THEN ToldAt(c[k].record, r, sl[i], on, old.index)
                ELSE TextAt(c[k].record, sl[i]) = TextAt(r, sl[i])
            BY <2>2, <3>13 DEF old
          <5>4. CASE i <= k
            <6>1. ToldAt(c[k + 1].record, r, sl[i], on, new.index)
              BY <3>10, <5>2, <5>3, <5>4, ToldStays
            <6> QED BY <2>4, <5>4, <6>1
          <5>5. CASE ~(i <= k)
            BY <2>4, <4>2, <5>2, <5>3, <5>5
          <5> QED BY <5>4, <5>5
        <4> QED BY <4>1, <4>2
      <3>14. c[k + 1].redactor.enabled = on
        BY <3>3, <3>5, <3>8 DEF new
      <3> QED BY <3>9, <3>10, <3>11, <3>13, <3>14 DEF new
    <2> QED BY <2>5, <2>6
  <1>12. Done(N)
    <2>1. \A k \in Nat : k \in G
      <3> HIDE DEF G
      <3> QED BY <1>10, <1>11, NumberInduction
    <2> HIDE DEF Done
    <2> QED BY <1>1, <2>1
  <1>13. \A slot \in TextSlots(r) : \E i \in 1 .. N : slot = sl[i] /\ sl[i].field \in DOMAIN r /\ i <= N
    BY <1>1 DEF TextSlots, ToSet, sl
  <1>14. N \in 0 .. N /\ IsSeq(v[N])
    <2>1. N \in 0 .. N
      BY <1>1
    <2> QED BY <1>9, <2>1, SeqIs
  <1>15. \A slot \in TextSlots(r) : ToldAt(done.record, r, slot, on, done.redactor.index)
    BY <1>3, <1>12, <1>13
  <1> QED BY <1>3, <1>9, <1>12, <1>14, <1>15

----------------------------------------------------------------------------
(***************************************************************************)
(* What the reading layer hands over: texts wherever a text is asked for,  *)
(* and a failure that names its exception.                                 *)
(***************************************************************************)

\* A value that can be looked into.
Legible(v) ==
    /\ Is(v, "int") => v.int \in Int
    /\ Is(v, "float") => IsFloat(v.float)
    /\ Is(v, "bool") => v.bool \in BOOLEAN
    /\ Is(v, "str") => IsSeq(v.str)
    /\ Is(v, "list") => v.list \in Seq(Json)
    /\ Is(v, "dict") => /\ IsFiniteSet(DOMAIN v.dict)
                        /\ \A key \in DOMAIN v.dict : v.dict[key] \in Json

\* A result is good or names its exception.
Typed(result) == IsGood(result) \/ Is(result, "bad")

\* What Good and Bad make.
LEMMA GoodOrBad ==
    /\ \A v : IsGood(Good(v)) /\ Good(v).ok = v /\ Typed(Good(v))
    /\ \A e : ~IsGood(Bad(e)) /\ Bad(e).bad = e /\ Is(Bad(e), "bad") /\ Typed(Bad(e))
  BY DEF Good, Bad, IsGood, Typed, Is

\* The values that hold no more than they show.
LEMMA PlainlyLegible ==
    /\ \A v \in Json : Legible(v)
    /\ Legible(Missing)
    /\ \A t : IsSeq(t) => Legible(Str(t)) /\ Is(Str(t), "str") /\ Str(t).str = t
  <1>1. \A v \in Json : Legible(v)
    BY JsonAssumption, SeqIs DEF Legible
  <1>2. Legible(Missing)
    BY DEF Legible, Missing, Is
  <1>3. \A t : IsSeq(t) => Legible(Str(t)) /\ Is(Str(t), "str") /\ Str(t).str = t
    BY DEF Legible, Str, Is
  <1> QED BY <1>1, <1>2, <1>3

\* A step of a path leads to a value that can be looked into, or to nothing.
LEMMA FollowIs ==
    ASSUME NEW v, Legible(v), NEW segment
    PROVE  Legible(Follow(v, segment))
  <1>1. CASE Is(v, "dict") /\ segment \in DOMAIN v.dict
    <2>1. Follow(v, segment) = v.dict[segment]
      BY <1>1 DEF Follow, Is
    <2> QED BY <1>1, <2>1, PlainlyLegible DEF Legible
  <1>2. CASE Is(v, "list") /\ segment \in DOMAIN IndexOf
    <2> DEFINE i == IndexOf[segment]
               list == v.list
               n == Len(list)
    <2>1. Follow(v, segment) = Entry(list, i)
      BY <1>2 DEF Follow, Is
    <2>2. n \in Nat /\ DOMAIN list = 1 .. n /\ \A k \in 1 .. n : list[k] \in Json
      BY <1>2, LenProperties DEF Legible
    <2> HIDE DEF i, list, n
    <2>3. CASE i \in -n .. n - 1
      <3> DEFINE k == (IF i < 0 THEN n + i ELSE i) + 1
      <3>1. k \in 1 .. n
        <4>1. CASE i < 0
          BY <2>2, <2>3, <4>1
        <4>2. CASE ~(i < 0)
          BY <2>2, <2>3, <4>2
        <4> QED BY <4>1, <4>2
      <3>2. Entry(list, i) = list[k]
        BY <2>3 DEF Entry, n
      <3> HIDE DEF k
      <3> QED BY <2>1, <2>2, <3>1, <3>2, PlainlyLegible
    <2>4. CASE i \notin -n .. n - 1
      <3>1. Entry(list, i) = Missing
        BY <2>4 DEF Entry, n
      <3> QED BY <2>1, <3>1, PlainlyLegible
    <2> QED BY <2>3, <2>4
  <1>3. CASE /\ ~(Is(v, "dict") /\ segment \in DOMAIN v.dict)
             /\ ~(Is(v, "list") /\ segment \in DOMAIN IndexOf)
    <2>1. Follow(v, segment) = Missing
      BY <1>3 DEF Follow
    <2> QED BY <2>1, PlainlyLegible
  <1> QED BY <1>1, <1>2, <1>3

\* Reached, step by step.
LEMMA ReachedBySteps ==
    ASSUME NEW payload, NEW path, Len(path) \in Nat
    PROVE  \E c : /\ Reached(payload, path) = c[Len(path)]
                  /\ c[0] = payload
                  /\ \A k \in 1 .. Len(path) : c[k] = Follow(c[k - 1], path[k])
  <1> DEFINE N == Len(path)
             a == payload
             e(x, k) == Follow(x, path[k])
             Steps(f, n) == f = [k \in 0 .. n |-> IF k = 0 THEN a ELSE e(f[k - 1], k)]
             G == {n \in Nat : \E f : Steps(f, n)}
             d == CHOOSE f : Steps(f, N)
  <1>1. Reached(payload, path) = d[N]
    BY DEF Reached
  <1>8. N \in Nat
    OBVIOUS
  <1> HIDE DEF e, a, N
  <1>2. 0 \in G
    <2>1. Steps([k \in 0 .. 0 |-> a], 0)
      OBVIOUS
    <2> QED BY <2>1
  <1>3. ASSUME NEW n \in Nat, n \in G PROVE n + 1 \in G
    <2>1. PICK f : Steps(f, n)
      BY <1>3
    <2> DEFINE g == [k \in 0 .. n + 1 |-> IF k = n + 1 THEN e(f[n], n + 1) ELSE f[k]]
    <2>2. \A k \in 0 .. n + 1 : g[k] = IF k = 0 THEN a ELSE e(g[k - 1], k)
      <3>1. \A k \in 0 .. n : f[k] = IF k = 0 THEN a ELSE e(f[k - 1], k)
        BY <2>1
      <3>2. \A k \in 0 .. n : g[k] = f[k]
        OBVIOUS
      <3>3. g[n + 1] = e(f[n], n + 1)
        OBVIOUS
      <3> HIDE DEF g
      <3> QED BY <3>1, <3>2, <3>3
    <2>3. Steps(g, n + 1)
      BY <2>2
    <2> HIDE DEF g, Steps
    <2> QED BY <2>3
  <1>4. N \in G
    <2> HIDE DEF G
    <2> QED BY <1>2, <1>3, <1>8, NumberInduction
  <1>5. Steps(d, N)
    <2> HIDE DEF Steps
    <2> QED BY <1>4
  <1>6. \A k \in 0 .. N : d[k] = IF k = 0 THEN a ELSE e(d[k - 1], k)
    <2> HIDE DEF d
    <2> QED BY <1>5
  <1>7. d[0] = a /\ \A k \in 1 .. N : d[k] = e(d[k - 1], k)
    <2> HIDE DEF d
    <2> QED BY <1>6, <1>8
  <1> HIDE DEF d
  <1> QED BY <1>1, <1>7 DEF e, a, N

\* What a path leads to can be looked into.
LEMMA ExtractPathIs ==
    ASSUME NEW payload, Legible(payload), NEW path, Len(path) \in Nat
    PROVE  /\ Typed(ExtractPath(payload, path))
           /\ IsGood(ExtractPath(payload, path)) => Legible(ExtractPath(payload, path).ok)
  <1>1. CASE path = WholePayload
    <2>1. "" \notin ToSet(WholePayload)
      <3>1. DOMAIN WholePayload = {1} /\ WholePayload[1] = "."
        BY DEF WholePayload
      <3> QED BY <3>1 DEF ToSet
    <2>2. ExtractPath(payload, path) = Good(payload)
      BY <1>1, <2>1 DEF ExtractPath
    <2> QED BY <2>2, GoodOrBad
  <1>2. CASE path # WholePayload /\ "" \in ToSet(path)
    <2>1. ExtractPath(payload, path) = Bad("MappingError")
      BY <1>2 DEF ExtractPath
    <2> QED BY <2>1, GoodOrBad
  <1>3. CASE path # WholePayload /\ "" \notin ToSet(path)
    <2> DEFINE N == Len(path)
    <2>1. PICK c : /\ Reached(payload, path) = c[N]
                   /\ c[0] = payload
                   /\ \A k \in 1 .. N : c[k] = Follow(c[k - 1], path[k])
      <3>1. Len(path) \in Nat
        OBVIOUS
      <3>2. \E c : /\ Reached(payload, path) = c[Len(path)]
                   /\ c[0] = payload
                   /\ \A k \in 1 .. Len(path) : c[k] = Follow(c[k - 1], path[k])
        BY ONLY <3>1, ReachedBySteps
      <3> QED BY <3>2
    <2>6. N \in Nat
      OBVIOUS
    <2> HIDE DEF N
    <2> DEFINE G == {k \in Nat : k <= N => Legible(c[k])}
    <2>2. 0 \in G
      BY <2>1
    <2>3. ASSUME NEW k \in Nat, k \in G PROVE k + 1 \in G
      <3> SUFFICES ASSUME k + 1 <= N PROVE Legible(c[k + 1])
        OBVIOUS
      <3>1. k + 1 \in 1 .. N /\ (k + 1) - 1 = k /\ k <= N
        BY <2>6
      <3>2. Legible(c[k])
        BY <2>3, <3>1
      <3>3. c[k + 1] = Follow(c[k], path[k + 1])
        BY <2>1, <3>1
      <3> QED BY <3>2, <3>3, FollowIs
    <2>4. \A k \in Nat : k \in G
      <3> HIDE DEF G
      <3> QED BY <2>2, <2>3, NumberInduction
    <2>5. Legible(c[N])
      BY <2>4, <2>6
    <2>7. ExtractPath(payload, path) = Good(Reached(payload, path))
      BY <1>3 DEF ExtractPath
    <2> QED BY <2>1, <2>5, <2>7, GoodOrBad
  <1> QED BY <1>1, <1>2, <1>3

\* The texts among some values, joined, are a text.
LEMMA JoinedTextIs ==
    ASSUME NEW entries, NEW n \in Nat, DOMAIN entries = 1 .. n,
           \A i \in 1 .. n : Legible(entries[i])
    PROVE  Legible(JoinedText(entries))
  <1> DEFINE line(i) == IF Is(entries[i], "str") THEN <<"\n">> \o entries[i].str ELSE << >>
             S == UNION {ToSet(line(i)) : i \in 1 .. n}
             lines == [i \in DOMAIN entries |-> line(i)]
             all == FlattenSeq(lines)
  <1>1. \A i \in 1 .. n : IsSeq(line(i))
    <2> TAKE i \in 1 .. n
    <2>1. CASE Is(entries[i], "str")
      <3>1. IsSeq(entries[i].str)
        BY <2>1 DEF Legible
      <3>2. IsSeq(<<"\n">>)
        <4>1. <<"\n">> \in Seq({"\n"})
          OBVIOUS
        <4> QED BY <4>1, SeqIs
      <3> QED BY <2>1, <3>1, <3>2, SeqIs
    <2>2. CASE ~Is(entries[i], "str")
      BY <2>2, SeqIs
    <2> QED BY <2>1, <2>2
  <1> HIDE DEF line
  <1>2. \A i \in 1 .. n : line(i) \in Seq(S)
    <2>1. \A i \in 1 .. n : ToSet(line(i)) \subseteq S
      OBVIOUS
    <2> HIDE DEF S
    <2> QED BY <1>1, <2>1, SeqIs
  <1> HIDE DEF S
  <1>3. lines \in Seq(Seq(S))
    <2>1. lines \in [1 .. n -> Seq(S)]
      BY <1>2
    <2> QED BY <2>1
  <1> HIDE DEF lines
  <1>4. all \in Seq(S)
    <2>1. PICK v : /\ FlattenSeq(lines) = v[Len(lines)]
                   /\ \A k \in 0 .. Len(lines) : v[k] \in Seq(S)
      BY <1>3, FlattenBySteps
    <2>2. Len(lines) \in 0 .. Len(lines)
      BY <1>3, LenProperties
    <2> QED BY <2>1, <2>2
  <1>5. JoinedText(entries) = IF all = << >> THEN Missing ELSE Str(Tail(all))
    BY DEF JoinedText, lines, line
  <1> HIDE DEF all
  <1>6. CASE all = << >>
    BY <1>5, <1>6, PlainlyLegible
  <1>7. CASE all # << >>
    <2>1. Tail(all) \in Seq(S)
      BY <1>4, <1>7, HeadTailProperties
    <2> QED BY <1>5, <1>7, <2>1, SeqIs, PlainlyLegible
  <1> QED BY <1>6, <1>7

\* A message's content is a text, if it has one.
LEMMA MessageContentIs ==
    ASSUME NEW message, Legible(message)
    PROVE  Legible(MessageContent(message))
  <1> DEFINE content == Follow(message, "content")
             parts == [i \in DOMAIN content.list |-> TextPart(content.list[i])]
  <1>1. Legible(content)
    BY FollowIs
  <1> HIDE DEF content
  <1>2. CASE Is(content, "str")
    BY <1>1, <1>2 DEF MessageContent, content, Is
  <1>3. CASE Is(content, "list")
    <2> DEFINE n == Len(content.list)
    <2>1. n \in Nat /\ DOMAIN content.list = 1 .. n /\ \A i \in 1 .. n : content.list[i] \in Json
      BY <1>1, <1>3, LenProperties DEF Legible
    <2> HIDE DEF n
    <2>2. \A i \in 1 .. n : Legible(TextPart(content.list[i]))
      BY <2>1, PlainlyLegible, FollowIs DEF TextPart
    <2>3. DOMAIN parts = 1 .. n /\ \A i \in 1 .. n : Legible(parts[i])
      BY <2>1, <2>2
    <2>4. MessageContent(message) = JoinedText(parts)
      BY <1>3 DEF MessageContent, content, Is
    <2> HIDE DEF parts
    <2> QED BY <2>1, <2>3, <2>4, JoinedTextIs
  <1>4. CASE ~Is(content, "str") /\ ~Is(content, "list")
    <2>1. MessageContent(message) = Missing
      BY <1>4 DEF MessageContent, content
    <2> QED BY <2>1, PlainlyLegible
  <1> QED BY <1>2, <1>3, <1>4

\* Whatever an extractor takes out of a value can be looked into.
LEMMA ExtractIs ==
    ASSUME NEW v, Legible(v), NEW extractor \in Extractors
    PROVE  Legible(Extract(extractor, v))
  <1>1. \A role : Legible(LastMessage(v, role))
    <2> TAKE role
    <2> DEFINE said == IF Is(v, "list") THEN {i \in DOMAIN v.list : Holds(v.list[i], "role", <<role>>)}
                       ELSE {}
               n == Len(v.list)
    <2>1. CASE said = {}
      BY <2>1, PlainlyLegible DEF LastMessage
    <2>2. CASE said # {}
      <3>1. Is(v, "list")
        BY <2>2
      <3>2. n \in Nat /\ DOMAIN v.list = 1 .. n /\ \A i \in 1 .. n : v.list[i] \in Json
        BY <3>1, LenProperties DEF Legible
      <3>3. said \subseteq 1 .. n
        BY <3>1, <3>2
      <3> HIDE DEF n
      <3>4. LastMessage(v, role) = MessageContent(v.list[Max(said)])
        BY <2>2 DEF LastMessage
      <3> HIDE DEF said
      <3>5. Max(said) \in 1 .. n
        <4> DEFINE T == {n - i : i \in said}
        <4>1. T \in SUBSET Nat /\ T # {}
          <5>1. \A i \in said : n - i \in Nat
            BY <3>2, <3>3
          <5> QED BY <2>2, <5>1
        <4>2. PICK m \in T : \A k \in T : m <= k
          <5> HIDE DEF T
          <5> QED BY <4>1, LeastNumber
        <4>3. PICK i \in said : m = n - i
          BY <4>2
        <4>4. \A j \in said : i >= j
          <5> TAKE j \in said
          <5>1. m <= n - j
            BY <4>2
          <5> QED BY <3>2, <3>3, <4>3, <5>1
        <4>5. Max(said) \in said
          BY <4>4 DEF Max
        <4> QED BY <3>3, <4>5
      <3> QED BY <3>2, <3>4, <3>5, PlainlyLegible, MessageContentIs
    <2> QED BY <2>1, <2>2
  <1>2. Legible(JoinText(v))
    <2>1. CASE Is(v, "str")
      BY <2>1 DEF JoinText, Is
    <2>2. CASE Is(v, "list")
      <3>1. /\ Len(v.list) \in Nat /\ DOMAIN v.list = 1 .. Len(v.list)
            /\ \A i \in 1 .. Len(v.list) : Legible(v.list[i])
        BY <2>2, LenProperties, PlainlyLegible DEF Legible
      <3>2. JoinText(v) = JoinedText(v.list)
        BY <2>2 DEF JoinText, Is
      <3> QED BY <3>1, <3>2, JoinedTextIs
    <2>3. CASE ~Is(v, "str") /\ ~Is(v, "list")
      <3>1. JoinText(v) = Missing
        BY <2>3 DEF JoinText
      <3> QED BY <3>1, PlainlyLegible
    <2> QED BY <2>1, <2>2, <2>3
  <1> QED BY <1>1, <1>2 DEF Extract, Extractors

\* A result that gives a text, if it is good.
TextResult(x) == Typed(x) /\ (IsGood(x) => IsSeq(x.ok))

\* One word is a text.
LEMMA WordIsText == \A w : IsSeq(<<w>>)
  <1> TAKE w
  <1>1. <<w>> \in Seq({w})
    OBVIOUS
  <1> QED BY <1>1, SeqIs

\* What coerce.py makes of a value is a result of its kind.
LEMMA CoerceTextIs ==
    ASSUME NEW v, Legible(v), NEW allowNumber
    PROVE  TextResult(CoerceText(v, allowNumber))
  <1>1. CASE Is(v, "null")
    <2>1. CoerceText(v, allowNumber) = Bad("MissingFieldError")
      BY <1>1 DEF CoerceText, Is
    <2> QED BY <2>1, GoodOrBad DEF TextResult
  <1>2. CASE Is(v, "str")
    <2>1. CoerceText(v, allowNumber) = Good(v.str)
      BY <1>2 DEF CoerceText, Is
    <2> QED BY <1>2, <2>1, GoodOrBad DEF TextResult, Legible
  <1>3. CASE Is(v, "int") /\ allowNumber
    <2>1. CoerceText(v, allowNumber) = Good(<<ToString(v.int)>>)
      BY <1>3 DEF CoerceText, Is
    <2> QED BY <2>1, GoodOrBad, WordIsText DEF TextResult
  <1>4. CASE ~Is(v, "null") /\ ~Is(v, "str") /\ ~(Is(v, "int") /\ allowNumber)
    <2>1. CoerceText(v, allowNumber) = Bad("FieldTypeError")
      BY <1>4 DEF CoerceText
    <2> QED BY <2>1, GoodOrBad DEF TextResult
  <1> QED BY <1>1, <1>2, <1>3, <1>4

\* What int() makes of a float is a number or an exception.
LEMMA WholeIs == \A f : Typed(Whole(f))
  <1> TAKE f
  <1>1. CASE Is(f, "whole")
    BY <1>1, GoodOrBad DEF Whole, Is
  <1>2. CASE Is(f, "fraction")
    BY <1>2, GoodOrBad DEF Whole, Is
  <1>3. CASE Is(f, "infinite")
    BY <1>3, GoodOrBad DEF Whole, Is
  <1>4. CASE ~Is(f, "whole") /\ ~Is(f, "fraction") /\ ~Is(f, "infinite")
    BY <1>4, GoodOrBad DEF Whole
  <1> QED BY <1>1, <1>2, <1>3, <1>4

\* So is what is made of a count,
LEMMA CoerceIntIs == \A v : Typed(CoerceInt(v))
  <1> TAKE v
  <1>1. \A w : Typed(CoerceNumeral(w))
    BY GoodOrBad, WholeIs DEF CoerceNumeral
  <1>2. CASE Is(v, "null")
    BY <1>2, GoodOrBad DEF CoerceInt, Is
  <1>3. CASE Is(v, "int")
    BY <1>3, GoodOrBad DEF CoerceInt, Is
  <1>4. CASE Is(v, "float")
    BY <1>4, WholeIs DEF CoerceInt, Is
  <1>5. CASE Is(v, "str")
    <2>1. CoerceInt(v) = IF Blank(v.str) THEN Bad("MissingFieldError") ELSE CoerceNumeral(Word(v.str))
      BY <1>5 DEF CoerceInt, Is
    <2> QED BY <1>1, <2>1, GoodOrBad
  <1>6. CASE ~Is(v, "null") /\ ~Is(v, "int") /\ ~Is(v, "float") /\ ~Is(v, "str")
    BY <1>6, GoodOrBad DEF CoerceInt
  <1> QED BY <1>2, <1>3, <1>4, <1>5, <1>6

\* of a flag,
LEMMA CoerceBoolIs == \A v : Typed(CoerceBool(v))
  <1> TAKE v
  <1>1. CASE Is(v, "null")
    <2>1. CoerceBool(v) = Bad("MissingFieldError")
      BY <1>1 DEF CoerceBool, Is
    <2> QED BY <2>1, GoodOrBad
  <1>2. CASE Is(v, "bool")
    <2>1. CoerceBool(v) = Good(v.bool)
      BY <1>2 DEF CoerceBool, Is
    <2> QED BY <2>1, GoodOrBad
  <1>3. CASE Is(v, "int") /\ v.int \in {0, 1}
    <2>1. CoerceBool(v) = Good(v.int = 1)
      BY <1>3 DEF CoerceBool, Is
    <2> QED BY <2>1, GoodOrBad
  <1>4. CASE Is(v, "str") /\ Word(v.str) \in TrueWords
    <2>1. Word(v.str) \notin FalseWords
      BY <1>4, WordsAssumption
    <2>2. CoerceBool(v) = Good(TRUE)
      BY <1>4, <2>1 DEF CoerceBool, Is
    <2> QED BY <2>2, GoodOrBad
  <1>5. CASE Is(v, "str") /\ Word(v.str) \in FalseWords
    <2>1. Word(v.str) \notin TrueWords
      BY <1>5, WordsAssumption
    <2>2. CoerceBool(v) = Good(FALSE)
      BY <1>5, <2>1 DEF CoerceBool, Is
    <2> QED BY <2>2, GoodOrBad
  <1>6. CASE /\ ~Is(v, "null") /\ ~Is(v, "bool") /\ ~(Is(v, "int") /\ v.int \in {0, 1})
             /\ ~(Is(v, "str") /\ Word(v.str) \in TrueWords)
             /\ ~(Is(v, "str") /\ Word(v.str) \in FalseWords)
    <2>1. CoerceBool(v) = Bad("FieldTypeError")
      BY <1>6 DEF CoerceBool
    <2> QED BY <2>1, GoodOrBad
  <1> QED BY <1>1, <1>2, <1>3, <1>4, <1>5, <1>6

\* and of a time.
LEMMA CoerceTimestampIs == \A v, naive : Typed(CoerceTimestamp(v, naive))
  <1> TAKE v, naive
  <1>1. \A n : Typed(FromEpoch(n))
    BY GoodOrBad DEF FromEpoch
  <1>2. \A f : Typed(FloatEpoch(f))
    <2> TAKE f
    <2>1. CASE Is(f, "whole")
      BY <1>1, <2>1 DEF FloatEpoch, Is
    <2>2. CASE Is(f, "fraction")
      BY <1>1, <2>2 DEF FloatEpoch, Is
    <2>3. CASE ~Is(f, "whole") /\ ~Is(f, "fraction")
      BY <2>3, GoodOrBad DEF FloatEpoch
    <2> QED BY <2>1, <2>2, <2>3
  <1>3. \A i : Typed(FromIso(i, naive))
    <2> TAKE i
    <2>1. CASE ~(~i.zoned /\ ~naive) /\ ~Is(i.second, "beyond")
      BY <2>1, GoodOrBad DEF FromIso
    <2>2. CASE (~i.zoned /\ ~naive) /\ ~Is(i.second, "beyond")
      BY <2>2, GoodOrBad DEF FromIso
    <2>3. CASE ~(~i.zoned /\ ~naive) /\ Is(i.second, "beyond")
      BY <2>3, GoodOrBad DEF FromIso
    <2>4. CASE (~i.zoned /\ ~naive) /\ Is(i.second, "beyond")
      <3>1. FromIso(i, naive) \in {Bad("TimestampError"), Bad("OverflowError")}
        BY <2>4 DEF FromIso
      <3> QED BY <3>1, GoodOrBad
    <2> QED BY <2>1, <2>2, <2>3, <2>4
  <1>4. \A t : Typed(CoerceMoment(t, naive))
    <2> TAKE t
    <2> DEFINE w == Word(t)
    <2>1. CASE Blank(t)
      <3>1. CoerceMoment(t, naive) = Bad("MissingFieldError")
        BY <2>1 DEF CoerceMoment
      <3> QED BY <3>1, GoodOrBad
    <2>2. CASE ~Blank(t) /\ w \in Digits
      <3>1. w \notin DOMAIN InstantOf
        BY <2>2, WordsAssumption
      <3> HIDE DEF w
      <3>2. CoerceMoment(t, naive)
              = IF w \in DOMAIN IntOf THEN FromEpoch(IntOf[w]) ELSE Bad("ValueError")
        BY <2>2, <3>1 DEF CoerceMoment, w
      <3> QED BY <1>1, <3>2, GoodOrBad
    <2>3. CASE ~Blank(t) /\ w \in DOMAIN InstantOf
      <3>1. w \notin Digits
        BY <2>3, WordsAssumption
      <3> HIDE DEF w
      <3>2. CoerceMoment(t, naive) = FromIso(InstantOf[w], naive)
        BY <2>3, <3>1 DEF CoerceMoment, w
      <3> QED BY <1>3, <3>2
    <2>4. CASE ~Blank(t) /\ w \notin Digits /\ w \notin DOMAIN InstantOf
      <3>1. CoerceMoment(t, naive) = Bad("TimestampError")
        BY <2>4 DEF CoerceMoment
      <3> QED BY <3>1, GoodOrBad
    <2> QED BY <2>1, <2>2, <2>3, <2>4
  <1>5. CASE Is(v, "null")
    BY <1>5, GoodOrBad DEF CoerceTimestamp, Is
  <1>6. CASE Is(v, "int")
    BY <1>1, <1>6 DEF CoerceTimestamp, Is
  <1>7. CASE Is(v, "float")
    BY <1>2, <1>7 DEF CoerceTimestamp, Is
  <1>8. CASE Is(v, "str")
    BY <1>4, <1>8 DEF CoerceTimestamp, Is
  <1>9. CASE ~Is(v, "null") /\ ~Is(v, "int") /\ ~Is(v, "float") /\ ~Is(v, "str")
    BY <1>9, GoodOrBad DEF CoerceTimestamp
  <1> QED BY <1>5, <1>6, <1>7, <1>8, <1>9

\* What a sequence of results gives, if it gives anything, is what each of them gave.
LEMMA GatheredIs ==
    ASSUME NEW results, NEW n \in Nat, DOMAIN results = 1 .. n, \A i \in 1 .. n : Typed(results[i])
    PROVE  /\ Typed(Gathered(results))
           /\ IsGood(Gathered(results)) =>
                /\ IsSeq(Gathered(results).ok) /\ DOMAIN Gathered(results).ok = 1 .. n
                /\ \A i \in 1 .. n : IsGood(results[i]) /\ Gathered(results).ok[i] = results[i].ok
  <1> DEFINE failed == {i \in DOMAIN results : ~IsGood(results[i])}
             given == [i \in DOMAIN results |-> results[i].ok]
  <1>1. CASE failed # {}
    <2>1. Gathered(results) = results[Min(failed)]
      BY <1>1 DEF Gathered
    <2>2. failed \in SUBSET Nat
      OBVIOUS
    <2>5. failed \subseteq 1 .. n /\ \A i \in failed : ~IsGood(results[i])
      OBVIOUS
    <2> HIDE DEF failed
    <2>3. PICK m \in failed : \A i \in failed : m <= i
      BY <1>1, <2>2, LeastNumber
    <2>4. Min(failed) \in failed
      BY <2>3 DEF Min
    <2> QED BY <2>1, <2>4, <2>5
  <1>2. CASE failed = {}
    <2>1. Gathered(results) = Good(given)
      BY <1>2 DEF Gathered
    <2>2. \A i \in 1 .. n : IsGood(results[i])
      BY <1>2
    <2>3. DOMAIN given = 1 .. n /\ \A i \in 1 .. n : given[i] = results[i].ok
      OBVIOUS
    <2>4. IsSeq(given)
      <3> DEFINE S == {results[i].ok : i \in 1 .. n}
      <3>1. given \in [1 .. n -> S]
        OBVIOUS
      <3>2. given \in Seq(S)
        BY <3>1
      <3> QED BY <3>2, SeqIs
    <2> HIDE DEF given
    <2> QED BY <2>1, <2>2, <2>3, <2>4, GoodOrBad
  <1> QED BY <1>1, <1>2

\* The elements of a finite set, in the order SetToSeq takes them in.
LEMMA SetToSeqIs ==
    ASSUME NEW S, IsFiniteSet(S)
    PROVE  SetToSeq(S) \in Seq(S)
  <1> DEFINE n == Cardinality(S)
  <1>1. n \in Nat
    BY FS_CardinalityType
  <1>2. PICK b : b \in Bijection(1 .. n, S)
    BY FS_CardinalityType DEF ExistsBijection
  <1> HIDE DEF n
  <1>3. b \in [1 .. n -> S] /\ IsInjective(b)
    BY <1>2 DEF Bijection, Injection, IsInjective
  <1>4. SetToSeq(S) \in [1 .. n -> S]
    BY <1>3 DEF SetToSeq, n
  <1> QED BY <1>1, <1>4

\* The field of a record that a value is for.
FieldReadable(f, x) ==
    /\ f = "judge_verdicts" =>
         /\ IsSeq(x)
         /\ \A i \in DOMAIN x : "criterion" \in DOMAIN x[i] /\ IsSeq(x[i].criterion)
    /\ f \in ToSet(RedactedTextFields) => IsSeq(x)

FieldResult(f, x) == Typed(x) /\ (IsGood(x) => FieldReadable(f, x.ok))

\* A result that gives a verdict with a criterion, if it is good.
VerdictResult(x) == Typed(x) /\ (IsGood(x) => "criterion" \in DOMAIN x.ok /\ IsSeq(x.ok.criterion))

\* A verdict has a criterion to redact.
LEMMA VerdictIs ==
    ASSUME NEW criterion, Legible(criterion), NEW passed
    PROVE  VerdictResult(Verdict(criterion, passed))
  <1> DEFINE x == Verdict(criterion, passed)
             text == CoerceText(criterion, FALSE)
             flag == CoerceBool(passed)
             both == [criterion |-> text.ok, passed |-> flag.ok]
  <1>1. TextResult(text) /\ Typed(flag)
    BY CoerceTextIs, CoerceBoolIs
  <1>2. \/ x = text /\ ~IsGood(text)
        \/ x = flag /\ ~IsGood(flag)
        \/ x = Bad("MissingFieldError")
        \/ x = Good(both) /\ IsGood(text)
    <2>1. CASE ~IsGood(text)
      BY <2>1 DEF Verdict
    <2>2. CASE IsGood(text) /\ ~IsGood(flag)
      BY <2>2 DEF Verdict
    <2>3. CASE IsGood(text) /\ IsGood(flag)
      BY <2>3 DEF Verdict
    <2> QED BY <2>1, <2>2, <2>3
  <1>3. both.criterion = text.ok /\ "criterion" \in DOMAIN both
    OBVIOUS
  <1> SUFFICES VerdictResult(x)
    OBVIOUS
  <1> HIDE DEF x, text, flag, both
  <1>4. CASE x = text /\ ~IsGood(text)
    BY <1>1, <1>4 DEF TextResult, VerdictResult
  <1>5. CASE x = flag /\ ~IsGood(flag)
    BY <1>1, <1>5 DEF VerdictResult
  <1>6. CASE x = Bad("MissingFieldError")
    BY <1>6, GoodOrBad DEF VerdictResult
  <1>7. CASE x = Good(both) /\ IsGood(text)
    BY <1>1, <1>3, <1>7, GoodOrBad DEF TextResult, VerdictResult
  <1> QED BY <1>2, <1>4, <1>5, <1>6, <1>7

\* Verdicts gathered have each a criterion.
LEMMA VerdictsGathered ==
    ASSUME NEW results, NEW n \in Nat, DOMAIN results = 1 .. n,
           \A i \in 1 .. n : VerdictResult(results[i])
    PROVE  FieldResult("judge_verdicts", Gathered(results))
  <1>1. "judge_verdicts" \notin ToSet(RedactedTextFields)
    BY FieldsAre
  <1>2. \A i \in 1 .. n : Typed(results[i])
    BY DEF VerdictResult
  <1>3. /\ Typed(Gathered(results))
        /\ IsGood(Gathered(results)) =>
             /\ IsSeq(Gathered(results).ok) /\ DOMAIN Gathered(results).ok = 1 .. n
             /\ \A i \in 1 .. n : IsGood(results[i]) /\ Gathered(results).ok[i] = results[i].ok
    BY <1>2, GatheredIs
  <1> QED BY <1>1, <1>3 DEF FieldResult, FieldReadable, VerdictResult

\* And so has each of those coerce_verdicts makes of a value.
LEMMA CoerceVerdictsIs ==
    ASSUME NEW v, Legible(v), NEW keys
    PROVE  FieldResult("judge_verdicts", CoerceVerdicts(v, keys))
  <1> DEFINE names == SetToSeq(DOMAIN v.dict)
             x == CoerceVerdicts(v, keys)
  <1>2. CASE Is(v, "null")
    <2>1. x = Bad("MissingFieldError")
      BY <1>2 DEF CoerceVerdicts, Is
    <2> QED BY <2>1, GoodOrBad DEF FieldResult
  <1>3. CASE Is(v, "list")
    <2> DEFINE n == Len(v.list)
               results == [i \in DOMAIN v.list |-> VerdictEntry(v.list[i], keys)]
    <2>1. n \in Nat /\ DOMAIN v.list = 1 .. n /\ \A i \in 1 .. n : v.list[i] \in Json
      BY <1>3, LenProperties DEF Legible
    <2>2. x = Gathered(results)
      BY <1>3 DEF CoerceVerdicts, Is
    <2> HIDE DEF n, x
    <2>3. ASSUME NEW i \in 1 .. n
          PROVE  VerdictResult(results[i])
      <3> DEFINE e == v.list[i]
      <3>1. results[i] = VerdictEntry(e, keys) /\ Legible(e)
        BY <2>1, PlainlyLegible
      <3> HIDE DEF e, results
      <3>2. CASE ~Is(e, "dict")
        <4>1. VerdictEntry(e, keys) = Bad("FieldTypeError")
          BY <3>2 DEF VerdictEntry
        <4> QED BY <3>1, <4>1, GoodOrBad DEF VerdictResult
      <3>3. CASE Is(e, "dict") /\ ~({keys.criterion, keys.passed} \subseteq DOMAIN e.dict)
        <4>1. VerdictEntry(e, keys) = Bad("MissingFieldError")
          BY <3>3 DEF VerdictEntry
        <4> QED BY <3>1, <4>1, GoodOrBad DEF VerdictResult
      <3>4. CASE Is(e, "dict") /\ {keys.criterion, keys.passed} \subseteq DOMAIN e.dict
        <4>1. VerdictEntry(e, keys) = Verdict(e.dict[keys.criterion], e.dict[keys.passed])
          BY <3>4 DEF VerdictEntry
        <4>2. Legible(e.dict[keys.criterion])
          BY <3>1, <3>4, PlainlyLegible DEF Legible
        <4> QED BY <3>1, <4>1, <4>2, VerdictIs
      <3> QED BY <3>2, <3>3, <3>4
    <2>4. DOMAIN results = 1 .. n
      BY <2>1
    <2> HIDE DEF results
    <2>5. FieldResult("judge_verdicts", Gathered(results))
      BY <2>1, <2>3, <2>4, VerdictsGathered
    <2> QED BY <2>2, <2>5 DEF x
  <1>4. CASE Is(v, "dict")
    <2> DEFINE n == Len(names)
               results == [i \in DOMAIN names |-> Verdict(Str(<<names[i]>>), v.dict[names[i]])]
    <2>1. n \in Nat /\ DOMAIN names = 1 .. n
      <3>1. names \in Seq(DOMAIN v.dict)
        BY <1>4, SetToSeqIs DEF Legible
      <3> HIDE DEF names
      <3> QED BY <3>1, LenProperties
    <2>2. x = Gathered(results)
      BY <1>4 DEF CoerceVerdicts, Is
    <2> HIDE DEF n, x, names
    <2>3. ASSUME NEW i \in 1 .. n
          PROVE  VerdictResult(results[i])
      <3>1. results[i] = Verdict(Str(<<names[i]>>), v.dict[names[i]])
        BY <2>1
      <3>2. Legible(Str(<<names[i]>>))
        BY WordIsText, PlainlyLegible
      <3> HIDE DEF results
      <3> QED BY <3>1, <3>2, VerdictIs
    <2>4. DOMAIN results = 1 .. n
      BY <2>1
    <2> HIDE DEF results
    <2>5. FieldResult("judge_verdicts", Gathered(results))
      BY <2>1, <2>3, <2>4, VerdictsGathered
    <2> QED BY <2>2, <2>5 DEF x
  <1>5. CASE ~Is(v, "null") /\ ~Is(v, "list") /\ ~Is(v, "dict")
    <2>1. x = Bad("FieldTypeError")
      BY <1>5 DEF CoerceVerdicts
    <2> QED BY <2>1, GoodOrBad DEF FieldResult
  <1> QED BY <1>2, <1>3, <1>4, <1>5

\* What the reading of a field gives is what the field is for.
LEMMA CoercedIs ==
    ASSUME NEW m, NEW target, NEW v, Legible(v), NEW spec
    PROVE  FieldResult(target, Coerced(m, target, v, spec))
  <1> DEFINE x == Coerced(m, target, v, spec)
  <1>1. CASE target = "ts_utc"
    <2>1. target \notin CountFields /\ target # "judge_verdicts" /\ target \notin ToSet(RedactedTextFields)
      BY <1>1, FieldsAre DEF CountFields
    <2>2. x = CoerceTimestamp(v, m.naive)
      BY <1>1, <2>1 DEF Coerced
    <2> QED BY <2>1, <2>2, CoerceTimestampIs DEF FieldResult, FieldReadable
  <1>2. CASE target \in CountFields
    <2>1. target # "ts_utc" /\ target # "judge_verdicts" /\ target \notin ToSet(RedactedTextFields)
      BY <1>2, FieldsAre DEF CountFields
    <2>2. x = CoerceInt(v)
      BY <1>2, <2>1 DEF Coerced
    <2> QED BY <2>1, <2>2, CoerceIntIs DEF FieldResult, FieldReadable
  <1>3. CASE target = "judge_verdicts"
    <2>1. target # "ts_utc" /\ target \notin CountFields
      BY <1>3 DEF CountFields
    <2>2. x = CoerceVerdicts(v, spec)
      BY <1>3, <2>1 DEF Coerced
    <2> QED BY <1>3, <2>2, CoerceVerdictsIs
  <1>4. CASE target # "ts_utc" /\ target \notin CountFields /\ target # "judge_verdicts"
    <2>1. x = CoerceText(v, target = "record_id")
      BY <1>4 DEF Coerced
    <2> QED BY <1>4, <2>1, CoerceTextIs DEF FieldResult, FieldReadable, TextResult
  <1> QED BY <1>1, <1>2, <1>3, <1>4

----------------------------------------------------------------------------
(***************************************************************************)
(* The values of a row.                                                    *)
(***************************************************************************)

\* FieldsRead, step by step.
LEMMA FieldsReadBySteps ==
    ASSUME NEW m, NEW row, NEW values, Len(m.fields) \in Nat
    PROVE  \E c : /\ FieldsRead(m, row, values) = c[Len(m.fields)]
                  /\ c[0] = values
                  /\ \A k \in 1 .. Len(m.fields) : c[k] = Mapped(m, row, c[k - 1], FieldSpec(m.fields[k]))
  <1> DEFINE N == Len(m.fields)
             a == values
             e(x, k) == Mapped(m, row, x, FieldSpec(m.fields[k]))
             Steps(f, n) == f = [k \in 0 .. n |-> IF k = 0 THEN a ELSE e(f[k - 1], k)]
             G == {n \in Nat : \E f : Steps(f, n)}
             d == CHOOSE f : Steps(f, N)
  <1>1. FieldsRead(m, row, values) = d[N]
    BY DEF FieldsRead
  <1>8. N \in Nat
    OBVIOUS
  <1> HIDE DEF e, a, N
  <1>2. 0 \in G
    <2>1. Steps([k \in 0 .. 0 |-> a], 0)
      OBVIOUS
    <2> QED BY <2>1
  <1>3. ASSUME NEW n \in Nat, n \in G PROVE n + 1 \in G
    <2>1. PICK f : Steps(f, n)
      BY <1>3
    <2> DEFINE g == [k \in 0 .. n + 1 |-> IF k = n + 1 THEN e(f[n], n + 1) ELSE f[k]]
    <2>2. \A k \in 0 .. n + 1 : g[k] = IF k = 0 THEN a ELSE e(g[k - 1], k)
      <3>1. \A k \in 0 .. n : f[k] = IF k = 0 THEN a ELSE e(f[k - 1], k)
        BY <2>1
      <3>2. \A k \in 0 .. n : g[k] = f[k]
        OBVIOUS
      <3>3. g[n + 1] = e(f[n], n + 1)
        OBVIOUS
      <3> HIDE DEF g
      <3> QED BY <3>1, <3>2, <3>3
    <2>3. Steps(g, n + 1)
      BY <2>2
    <2> HIDE DEF g, Steps
    <2> QED BY <2>3
  <1>4. N \in G
    <2> HIDE DEF G
    <2> QED BY <1>2, <1>3, <1>8, NumberInduction
  <1>5. Steps(d, N)
    <2> HIDE DEF Steps
    <2> QED BY <1>4
  <1>6. \A k \in 0 .. N : d[k] = IF k = 0 THEN a ELSE e(d[k - 1], k)
    <2> HIDE DEF d
    <2> QED BY <1>5
  <1>7. d[0] = a /\ \A k \in 1 .. N : d[k] = e(d[k - 1], k)
    <2> HIDE DEF d
    <2> QED BY <1>6, <1>8
  <1> HIDE DEF d
  <1> QED BY <1>1, <1>7 DEF e, a, N

\* DefaultsFilled, step by step.
LEMMA DefaultsFilledBySteps ==
    ASSUME NEW m, NEW values, Len(SetToSeq(DOMAIN m.defaults)) \in Nat
    PROVE  \E c : /\ DefaultsFilled(m, values) = c[Len(SetToSeq(DOMAIN m.defaults))]
                  /\ c[0] = values
                  /\ \A k \in 1 .. Len(SetToSeq(DOMAIN m.defaults)) :
                       c[k] = Defaulted(m, c[k - 1], SetToSeq(DOMAIN m.defaults)[k])
  <1> DEFINE N == Len(SetToSeq(DOMAIN m.defaults))
             a == values
             e(x, k) == Defaulted(m, x, SetToSeq(DOMAIN m.defaults)[k])
             Steps(f, n) == f = [k \in 0 .. n |-> IF k = 0 THEN a ELSE e(f[k - 1], k)]
             G == {n \in Nat : \E f : Steps(f, n)}
             d == CHOOSE f : Steps(f, N)
  <1>1. DefaultsFilled(m, values) = d[N]
    BY DEF DefaultsFilled
  <1>8. N \in Nat
    OBVIOUS
  <1> HIDE DEF e, a, N
  <1>2. 0 \in G
    <2>1. Steps([k \in 0 .. 0 |-> a], 0)
      OBVIOUS
    <2> QED BY <2>1
  <1>3. ASSUME NEW n \in Nat, n \in G PROVE n + 1 \in G
    <2>1. PICK f : Steps(f, n)
      BY <1>3
    <2> DEFINE g == [k \in 0 .. n + 1 |-> IF k = n + 1 THEN e(f[n], n + 1) ELSE f[k]]
    <2>2. \A k \in 0 .. n + 1 : g[k] = IF k = 0 THEN a ELSE e(g[k - 1], k)
      <3>1. \A k \in 0 .. n : f[k] = IF k = 0 THEN a ELSE e(f[k - 1], k)
        BY <2>1
      <3>2. \A k \in 0 .. n : g[k] = f[k]
        OBVIOUS
      <3>3. g[n + 1] = e(f[n], n + 1)
        OBVIOUS
      <3> HIDE DEF g
      <3> QED BY <3>1, <3>2, <3>3
    <2>3. Steps(g, n + 1)
      BY <2>2
    <2> HIDE DEF g, Steps
    <2> QED BY <2>3
  <1>4. N \in G
    <2> HIDE DEF G
    <2> QED BY <1>2, <1>3, <1>8, NumberInduction
  <1>5. Steps(d, N)
    <2> HIDE DEF Steps
    <2> QED BY <1>4
  <1>6. \A k \in 0 .. N : d[k] = IF k = 0 THEN a ELSE e(d[k - 1], k)
    <2> HIDE DEF d
    <2> QED BY <1>5
  <1>7. d[0] = a /\ \A k \in 1 .. N : d[k] = e(d[k - 1], k)
    <2> HIDE DEF d
    <2> QED BY <1>6, <1>8
  <1> HIDE DEF d
  <1> QED BY <1>1, <1>7 DEF e, a, N


\* Values that are what their fields are for.
ValuesTyped(x) == Typed(x) /\ (IsGood(x) => \A f \in DOMAIN x.ok : FieldReadable(f, x.ok[f]))

\* A mapping that was loaded, with the values it may fall back on.
MappingFit(m) ==
    /\ Len(m.fields) \in Nat /\ DOMAIN m.fields = 1 .. Len(m.fields)
    /\ \A i \in 1 .. Len(m.fields) : /\ Len(FieldSpec(m.fields[i]).path) \in Nat
                                     /\ FieldSpec(m.fields[i]).extractor \in Extractors
    /\ IsFiniteSet(DOMAIN m.defaults)
    /\ \A f \in DOMAIN m.defaults : m.defaults[f] \in Json
    /\ "sidecar" \in DOMAIN m => m.sidecar.target \in TextFields

\* The texts of the sidecar, by their hash.
IndexFit(index) == \A h \in DOMAIN index : IsSeq(index[h])

\* One more value of its kind leaves all of them of theirs.
LEMMA WithIs ==
    ASSUME NEW values, ValuesTyped(values), IsGood(values), NEW target, NEW x, FieldResult(target, x)
    PROVE  ValuesTyped(With(values, target, x))
  <1>1. CASE ~IsGood(x)
    BY <1>1 DEF With, FieldResult, ValuesTyped
  <1>2. CASE IsGood(x)
    <2> DEFINE w == [f \in DOMAIN values.ok \cup {target} |-> IF f = target THEN x.ok ELSE values.ok[f]]
    <2>1. With(values, target, x) = Good(w)
      BY <1>2 DEF With
    <2>2. \A f \in DOMAIN w : FieldReadable(f, w[f])
      BY <1>2 DEF FieldResult, ValuesTyped
    <2> HIDE DEF w
    <2> QED BY <2>1, <2>2, GoodOrBad DEF ValuesTyped
  <1> QED BY <1>1, <1>2

\* What a path and an extractor make of a row can be looked into.
LEMMA RawValueIs ==
    ASSUME NEW row, Legible(row), NEW spec, Len(spec.path) \in Nat, spec.extractor \in Extractors
    PROVE  /\ Typed(RawValue(row, spec))
           /\ IsGood(RawValue(row, spec)) => Legible(RawValue(row, spec).ok)
  <1> DEFINE found == ExtractPath(row, spec.path)
  <1>1. CASE spec.path = << >>
    <2>1. RawValue(row, spec) = Good(Missing)
      BY <1>1 DEF RawValue
    <2> QED BY <2>1, GoodOrBad, PlainlyLegible
  <1>2. CASE spec.path # << >>
    <2>1. Typed(found) /\ (IsGood(found) => Legible(found.ok))
      BY ExtractPathIs
    <2>2. RawValue(row, spec) = IF IsGood(found) THEN Good(Extract(spec.extractor, found.ok)) ELSE found
      BY <1>2 DEF RawValue
    <2> HIDE DEF found
    <2>3. CASE IsGood(found)
      <3>1. Legible(Extract(spec.extractor, found.ok))
        BY <2>1, <2>3, ExtractIs
      <3> QED BY <2>2, <2>3, <3>1, GoodOrBad
    <2>4. CASE ~IsGood(found)
      BY <2>1, <2>2, <2>4
    <2> QED BY <2>3, <2>4
  <1> QED BY <1>1, <1>2

\* One field of the mapping read.
LEMMA MappedIs ==
    ASSUME NEW m, MappingFit(m), NEW row, Legible(row), NEW values, ValuesTyped(values),
           NEW spec, Len(spec.path) \in Nat, spec.extractor \in Extractors
    PROVE  ValuesTyped(Mapped(m, row, values, spec))
  <1> DEFINE found == RawValue(row, spec)
             value == RowOrDefault(m, spec.target, found.ok)
             x == Mapped(m, row, values, spec)
  <1>1. CASE ~IsGood(values)
    BY <1>1 DEF Mapped
  <1>2. CASE IsGood(values)
    <2>1. x = WithField(m, values, spec, found)
      BY <1>2 DEF Mapped
    <2>2. Typed(found) /\ (IsGood(found) => Legible(found.ok))
      BY RawValueIs
    <2> SUFFICES ValuesTyped(x)
      OBVIOUS
    <2> HIDE DEF x, found
    <2>3. CASE spec.target \in DOMAIN values.ok
      BY <2>1, <2>3 DEF WithField
    <2>4. CASE spec.target \notin DOMAIN values.ok /\ ~IsGood(found)
      <3>1. x = found
        BY <2>1, <2>4 DEF WithField
      <3> QED BY <2>2, <2>4, <3>1 DEF ValuesTyped
    <2>5. CASE spec.target \notin DOMAIN values.ok /\ IsGood(found)
      <3>1. Legible(value)
        BY <2>2, <2>5, PlainlyLegible DEF RowOrDefault, MappingFit
      <3>2. x = IF ~Is(value, "missing")
                THEN With(values, spec.target, Coerced(m, spec.target, value, spec))
                ELSE IF spec.target \in ToSet(Required) THEN Bad("MissingFieldError")
                ELSE values
        BY <2>1, <2>5 DEF WithField
      <3> HIDE DEF value
      <3>3. CASE ~Is(value, "missing")
        <4>1. FieldResult(spec.target, Coerced(m, spec.target, value, spec))
          BY <3>1, CoercedIs
        <4> QED BY <1>2, <3>2, <3>3, <4>1, WithIs
      <3>4. CASE Is(value, "missing")
        BY <3>2, <3>4, GoodOrBad DEF ValuesTyped
      <3> QED BY <3>3, <3>4
    <2> QED BY <2>3, <2>4, <2>5
  <1> QED BY <1>1, <1>2

\* One default filled in.
LEMMA DefaultedIs ==
    ASSUME NEW m, MappingFit(m), NEW values, ValuesTyped(values), NEW target \in DOMAIN m.defaults
    PROVE  ValuesTyped(Defaulted(m, values, target))
  <1>1. FieldResult(target, Coerced(m, target, m.defaults[target], PlainSpec))
    <2>1. Legible(m.defaults[target])
      BY PlainlyLegible DEF MappingFit
    <2> QED BY <2>1, CoercedIs
  <1>2. CASE IsGood(values) /\ target \notin DOMAIN values.ok
    <2>1. Defaulted(m, values, target)
            = With(values, target, Coerced(m, target, m.defaults[target], PlainSpec))
      BY <1>2 DEF Defaulted
    <2> QED BY <1>1, <1>2, <2>1, WithIs
  <1>3. CASE ~(IsGood(values) /\ target \notin DOMAIN values.ok)
    BY <1>3 DEF Defaulted
  <1> QED BY <1>2, <1>3

\* The values of a row are what their fields are for.
LEMMA ValuesAre ==
    ASSUME NEW m, MappingFit(m), NEW row, Legible(row), NEW index, IndexFit(index)
    PROVE  ValuesTyped(Values(m, row, index))
  <1> DEFINE joined == Joined(m, row, index)
             read == FieldsRead(m, row, joined)
             targets == SetToSeq(DOMAIN m.defaults)
             N == Len(m.fields)
             M == Len(targets)
  <1>1. ValuesTyped(joined)
    <2>1. ValuesTyped(Good(<< >>)) /\ IsGood(Good(<< >>))
      BY GoodOrBad DEF ValuesTyped
    <2>2. CASE "sidecar" \in DOMAIN m
      <3> DEFINE x == FromSidecar(m, row, index)
      <3>1. FieldResult(m.sidecar.target, x)
        <4>1. m.sidecar.target # "judge_verdicts"
          BY <2>2 DEF MappingFit, TextFields
        <4>2. TextResult(x)
          BY GoodOrBad DEF FromSidecar, IndexFit, TextResult
        <4> QED BY <4>1, <4>2 DEF FieldResult, FieldReadable, TextResult
      <3>2. joined = With(Good(<< >>), m.sidecar.target, x)
        BY <2>2 DEF Joined
      <3> HIDE DEF x
      <3> QED BY <2>1, <3>1, <3>2, WithIs
    <2>3. CASE "sidecar" \notin DOMAIN m
      BY <2>1, <2>3 DEF Joined
    <2> QED BY <2>2, <2>3
  <1> HIDE DEF joined
  <1>2. N \in Nat
    BY DEF MappingFit
  <1>3. ValuesTyped(read)
    <2>1. PICK c : /\ read = c[N]
                   /\ c[0] = joined
                   /\ \A k \in 1 .. N : c[k] = Mapped(m, row, c[k - 1], FieldSpec(m.fields[k]))
      <3>1. \E c : /\ FieldsRead(m, row, joined) = c[Len(m.fields)]
                   /\ c[0] = joined
                   /\ \A k \in 1 .. Len(m.fields) : c[k] = Mapped(m, row, c[k - 1], FieldSpec(m.fields[k]))
        BY ONLY <1>2, FieldsReadBySteps
      <3> QED BY <3>1
    <2>2. \A k \in 1 .. N : /\ Len(FieldSpec(m.fields[k]).path) \in Nat
                            /\ FieldSpec(m.fields[k]).extractor \in Extractors
      BY DEF MappingFit
    <2> HIDE DEF N, read
    <2> DEFINE G == {k \in Nat : k <= N => ValuesTyped(c[k])}
    <2>3. 0 \in G
      BY <1>1, <2>1
    <2>4. ASSUME NEW k \in Nat, k \in G PROVE k + 1 \in G
      <3> SUFFICES ASSUME k + 1 <= N PROVE ValuesTyped(c[k + 1])
        OBVIOUS
      <3>1. k + 1 \in 1 .. N /\ (k + 1) - 1 = k /\ k <= N
        BY <1>2
      <3>2. ValuesTyped(c[k])
        BY <2>4, <3>1
      <3>3. c[k + 1] = Mapped(m, row, c[k], FieldSpec(m.fields[k + 1]))
        BY <2>1, <3>1
      <3> QED BY <2>2, <3>1, <3>2, <3>3, MappedIs
    <2>5. \A k \in Nat : k \in G
      <3> HIDE DEF G
      <3> QED BY <2>3, <2>4, NumberInduction
    <2> QED BY <1>2, <2>1, <2>5
  <1> HIDE DEF read
  <1>4. M \in Nat /\ \A k \in 1 .. M : targets[k] \in DOMAIN m.defaults
    <2>1. targets \in Seq(DOMAIN m.defaults)
      BY SetToSeqIs DEF MappingFit
    <2> QED BY <2>1, LenProperties
  <1>5. PICK c : /\ DefaultsFilled(m, read) = c[M]
                 /\ c[0] = read
                 /\ \A k \in 1 .. M : c[k] = Defaulted(m, c[k - 1], targets[k])
    <2>1. \E c : /\ DefaultsFilled(m, read) = c[Len(SetToSeq(DOMAIN m.defaults))]
                 /\ c[0] = read
                 /\ \A k \in 1 .. Len(SetToSeq(DOMAIN m.defaults)) :
                      c[k] = Defaulted(m, c[k - 1], SetToSeq(DOMAIN m.defaults)[k])
      BY ONLY <1>4, DefaultsFilledBySteps
    <2> QED BY <2>1
  <1> HIDE DEF M, targets
  <1> DEFINE G == {k \in Nat : k <= M => ValuesTyped(c[k])}
  <1>6. 0 \in G
    BY <1>3, <1>5
  <1>7. ASSUME NEW k \in Nat, k \in G PROVE k + 1 \in G
    <2> SUFFICES ASSUME k + 1 <= M PROVE ValuesTyped(c[k + 1])
      OBVIOUS
    <2>1. k + 1 \in 1 .. M /\ (k + 1) - 1 = k /\ k <= M
      BY <1>4
    <2>2. ValuesTyped(c[k])
      BY <1>7, <2>1
    <2>3. c[k + 1] = Defaulted(m, c[k], targets[k + 1])
      BY <1>5, <2>1
    <2> QED BY <1>4, <2>1, <2>2, <2>3, DefaultedIs
  <1>8. \A k \in Nat : k \in G
    <2> HIDE DEF G
    <2> QED BY <1>6, <1>7, NumberInduction
  <1>9. Values(m, row, index) = DefaultsFilled(m, read)
    BY DEF Values, read, joined
  <1> QED BY <1>4, <1>5, <1>8, <1>9

\* A text cut to its length is a text.
LEMMA TruncateIs ==
    ASSUME NEW text, IsSeq(text)
    PROVE  IsSeq(Truncate(text))
  <1> DEFINE S == ToSet(text)
             n == Len(text)
  <1>1. text \in Seq(S) /\ n \in Nat
    BY LenProperties DEF IsSeq
  <1>2. MaxText \in Nat
    BY EpochAssumption
  <1> HIDE DEF S
  <1>3. CASE n <= MaxText
    BY <1>3 DEF Truncate
  <1>4. CASE ~(n <= MaxText)
    <2>1. SubSeq(text, 1, MaxText) \in Seq(S)
      <3>1. \A i \in 1 .. MaxText : text[i] \in S
        <4>1. \A i \in 1 .. MaxText : i \in 1 .. n
          BY <1>1, <1>2, <1>4
        <4> QED BY <1>1, <4>1, LenProperties
      <3> QED BY <1>1, <1>2, <3>1, SubSeqProperties
    <2>2. IsSeq(SubSeq(text, 1, MaxText)) /\ IsSeq(<<"...">>)
      BY <2>1, SeqIs, WordIsText
    <2>3. Truncate(text) = SubSeq(text, 1, MaxText) \o <<"...">>
      BY <1>4 DEF Truncate, Truncated
    <2> QED BY <2>2, <2>3, SeqIs
  <1> QED BY <1>3, <1>4

\* A record is checked into itself or into one of the errors a record may have.
LEMMA ValidatedIs ==
    \A r : Validated(r) = Good(r) \/ \E e \in RecordErrors : Validated(r) = Bad(e)
  <1> TAKE r
  <1>1. {"RecordError", "MissingFieldError", "FieldTypeError"} \subseteq RecordErrors
    BY DEF RecordErrors
  <1>2. CASE Blank(r.record_id)
    BY <1>1, <1>2 DEF Validated
  <1>3. CASE ~Blank(r.record_id)
    <2>1. Validated(r) \in {Good(r), Bad("RecordError"), Bad("MissingFieldError"), Bad("FieldTypeError")}
      BY <1>3 DEF Validated
    <2> QED BY <1>1, <2>1
  <1> QED BY <1>2, <1>3

\* What is made of a row: a record with texts to redact, or a failure.
BuiltWell(x) ==
    /\ Typed(x)
    /\ IsGood(x) => Readable(x.ok) /\ ToSet(Required) \subseteq DOMAIN x.ok

\* A row that can be looked into becomes a record with texts or a failure.
LEMMA BuildRecordIs ==
    ASSUME NEW m, MappingFit(m), NEW row, Legible(row), NEW index, IndexFit(index)
    PROVE  BuiltWell(BuildRecord(m, row, index))
  <1> DEFINE values == Values(m, row, index)
             x == BuildRecord(m, row, index)
             r == Cut(values.ok)
  <1>1. ValuesTyped(values) /\ x = Assembled(values)
    BY ValuesAre DEF BuildRecord
  <1> HIDE DEF x, values
  <1> SUFFICES BuiltWell(x)
    BY DEF x
  <1>2. CASE ~IsGood(values)
    BY <1>1, <1>2 DEF Assembled, BuiltWell, ValuesTyped
  <1>3. CASE IsGood(values) /\ ~(ToSet(Required) \subseteq DOMAIN values.ok)
    <2>1. x = Bad("MissingFieldError")
      BY <1>1, <1>3 DEF Assembled
    <2> QED BY <2>1, GoodOrBad DEF BuiltWell
  <1>4. CASE IsGood(values) /\ ToSet(Required) \subseteq DOMAIN values.ok
    <2>1. x = Validated(r)
      BY <1>1, <1>4 DEF Assembled
    <2>2. DOMAIN r = DOMAIN values.ok
      BY DEF Cut
    <2>3. \A f \in DOMAIN r : FieldReadable(f, r[f])
      <3> TAKE f \in DOMAIN r
      <3>1. FieldReadable(f, values.ok[f])
        BY <1>1, <1>4, <2>2 DEF ValuesTyped
      <3>2. CASE f \in TextFields
        <4>1. r[f] = Truncate(values.ok[f]) /\ f # "judge_verdicts" /\ f \in ToSet(RedactedTextFields)
          BY <2>2, <3>2, FieldsAre DEF Cut, TextFields
        <4> QED BY <3>1, <4>1, TruncateIs DEF FieldReadable
      <3>3. CASE f \notin TextFields
        <4>1. r[f] = values.ok[f]
          BY <2>2, <3>3 DEF Cut
        <4> QED BY <3>1, <4>1
      <3> QED BY <3>2, <3>3
    <2> HIDE DEF r
    <2>4. Readable(r)
      <3>1. "judge_verdicts" \in DOMAIN r => FieldReadable("judge_verdicts", r.judge_verdicts)
        BY <2>3
      <3> QED BY <2>3, <3>1 DEF Readable, FieldReadable
    <2>5. CASE x = Good(r)
      BY <1>4, <2>2, <2>4, <2>5, GoodOrBad DEF BuiltWell
    <2>6. CASE \E e \in RecordErrors : x = Bad(e)
      BY <2>6, GoodOrBad DEF BuiltWell
    <2> QED BY <2>1, <2>5, <2>6, ValidatedIs
  <1> QED BY <1>2, <1>3, <1>4

----------------------------------------------------------------------------
(***************************************************************************)
(* What a run is given.                                                    *)
(***************************************************************************)

\* A mapping the run went ahead with is one its rows can be read by.
LEMMA UsableIs ==
    ASSUME source \in Sources, Usable
    PROVE  MappingFit(file)
  <1> DEFINE m == source.mapping
             F == m.fields
  <1>1. /\ F \in Seq(ToSet(F))
        /\ \A i \in DOMAIN F : FieldSpec(F[i]).path \in Seq(STRING)
        /\ \A f \in DOMAIN m.defaults : m.defaults[f] \in Json
    BY SourcesAssumption
  <1>2. /\ \A i \in DOMAIN F : ~FieldRefused(F[i])
        /\ DOMAIN m.defaults \subseteq RecordKeys
        /\ SidecarTarget(m) \subseteq TextFields
    BY DEF Usable, MappingRefused, file
  <1> HIDE DEF F
  <1>3. Len(F) \in Nat /\ DOMAIN F = 1 .. Len(F)
    BY <1>1, LenProperties
  <1>4. \A i \in 1 .. Len(F) : Len(FieldSpec(F[i]).path) \in Nat
    BY <1>1, <1>3, LenProperties
  <1>5. \A i \in 1 .. Len(F) : FieldSpec(F[i]).extractor \in Extractors
    BY <1>2, <1>3 DEF FieldRefused
  <1>6. IsFiniteSet(DOMAIN m.defaults)
    <2>1. IsFiniteSet(RecordKeys)
      <3>1. IsFiniteSet(ToSet(Required))
        <4>1. Required \in Seq({"record_id", "ts_utc", "input_text"})
          BY DEF Required
        <4> QED BY <4>1, ToSetFinite
      <3>2. /\ IsFiniteSet(TextFields) /\ IsFiniteSet(CountFields) /\ IsFiniteSet(OptionalText)
            /\ IsFiniteSet({"judge_verdicts"})
        <4>1. \A a, b : IsFiniteSet({a}) /\ IsFiniteSet({a, b})
          <5> TAKE a, b
          <5>1. IsFiniteSet({a}) /\ IsFiniteSet({a} \cup {b})
            BY FS_Singleton, FS_AddElement
          <5>2. {a} \cup {b} = {a, b}
            OBVIOUS
          <5> QED BY <5>1, <5>2
        <4>2. \A a, b, c, d : IsFiniteSet({a, b, c, d})
          <5> TAKE a, b, c, d
          <5>1. {a, b, c, d} = {a, b} \cup {c, d}
            OBVIOUS
          <5>2. IsFiniteSet({a, b}) /\ IsFiniteSet({c, d})
            BY <4>1
          <5>3. IsFiniteSet({a, b} \cup {c, d})
            BY ONLY <5>2, FS_Union
          <5> QED BY <5>1, <5>3
        <4> QED BY <4>1, <4>2 DEF TextFields, CountFields, OptionalText
      <3> QED BY <3>1, <3>2, FS_Union DEF RecordKeys
    <2> QED BY <1>2, <2>1, FS_Subset
  <1>7. "sidecar" \in DOMAIN m => m.sidecar.target \in TextFields
    BY <1>2 DEF SidecarTarget
  <1> QED BY <1>1, <1>3, <1>4, <1>5, <1>6, <1>7 DEF MappingFit, file, F

\* The sidecar's texts are texts.
LEMMA LoadedIs ==
    ASSUME source \in Sources, IsGood(Loaded)
    PROVE  IndexFit(Loaded.ok)
  <1>1. CASE "sidecar" \notin DOMAIN source
    <2>1. Loaded.ok = << >>
      BY <1>1, GoodOrBad DEF Loaded
    <2> QED BY <2>1 DEF IndexFit
  <1>2. CASE "sidecar" \in DOMAIN source
    <2> DEFINE lines == source.sidecar
               n == Len(lines)
               results == [i \in DOMAIN lines |-> SidecarLine(file, lines[i])]
               texts == Gathered(results)
               index == [h \in {HashOf[t] : t \in ToSet(texts.ok)} |->
                           CHOOSE t \in ToSet(texts.ok) : HashOf[t] = h]
    <2>1. lines \in Seq(Json)
      BY <1>2, SourcesAssumption
    <2>2. n \in Nat /\ DOMAIN lines = 1 .. n /\ \A i \in 1 .. n : lines[i] \in Json
      BY <2>1, LenProperties
    <2>3. Loaded = IF ~IsGood(texts) THEN texts ELSE Good(index)
      BY <1>2 DEF Loaded, LoadSidecar
    <2> HIDE DEF lines, n
    <2>4. \A i \in 1 .. n : TextResult(SidecarLine(file, lines[i]))
      <3> TAKE i \in 1 .. n
      <3> DEFINE line == lines[i]
      <3>1. Legible(line)
        BY <2>2, PlainlyLegible
      <3> HIDE DEF line
      <3>2. CASE ~Is(line, "dict")
        <4>1. SidecarLine(file, line) = Bad("SourceFormatError")
          BY <3>2 DEF SidecarLine
        <4> QED BY <4>1, GoodOrBad DEF TextResult, line
      <3>3. CASE Is(line, "dict")
        <4> DEFINE f == Follow(line, file.sidecar.text)
        <4>1. Legible(f)
          BY <3>1, FollowIs
        <4>2. SidecarLine(file, line)
                = IF "sidecar" \notin DOMAIN file THEN Bad("AttributeError")
                  ELSE IF ~HasText(line, file.sidecar.text) THEN Bad("MissingFieldError")
                  ELSE Good(f.str)
          BY <3>3 DEF SidecarLine
        <4>3. HasText(line, file.sidecar.text) => Is(f, "str")
          BY DEF HasText
        <4> HIDE DEF f
        <4> QED BY <4>1, <4>2, <4>3, GoodOrBad DEF TextResult, Legible, line
      <3> QED BY <3>2, <3>3
    <2>5. DOMAIN results = 1 .. n /\ \A i \in 1 .. n : results[i] = SidecarLine(file, lines[i])
      BY <2>2
    <2> HIDE DEF results
    <2>6. /\ Typed(texts)
          /\ IsGood(texts) =>
               /\ IsSeq(texts.ok) /\ DOMAIN texts.ok = 1 .. n
               /\ \A i \in 1 .. n : IsGood(results[i]) /\ texts.ok[i] = results[i].ok
      <3>1. \A i \in 1 .. n : Typed(results[i])
        BY <2>4, <2>5 DEF TextResult
      <3> QED BY <2>2, <2>5, <3>1, GatheredIs
    <2> HIDE DEF texts
    <2>7. IsGood(texts)
      BY <2>3
    <2>8. \A t \in ToSet(texts.ok) : IsSeq(t)
      BY <2>4, <2>5, <2>6, <2>7 DEF ToSet, TextResult
    <2>9. \A h \in DOMAIN index : index[h] \in ToSet(texts.ok)
      OBVIOUS
    <2>10. Loaded.ok = index
      BY <2>3, <2>7, GoodOrBad
    <2> HIDE DEF index
    <2> QED BY <2>8, <2>9, <2>10 DEF IndexFit
  <1> QED BY <1>1, <1>2

\* What a line is read as.
LineRead(x) ==
    \/ IsGood(x) /\ Legible(x.ok)
    \/ ~IsGood(x) /\ Is(x, "bad") /\ x.bad = "LineParseError"
    \/ ~IsGood(x) /\ Is(x, "blank")

\* A line is a row that can be looked into, a failure or a blank.
LEMMA ReadLineIs ==
    ASSUME source \in Sources, NEW line \in ToSet(source.lines)
    PROVE  LineRead(ReadLine(line))
  <1> DEFINE x == ReadLine(line)
             Kinds == [json : Json] \cup [cells : Seq(Seq(STRING))] \cup {[garbled |-> TRUE], [blank |-> TRUE]}
  <1>1. line \in Kinds
    <2>1. source.lines \in Seq(Kinds)
      BY SourcesAssumption
    <2> HIDE DEF Kinds
    <2> QED BY <2>1, SeqIs
  <1>2. LineRead(Bad("LineParseError"))
    BY GoodOrBad DEF LineRead
  <1>3. CASE line \in [json : Json]
    <2>1. Is(line, "json") /\ line.json \in Json
      BY <1>3 DEF Is
    <2>2. x = IF Is(line.json, "dict") THEN Good(line.json) ELSE Bad("LineParseError")
      BY <2>1 DEF ReadLine, Is
    <2> QED BY <1>2, <2>1, <2>2, GoodOrBad, PlainlyLegible DEF LineRead
  <1>4. CASE line \in [cells : Seq(Seq(STRING))]
    <2> DEFINE cells == line.cells
               header == source.header
               row == CsvRow(header, cells)
               columns == [c \in ToSet(header) |->
                             LET i == CHOOSE k \in DOMAIN header : header[k] = c
                             IN  IF i <= Len(cells) THEN Str(cells[i]) ELSE Null]
    <2>1. Is(line, "cells") /\ cells \in Seq(Seq(STRING))
      BY <1>4 DEF Is
    <2>2. x = IF Len(cells) > Len(header) THEN Bad("LineParseError") ELSE Good(row)
      BY <2>1 DEF ReadLine, Is
    <2>3. /\ header \in Seq(STRING)
          /\ \A i \in DOMAIN cells : Str(cells[i]) \in Json
      BY <2>1, SourcesAssumption
    <2>4. Len(cells) \in Nat /\ DOMAIN cells = 1 .. Len(cells)
      BY <2>1, LenProperties
    <2>5. Len(header) \in Nat /\ DOMAIN header = 1 .. Len(header)
      BY <2>3, LenProperties
    <2>6. row = [dict |-> columns]
      BY DEF CsvRow
    <2>7. /\ Is(row, "dict") /\ row.dict = columns
          /\ ~Is(row, "int") /\ ~Is(row, "float") /\ ~Is(row, "bool")
          /\ ~Is(row, "str") /\ ~Is(row, "list")
      <3>1. DOMAIN row = {"dict"} /\ row.dict = columns
        BY <2>6
      <3> HIDE DEF row, columns
      <3> QED BY <3>1 DEF Is
    <2>8. \A c \in ToSet(header) : columns[c] \in Json
      <3> TAKE c \in ToSet(header)
      <3> DEFINE i == CHOOSE k \in DOMAIN header : header[k] = c
      <3>1. i \in 1 .. Len(header)
        BY <2>5 DEF ToSet
      <3>2. columns[c] = IF i <= Len(cells) THEN Str(cells[i]) ELSE Null
        OBVIOUS
      <3> HIDE DEF i, columns
      <3>3. CASE i <= Len(cells)
        <4>1. i \in DOMAIN cells
          BY <2>4, <2>5, <3>1, <3>3
        <4> QED BY <2>3, <3>2, <3>3, <4>1
      <3>4. CASE ~(i <= Len(cells))
        BY <3>2, <3>4, JsonAssumption
      <3> QED BY <3>3, <3>4
    <2>9. DOMAIN columns = ToSet(header) /\ IsFiniteSet(ToSet(header))
      BY <2>3, ToSetFinite
    <2> HIDE DEF columns, row
    <2>10. Legible(row)
      BY <2>7, <2>8, <2>9 DEF Legible
    <2>11. LineRead(Good(row))
      BY <2>10, GoodOrBad DEF LineRead
    <2> QED BY <1>2, <2>2, <2>11
  <1>5. CASE line \in {[garbled |-> TRUE], [blank |-> TRUE]}
    <2>1. CASE line = [garbled |-> TRUE]
      <3>1. x = Bad("LineParseError")
        BY <2>1 DEF ReadLine, Is
      <3> QED BY <1>2, <3>1
    <2>2. CASE line = [blank |-> TRUE]
      <3>1. x = [blank |-> TRUE]
        BY <2>2 DEF ReadLine, Is
      <3>2. ~IsGood(x) /\ Is(x, "blank")
        BY <3>1 DEF IsGood, Is
      <3> QED BY <3>2 DEF LineRead
    <2> QED BY <1>5, <2>1, <2>2
  <1> QED BY <1>1, <1>3, <1>4, <1>5

----------------------------------------------------------------------------
(***************************************************************************)
(* The run.                                                                *)
(***************************************************************************)

\* The values of the first n lines, in the order of reading.
ValuesOfRow(enabled, x) == IF IsGood(x) THEN ValuesFrom(enabled, x.ok) ELSE << >>
ReadBy(enabled, rows, n) == FlattenSeq([k \in 1 .. n |-> ValuesOfRow(enabled, rows[k])])

\* One more line read is its values at the end of those read before.
LEMMA OneMoreLine ==
    ASSUME NEW enabled, NEW rows, NEW n \in Nat,
           \A k \in 1 .. n + 1 : IsSeq(ValuesOfRow(enabled, rows[k]))
    PROVE  ReadBy(enabled, rows, n + 1) = ReadBy(enabled, rows, n) \o ValuesOfRow(enabled, rows[n + 1])
  <1> DEFINE v(k) == ValuesOfRow(enabled, rows[k])
             S == UNION {ToSet(v(k)) : k \in 1 .. n + 1}
             before == [k \in 1 .. n |-> v(k)]
             all == [k \in 1 .. n + 1 |-> v(k)]
  <1>1. \A k \in 1 .. n + 1 : v(k) \in Seq(S)
    BY SeqIs
  <1> HIDE DEF v, S
  <1>2. before \in Seq(Seq(S)) /\ v(n + 1) \in Seq(S) /\ all \in Seq(Seq(S))
    BY <1>1
  <1>3. Len(before) = n /\ Len(all) = n + 1
    BY <1>2
  <1>4. all = Append(before, v(n + 1))
    BY <1>2, <1>3
  <1> HIDE DEF before, all
  <1>5. FlattenSeq(all) = FlattenSeq(before) \o v(n + 1)
    BY <1>2, <1>4, FlattenAppend
  <1> QED BY <1>5 DEF ReadBy, before, all, v

\* Nothing read is nothing found.
LEMMA NothingRead ==
    ASSUME NEW enabled, NEW rows
    PROVE  ReadBy(enabled, rows, 0) = << >>
  <1> DEFINE none == [k \in 1 .. 0 |-> ValuesOfRow(enabled, rows[k])]
  <1>1. none \in Seq(Seq({})) /\ Len(none) = 0
    OBVIOUS
  <1> HIDE DEF none
  <1>2. FlattenSeq(none) = << >>
    BY <1>1, FlattenBySteps
  <1> QED BY <1>2 DEF ReadBy, none

\* What is read of the first lines is as it was if those lines are.
LEMMA SameRead ==
    ASSUME NEW enabled, NEW rows, NEW more, NEW n \in Nat, \A k \in 1 .. n : rows[k] = more[k]
    PROVE  ReadBy(enabled, rows, n) = ReadBy(enabled, more, n)
  <1>1. [k \in 1 .. n |-> ValuesOfRow(enabled, rows[k])] = [k \in 1 .. n |-> ValuesOfRow(enabled, more[k])]
    OBVIOUS
  <1> QED BY <1>1 DEF ReadBy

\* One more at the end of a sequence.
LEMMA OneMore ==
    ASSUME NEW s, IsSeq(s), NEW x
    PROVE  /\ IsSeq(Append(s, x)) /\ Len(s) \in Nat /\ DOMAIN s = 1 .. Len(s)
           /\ Len(Append(s, x)) = Len(s) + 1 /\ DOMAIN Append(s, x) = 1 .. Len(s) + 1
           /\ \A k \in 1 .. Len(s) : Append(s, x)[k] = s[k]
           /\ Append(s, x)[Len(s) + 1] = x
           /\ Last(Append(s, x)) = x
  <1> DEFINE S == ToSet(s) \cup {x}
  <1>1. s \in Seq(S) /\ x \in S
    BY SeqIs
  <1> HIDE DEF S
  <1>2. Append(s, x) \in Seq(S)
    BY <1>1
  <1>3. /\ Len(s) \in Nat /\ DOMAIN s = 1 .. Len(s)
        /\ Len(Append(s, x)) = Len(s) + 1 /\ DOMAIN Append(s, x) = 1 .. Len(s) + 1
        /\ \A k \in 1 .. Len(s) : Append(s, x)[k] = s[k]
        /\ Append(s, x)[Len(s) + 1] = x
    BY <1>1, AppendProperties, LenProperties
  <1>4. IsSeq(Append(s, x))
    BY <1>2, SeqIs
  <1>5. Last(Append(s, x)) = x
    BY <1>3 DEF Last
  <1> QED BY <1>3, <1>4, <1>5

----------------------------------------------------------------------------
(***************************************************************************)
(* The inductive invariant.                                                *)
(***************************************************************************)

\* What the run was given, and that it reads only what it could load.
Given ==
    /\ source \in Sources
    /\ pc \in {"load", "read", "built", "done", "refused", "raised"}
    /\ pc \in {"read", "built", "done"} => Usable /\ IsGood(Loaded)
    /\ redactor.enabled = source.redact

\* The lines are taken one by one, and one at most is in hand.
Counting ==
    /\ IsSeq(outcomes) /\ IsSeq(made)
    /\ Len(outcomes) <= Len(source.lines)
    /\ pc = "load" => made = << >> /\ outcomes = << >>
    /\ pc = "built" => Len(outcomes) < Len(source.lines)
    /\ Len(made) = Len(outcomes)
         + (IF pc = "built" \/ (pc \in {"refused", "raised"} /\ made # <<>>) THEN 1 ELSE 0)

\* What was made of a line has texts to redact and the fields a record needs.
Made ==
    /\ \A n \in 1 .. Len(made) :
         IsGood(made[n]) => Readable(made[n].ok) /\ ToSet(Required) \subseteq DOMAIN made[n].ok
    /\ pc = "built" => Typed(Built)

\* What came of a line: a record whose texts read as its row's do, or a failure.
OutcomeWell(x, y) ==
    IF IsGood(x)
    THEN /\ IsGood(y) /\ ToSet(Required) \subseteq DOMAIN x.ok
         /\ \A slot \in TextSlots(y.ok) :
              ToldAt(x.ok, y.ok, slot, redactor.enabled, redactor.index)
    ELSE \/ Is(x, "bad") /\ x.bad \in RecordErrors \cup {"LineParseError"}
         \/ Is(x, "blank")

Told == \A n \in 1 .. Len(outcomes) : OutcomeWell(outcomes[n], made[n])

\* The redactor has numbered the values of the lines that came out, and no others.
TokensGiven ==
    /\ \A n \in 1 .. Len(outcomes) : IsSeq(ValuesOfRow(redactor.enabled, made[n]))
    /\ Telling(redactor, ReadBy(redactor.enabled, made, Len(outcomes)))

RowsInv == Given /\ Counting /\ Made /\ Told /\ TokensGiven

\* The lines of a source are counted.
LEMMA LinesAre ==
    ASSUME source \in Sources
    PROVE  /\ Len(source.lines) \in Nat /\ DOMAIN source.lines = 1 .. Len(source.lines)
           /\ source.redact \in BOOLEAN
           /\ \A k \in 1 .. Len(source.lines) : source.lines[k] \in ToSet(source.lines)
  <1> DEFINE Kinds == [json : Json] \cup [cells : Seq(Seq(STRING))] \cup {[garbled |-> TRUE], [blank |-> TRUE]}
  <1>1. source.lines \in Seq(Kinds) /\ source.redact \in BOOLEAN
    BY SourcesAssumption
  <1> HIDE DEF Kinds
  <1>2. Len(source.lines) \in Nat /\ DOMAIN source.lines = 1 .. Len(source.lines)
    BY <1>1, LenProperties
  <1> QED BY <1>1, <1>2 DEF ToSet

\* Before the first line nothing has been numbered.
LEMMA RowsStart == Init => RowsInv
  <1> SUFFICES ASSUME Init PROVE RowsInv
    OBVIOUS
  <1>1. /\ source \in Sources /\ pc = "load" /\ outcomes = << >> /\ made = << >>
        /\ redactor = NewRedactor(source.redact)
    BY DEF Init
  <1>2. Given
    BY <1>1 DEF Given, NewRedactor
  <1>3. Len(<< >>) = 0 /\ IsSeq(<< >>) /\ ToSet(<< >>) = {}
    BY SeqIs DEF ToSet
  <1>4. Counting
    BY <1>1, <1>3, LinesAre DEF Counting
  <1>5. Made /\ Told
    BY <1>1, <1>3 DEF Made, Told
  <1>6. Telling(redactor, << >>)
    <2>1. IndexTold(redactor.index, << >>)
      BY <1>1, <1>3 DEF NewRedactor, IndexTold
    <2>2. \A c : OfClassIn(<< >>, c) = 0
      <3> TAKE c
      <3>1. {i \in DOMAIN << >> : << >>[i][1] = c} = {}
        OBVIOUS
      <3> QED BY <3>1, FS_EmptySet DEF OfClassIn
    <2> QED BY <1>1, <1>3, <2>1, <2>2 DEF Telling, NewRedactor
  <1>7. TokensGiven
    BY <1>1, <1>3, <1>6, NothingRead DEF TokensGiven
  <1> QED BY <1>2, <1>4, <1>5, <1>7 DEF RowsInv

\* The steps that stop the run change nothing else.
LEMMA RowsStop ==
    ASSUME RowsInv, NEW exception, Stop(exception),
           pc \in {"load", "built"} \/ (pc = "read" /\ outcomes = << >>)
    PROVE  RowsInv'
  <1>1. pc' \in {"refused", "raised"}
    BY DEF Stop
  <1>2. source' = source /\ outcomes' = outcomes /\ made' = made /\ redactor' = redactor
    BY DEF Stop
  <1>3. Given'
    BY <1>1, <1>2 DEF RowsInv, Given
  <1>4. Counting'
    <2>1. Len(made') = Len(outcomes') + (IF made' # <<>> THEN 1 ELSE 0)
      <3>1. Len(<< >>) = 0
        OBVIOUS
      <3>2. Len(outcomes) \in Nat /\ Len(made) \in Nat
        BY LenProperties DEF RowsInv, Counting, IsSeq
      <3>3. \A s : s \in Seq(ToSet(s)) /\ Len(s) = 0 => s = << >>
        BY EmptySeq
      <3>4. CASE pc = "load"
        BY <1>2, <3>1, <3>4 DEF RowsInv, Counting
      <3>5. CASE pc = "built"
        <4>1. Len(made) = Len(outcomes) + 1
          BY <3>5 DEF RowsInv, Counting
        <4>2. made # << >>
          BY <3>1, <3>2, <4>1
        <4> QED BY <1>2, <4>1, <4>2
      <3>6. CASE pc = "read" /\ outcomes = << >>
        <4>1. Len(made) = 0 /\ Len(outcomes) = 0 /\ IsSeq(made)
          BY <3>1, <3>2, <3>6 DEF RowsInv, Counting
        <4>2. made = << >>
          BY <3>3, <4>1 DEF IsSeq
        <4> QED BY <1>2, <3>1, <3>6, <4>2
      <3> QED BY <3>4, <3>5, <3>6
    <2> QED BY <1>1, <1>2, <2>1 DEF RowsInv, Counting
  <1>5. Made' /\ Told' /\ TokensGiven'
    BY <1>1, <1>2 DEF RowsInv, Made, Told, OutcomeWell, TokensGiven, Built
  <1> QED BY <1>3, <1>4, <1>5 DEF RowsInv

\* A step that only goes on from one place to another.
LEMMA RowsGoOn ==
    ASSUME RowsInv, UNCHANGED <<source, outcomes, made, redactor>>,
           \/ pc = "load" /\ pc' = "read" /\ Usable /\ IsGood(Loaded)
           \/ pc = "read" /\ pc' = "done"
           \/ pc' = pc
    PROVE  RowsInv'
  <1>1. source' = source /\ outcomes' = outcomes /\ made' = made /\ redactor' = redactor
    OBVIOUS
  <1>2. (Usable' <=> Usable) /\ Loaded' = Loaded
    BY <1>1 DEF Usable, Loaded, file, Format
  <1>3. Given'
    BY <1>1, <1>2 DEF RowsInv, Given
  <1>4. Counting'
    <2>1. Len(<< >>) = 0
      OBVIOUS
    <2> QED BY <1>1, <2>1 DEF RowsInv, Counting
  <1>5. Made'
    BY <1>1 DEF RowsInv, Made, Built
  <1>6. Told' /\ TokensGiven'
    BY <1>1 DEF RowsInv, Told, OutcomeWell, TokensGiven
  <1> QED BY <1>3, <1>4, <1>5, <1>6 DEF RowsInv

\* A step that adds to the lines, the Redactor left alone, adds one outcome that
\* is no record.
LEMMA RowsFail ==
    ASSUME RowsInv, pc \in {"read", "built"}, pc' = "read", source' = source, redactor' = redactor,
           Len(outcomes) < Len(source.lines),
           NEW x, outcomes' = Append(outcomes, x), ~IsGood(x),
           (Is(x, "bad") /\ x.bad \in RecordErrors \cup {"LineParseError"}) \/ Is(x, "blank"),
           \/ pc = "read" /\ made' = Append(made, x)
           \/ pc = "built" /\ made' = made /\ x = Built
    PROVE  RowsInv'
  <1> DEFINE n == Len(outcomes)
             on == redactor.enabled
  <1>1. IsSeq(outcomes) /\ IsSeq(made) /\ n \in Nat /\ Len(source.lines) \in Nat
    BY OneMore, LinesAre DEF RowsInv, Given, Counting
  <1>2. /\ IsSeq(made') /\ Len(made') = n + 1
        /\ \A k \in 1 .. n : made'[k] = made[k]
        /\ made'[n + 1] = x
    <2>1. CASE pc = "read"
      <3>1. Len(made) = n /\ made' = Append(made, x)
        BY <1>1, <2>1 DEF RowsInv, Counting
      <3> QED BY <1>1, <3>1, OneMore
    <2>2. CASE pc = "built"
      <3>1. Len(made) = n + 1 /\ made' = made /\ x = Built
        BY <1>1, <2>2 DEF RowsInv, Counting
      <3> QED BY <1>1, <3>1 DEF Built, Last
    <2> QED BY <2>1, <2>2
  <1>3. /\ IsSeq(outcomes') /\ Len(outcomes') = n + 1
        /\ \A k \in 1 .. n : outcomes'[k] = outcomes[k]
        /\ outcomes'[n + 1] = x
    BY <1>1, OneMore
  <1>4. \A k \in 1 .. n + 1 : k \in 1 .. n \/ k = n + 1
    BY <1>1
  <1>5. (Usable' <=> Usable) /\ Loaded' = Loaded
    BY DEF Usable, Loaded, file, Format
  <1>6. Given'
    BY <1>5 DEF RowsInv, Given
  <1>7. Counting'
    BY <1>1, <1>2, <1>3 DEF RowsInv, Counting
  <1>8. n <= Len(made) /\ \A k \in 1 .. n : k \in 1 .. Len(made)
    <2>1. Len(made) = n \/ Len(made) = n + 1
      BY <1>1 DEF RowsInv, Counting
    <2> QED BY <1>1, <2>1
  <1> HIDE DEF n, on
  <1>9. Made'
    <2>1. \A k \in 1 .. n + 1 :
            IsGood(made'[k]) => Readable(made'[k].ok) /\ ToSet(Required) \subseteq DOMAIN made'[k].ok
      BY <1>2, <1>4, <1>8 DEF RowsInv, Made
    <2> QED BY <1>2, <2>1 DEF Made
  <1>10. Told'
    <2>1. \A k \in 1 .. n : OutcomeWell(outcomes[k], made[k])
      BY DEF RowsInv, Told, n
    <2>2. \A k \in 1 .. n + 1 : OutcomeWell(outcomes'[k], made'[k])
      <3> TAKE k \in 1 .. n + 1
      <3>1. CASE k = n + 1
        BY <1>2, <1>3, <3>1 DEF OutcomeWell
      <3>2. CASE k \in 1 .. n
        BY <1>2, <1>3, <2>1, <3>2
      <3> QED BY <1>4, <3>1, <3>2
    <2>3. \A k \in 1 .. n + 1 : OutcomeWell(outcomes[k], made[k])'
      BY <2>2 DEF OutcomeWell
    <2> QED BY <1>3, <2>3 DEF Told
  <1>11. TokensGiven'
    <2>1. ValuesOfRow(on, made'[n + 1]) = << >>
      BY <1>2 DEF ValuesOfRow
    <2>2. \A k \in 1 .. n + 1 : IsSeq(ValuesOfRow(on, made'[k]))
      <3>1. \A k \in 1 .. n : IsSeq(ValuesOfRow(on, made[k]))
        BY DEF RowsInv, TokensGiven, n, on
      <3> QED BY <1>2, <1>4, <2>1, <3>1, SeqIs
    <2>3. ReadBy(on, made', n + 1) = ReadBy(on, made', n) \o << >>
      BY <1>1, <2>1, <2>2, OneMoreLine DEF n
    <2>4. ReadBy(on, made', n) = ReadBy(on, made, n)
      BY <1>1, <1>2, SameRead DEF n
    <2>5. Telling(redactor, ReadBy(on, made, n))
      BY DEF RowsInv, TokensGiven, n, on
    <2>6. ReadBy(on, made, n) \o << >> = ReadBy(on, made, n)
      BY <2>5, ConcatEmptySeq DEF Telling, IsSeq
    <2>7. Telling(redactor, ReadBy(on, made', n + 1))
      BY <2>3, <2>4, <2>5, <2>6
    <2> QED BY <1>3, <2>2, <2>7 DEF TokensGiven, on
  <1> QED BY <1>6, <1>7, <1>9, <1>10, <1>11 DEF RowsInv

\* The row in hand is one of the source's lines, and can be looked into.
LEMMA LineInHand ==
    ASSUME RowsInv, AtLine
    PROVE  LineRead(Line)
  <1>1. /\ Len(outcomes) \in Nat /\ Len(source.lines) \in Nat
        /\ \A k \in 1 .. Len(source.lines) : source.lines[k] \in ToSet(source.lines)
        /\ source \in Sources
    BY OneMore, LinesAre DEF RowsInv, Given, Counting
  <1>2. Len(outcomes) + 1 \in 1 .. Len(source.lines)
    BY <1>1 DEF AtLine
  <1> DEFINE line == source.lines[Len(outcomes) + 1]
  <1>3. line \in ToSet(source.lines)
    BY <1>1, <1>2
  <1> HIDE DEF line
  <1>4. LineRead(ReadLine(line))
    BY <1>1, <1>3, ReadLineIs
  <1> QED BY <1>4 DEF Line, line

\* What is made of a row is a record with its texts, or a failure.
LEMMA RowsBuild ==
    ASSUME RowsInv, BuildRow
    PROVE  RowsInv'
  <1> DEFINE n == Len(outcomes)
             x == BuildRecord(file, Row, Loaded.ok)
  <1>1. /\ pc = "read" /\ pc' = "built" /\ n < Len(source.lines)
        /\ source' = source /\ outcomes' = outcomes /\ redactor' = redactor
        /\ made' = Append(made, x) /\ IsGood(Line)
    BY DEF BuildRow, AtLine
  <1>2. BuiltWell(x)
    <2>1. Legible(Row)
      BY <1>1, LineInHand DEF BuildRow, LineRead, Row
    <2>2. source \in Sources /\ Usable /\ IsGood(Loaded)
      BY <1>1 DEF RowsInv, Given
    <2>3. MappingFit(file) /\ IndexFit(Loaded.ok)
      BY <2>2, UsableIs, LoadedIs
    <2> QED BY <2>1, <2>3, BuildRecordIs
  <1> HIDE DEF x
  <1>3. IsSeq(outcomes) /\ IsSeq(made) /\ n \in Nat /\ Len(made) = n
    BY <1>1, OneMore DEF RowsInv, Counting
  <1>4. /\ IsSeq(made') /\ Len(made') = n + 1
        /\ \A k \in 1 .. n : made'[k] = made[k]
        /\ made'[n + 1] = x /\ Last(made') = x
    BY <1>1, <1>3, OneMore
  <1>5. (Usable' <=> Usable) /\ Loaded' = Loaded
    BY <1>1 DEF Usable, Loaded, file, Format
  <1>6. Given'
    BY <1>1, <1>5 DEF RowsInv, Given
  <1>7. Counting'
    BY <1>1, <1>3, <1>4 DEF RowsInv, Counting
  <1>8. Made'
    <2>1. \A k \in 1 .. n + 1 : k \in 1 .. n \/ k = n + 1
      BY <1>3
    <2>2. \A k \in 1 .. n : IsGood(made[k]) => Readable(made[k].ok) /\ ToSet(Required) \subseteq DOMAIN made[k].ok
      BY <1>3 DEF RowsInv, Made
    <2>3. \A k \in 1 .. n + 1 :
            IsGood(made'[k]) => Readable(made'[k].ok) /\ ToSet(Required) \subseteq DOMAIN made'[k].ok
      BY <1>2, <1>4, <2>1, <2>2 DEF BuiltWell
    <2>4. Built' = x
      BY <1>4 DEF Built
    <2> QED BY <1>2, <1>4, <2>3, <2>4 DEF Made, BuiltWell
  <1>9. Told'
    <2>1. \A k \in 1 .. n : OutcomeWell(outcomes'[k], made'[k])
      BY <1>1, <1>4 DEF RowsInv, Told
    <2>2. \A k \in 1 .. n : OutcomeWell(outcomes[k], made[k])'
      BY <1>1, <2>1 DEF OutcomeWell
    <2> QED BY <1>1, <2>2 DEF Told
  <1>10. TokensGiven'
    <2>1. ReadBy(redactor.enabled, made', n) = ReadBy(redactor.enabled, made, n)
      BY <1>3, <1>4, SameRead
    <2> QED BY <1>1, <1>4, <2>1 DEF RowsInv, TokensGiven
  <1> QED BY <1>6, <1>7, <1>8, <1>9, <1>10 DEF RowsInv

\* A record goes through the Redactor: its texts as a reader finds them, its
\* values numbered after those before.
LEMMA RowsRedact ==
    ASSUME RowsInv, RedactRow
    PROVE  RowsInv'
  <1> DEFINE n == Len(outcomes)
             on == redactor.enabled
             r == Built.ok
             read == ReadBy(on, made, n)
             done == Redacted(r, redactor)
             x == Validated(done.record)
  <1>1. /\ pc = "built" /\ pc' = "read" /\ IsGood(Built)
        /\ source' = source /\ made' = made /\ redactor' = done.redactor
        /\ outcomes' = Append(outcomes, x)
    BY DEF RedactRow
  <1>2. /\ IsSeq(outcomes) /\ IsSeq(made) /\ n \in Nat /\ Len(made) = n + 1
        /\ Len(source.lines) \in Nat /\ n < Len(source.lines)
    BY <1>1, OneMore, LinesAre DEF RowsInv, Given, Counting
  <1>3. Built = made[n + 1]
    BY <1>2 DEF Built, Last
  <1>4. Readable(r) /\ ToSet(Required) \subseteq DOMAIN r
    BY <1>1, <1>2, <1>3 DEF RowsInv, Made
  <1>5. Telling(redactor, read) /\ on \in BOOLEAN
    BY LinesAre DEF RowsInv, Given, TokensGiven
  <1>6. done = Redacted(r, redactor)
    OBVIOUS
  <1> HIDE DEF r, read, done, n
  <1>7. /\ done.redactor.enabled = on
        /\ IsSeq(ValuesFrom(on, r))
        /\ Telling(done.redactor, read \o ValuesFrom(on, r))
        /\ Extends(done.redactor.index, redactor.index)
        /\ Fits(done.record, r)
        /\ \A slot \in TextSlots(r) : ToldAt(done.record, r, slot, on, done.redactor.index)
    BY <1>4, <1>5, <1>6, RedactedTold
  <1> HIDE DEF x, on
  <1>8. /\ IsSeq(outcomes') /\ Len(outcomes') = n + 1
        /\ \A k \in 1 .. n : outcomes'[k] = outcomes[k]
        /\ outcomes'[n + 1] = x
    BY <1>1, <1>2, OneMore DEF n
  <1>9. \A k \in 1 .. n + 1 : k \in 1 .. n \/ k = n + 1
    BY <1>2 DEF n
  <1>10. redactor'.enabled = on
    BY <1>1, <1>7
  <1>11. Given'
    <2>1. (Usable' <=> Usable) /\ Loaded' = Loaded
      BY <1>1 DEF Usable, Loaded, file, Format
    <2> QED BY <1>1, <1>10, <2>1 DEF RowsInv, Given, on
  <1>12. Counting'
    BY <1>1, <1>2, <1>8 DEF RowsInv, Counting, n
  <1>13. Made'
    BY <1>1 DEF RowsInv, Made
  <1>14. Told'
    <2>1. ASSUME NEW k \in 1 .. n + 1 PROVE OutcomeWell(outcomes[k], made[k])'
      <3>1. CASE k = n + 1
        <4>1. outcomes'[k] = x /\ made'[k] = Built /\ r = Built.ok
          BY <1>1, <1>3, <1>8, <3>1 DEF r
        <4>2. CASE x = Good(done.record)
          <5>1. IsGood(x) /\ x.ok = done.record
            BY <4>2, GoodOrBad
          <5>2. ToSet(Required) \subseteq DOMAIN x.ok
            BY <1>4, <1>7, <5>1 DEF Fits
          <5>3. \A slot \in TextSlots(r) : ToldAt(x.ok, r, slot, redactor'.enabled, redactor'.index)
            BY <1>1, <1>7, <1>10, <5>1
          <5> QED BY <1>1, <4>1, <5>1, <5>2, <5>3 DEF OutcomeWell
        <4>3. CASE \E e \in RecordErrors : x = Bad(e)
          <5>1. ~IsGood(x) /\ Is(x, "bad") /\ x.bad \in RecordErrors
            BY <4>3, GoodOrBad
          <5> QED BY <4>1, <5>1 DEF OutcomeWell
        <4> QED BY <4>2, <4>3, ValidatedIs DEF x
      <3>2. CASE k \in 1 .. n
        <4>1. OutcomeWell(outcomes[k], made[k]) /\ outcomes'[k] = outcomes[k] /\ made'[k] = made[k]
          BY <1>1, <1>8, <3>2 DEF RowsInv, Told, n
        <4>2. CASE ~IsGood(outcomes[k])
          BY <4>1, <4>2 DEF OutcomeWell
        <4>3. CASE IsGood(outcomes[k])
          <5>1. \A slot \in TextSlots(made[k].ok) :
                  ToldAt(outcomes[k].ok, made[k].ok, slot, on, redactor'.index)
            BY <1>1, <1>7, <4>1, <4>3, ToldStays DEF OutcomeWell, on
          <5> QED BY <1>10, <4>1, <4>3, <5>1 DEF OutcomeWell
        <4> QED BY <4>2, <4>3
      <3> QED BY <1>9, <3>1, <3>2
    <2> QED BY <1>8, <2>1 DEF Told
  <1>15. TokensGiven'
    <2>1. ValuesOfRow(on, made[n + 1]) = ValuesFrom(on, r)
      BY <1>1, <1>3 DEF ValuesOfRow, r
    <2>2. \A k \in 1 .. n + 1 : IsSeq(ValuesOfRow(on, made[k]))
      <3>1. \A k \in 1 .. n : IsSeq(ValuesOfRow(on, made[k]))
        BY DEF RowsInv, TokensGiven, n, on
      <3> QED BY <1>7, <1>9, <2>1, <3>1
    <2>3. ReadBy(on, made, n + 1) = read \o ValuesFrom(on, r)
      BY <1>2, <2>1, <2>2, OneMoreLine DEF n, read
    <2>4. Telling(redactor', ReadBy(on, made, n + 1))
      BY <1>1, <1>7, <2>3
    <2> QED BY <1>1, <1>8, <1>10, <2>2, <2>4 DEF TokensGiven
  <1> QED BY <1>11, <1>12, <1>13, <1>14, <1>15 DEF RowsInv

\* Every step keeps it.
LEMMA RowsStep == RowsInv /\ [Next]_vars => RowsInv'
  <1> SUFFICES ASSUME RowsInv, [Next]_vars PROVE RowsInv'
    OBVIOUS
  <1>1. CASE RefuseMapping
    BY <1>1, RowsStop DEF RefuseMapping
  <1>2. CASE RefuseSidecar
    BY <1>2, RowsStop DEF RefuseSidecar
  <1>3. CASE Start
    BY <1>3, RowsGoOn DEF Start
  <1>4. CASE RefuseHeader
    BY <1>4, RowsStop DEF RefuseHeader
  <1>5. CASE PassLine
    <2>1. /\ AtLine /\ ~IsGood(Line)
          /\ outcomes' = Append(outcomes, Line) /\ made' = Append(made, Line)
          /\ source' = source /\ pc' = pc /\ redactor' = redactor
      BY <1>5 DEF PassLine
    <2>2. pc = "read" /\ Len(outcomes) < Len(source.lines)
      BY <2>1 DEF AtLine
    <2>3. (Is(Line, "bad") /\ Line.bad \in RecordErrors \cup {"LineParseError"}) \/ Is(Line, "blank")
      BY <2>1, LineInHand DEF LineRead
    <2> DEFINE x == Line
    <2> HIDE DEF x
    <2>4. /\ outcomes' = Append(outcomes, x) /\ made' = Append(made, x) /\ ~IsGood(x)
          /\ (Is(x, "bad") /\ x.bad \in RecordErrors \cup {"LineParseError"}) \/ Is(x, "blank")
      BY <2>1, <2>3 DEF x
    <2> QED BY <2>1, <2>2, <2>4, RowsFail
  <1>6. CASE BuildRow
    BY <1>6, RowsBuild
  <1>7. CASE FailRow
    <2>1. /\ pc = "built" /\ ~IsGood(Built) /\ Built.bad \in RecordErrors
          /\ outcomes' = Append(outcomes, Built) /\ pc' = "read"
          /\ source' = source /\ made' = made /\ redactor' = redactor
      BY <1>7 DEF FailRow, Failed
    <2>2. Is(Built, "bad") /\ Len(outcomes) < Len(source.lines)
      BY <2>1 DEF RowsInv, Made, Typed, Counting
    <2> DEFINE x == Built
    <2> HIDE DEF x
    <2>3. /\ outcomes' = Append(outcomes, x) /\ ~IsGood(x) /\ x = Built
          /\ Is(x, "bad") /\ x.bad \in RecordErrors \cup {"LineParseError"}
      BY <2>1, <2>2 DEF x
    <2> QED BY <2>1, <2>2, <2>3, RowsFail
  <1>8. CASE StopAtRow
    BY <1>8, RowsStop DEF StopAtRow, Failed
  <1>9. CASE RedactRow
    BY <1>9, RowsRedact
  <1>10. CASE Finish
    BY <1>10, RowsGoOn DEF Finish
  <1>11. CASE UNCHANGED vars
    BY <1>11, RowsGoOn DEF vars
  <1> QED BY <1>1, <1>2, <1>3, <1>4, <1>5, <1>6, <1>7, <1>8, <1>9, <1>10, <1>11 DEF Next

\* The invariant holds in every state of a run.
THEOREM RowsInvariant == Spec => []RowsInv
  <1>1. Init => RowsInv
    BY RowsStart
  <1>2. RowsInv /\ [Next]_vars => RowsInv'
    BY RowsStep
  <1> QED BY <1>1, <1>2, PTL DEF Spec

----------------------------------------------------------------------------
(***************************************************************************)
(* The properties.                                                         *)
(***************************************************************************)

\* Every line read is a record with an id, a time and an input, or one of the
\* failures a line may have; one record at most is between its two steps, and the
\* Redactor changes no more texts than it sees.
THEOREM RowsTypeOK == Spec => []TypeOK
  <1>1. RowsInv => TypeOK
    <2> SUFFICES ASSUME RowsInv PROVE TypeOK
      OBVIOUS
    <2>1. DOMAIN outcomes = 1 .. Len(outcomes)
      BY OneMore DEF RowsInv, Counting
    <2>2. \A n \in DOMAIN outcomes :
             \/ IsGood(outcomes[n]) /\ ToSet(Required) \subseteq DOMAIN outcomes[n].ok
             \/ Is(outcomes[n], "bad") /\ outcomes[n].bad \in RecordErrors \cup {"LineParseError"}
             \/ Is(outcomes[n], "blank")
      BY <2>1 DEF RowsInv, Told, OutcomeWell
    <2>3. redactor.changed <= redactor.seen
      BY DEF RowsInv, TokensGiven, Telling
    <2> QED BY <2>2, <2>3 DEF RowsInv, Given, Counting, TypeOK
  <1> QED BY <1>1, RowsInvariant, PTL

\* The texts of a record that was made.
LEMMA TextsOfMade ==
    ASSUME RowsInv, NEW n \in 1 .. Len(outcomes), IsGood(made[n])
    PROVE  /\ Readable(made[n].ok)
           /\ \A slot \in TextSlots(made[n].ok) : IsSeq(TextAt(made[n].ok, slot))
  <1> DEFINE r == made[n].ok
  <1>1. n \in 1 .. Len(made)
    <2>1. Len(outcomes) \in Nat /\ (Len(made) = Len(outcomes) \/ Len(made) = Len(outcomes) + 1)
      BY OneMore DEF RowsInv, Counting
    <2> QED BY <2>1
  <1>2. Readable(r)
    BY <1>1 DEF RowsInv, Made
  <1> HIDE DEF r
  <1>3. \A slot \in TextSlots(r) : IsSlot(slot, r) /\ slot.field \in DOMAIN r
    <2>1. \A i \in 1 .. Len(Slots(r)) : IsSlot(Slots(r)[i], r)
      BY <1>2, SlotsAre
    <2>2. DOMAIN Slots(r) = 1 .. Len(Slots(r))
      BY <1>2, SlotsAre
    <2> QED BY <2>1, <2>2 DEF TextSlots, ToSet
  <1>4. \A slot \in TextSlots(r) : IsSeq(TextAt(r, slot))
    BY <1>2, <1>3, TextsAreSeqs
  <1> QED BY <1>2, <1>4 DEF r

\* Each text of a record reads as the row's does, with the token of its value in
\* the place of each span no better match rules out: a text rewritten right to left
\* with the offsets of the text as it came, under a numbering that later texts only
\* extend, is the one a reader finds at the end of the run.
THEOREM RowsTextsInReadingOrder == Spec => []TextsInReadingOrder
  <1>1. RowsInv => TextsInReadingOrder
    <2> SUFFICES ASSUME RowsInv, NEW n \in DOMAIN outcomes, IsGood(outcomes[n]),
                        NEW slot \in TextSlots(made[n].ok)
                 PROVE  TextAt(outcomes[n].ok, slot) = Retold(TextAt(made[n].ok, slot))
      BY DEF TextsInReadingOrder
    <2> DEFINE text == TextAt(made[n].ok, slot)
    <2>1. n \in 1 .. Len(outcomes)
      BY OneMore DEF RowsInv, Counting
    <2>2. /\ IsGood(made[n])
          /\ TextAt(outcomes[n].ok, slot) = RetoldBy(text, SpansBy(redactor.enabled, text), redactor.index)
      BY <2>1 DEF RowsInv, Told, OutcomeWell, ToldAt
    <2>3. IsSeq(text)
      BY <2>1, <2>2, TextsOfMade
    <2> HIDE DEF text
    <2>4. Dominant(text) = SpansBy(redactor.enabled, text)
      BY <2>3, DominantIs DEF IsSeq, SpansBy
    <2>5. Retold(text) = RetoldBy(text, Dominant(text), redactor.index)
      BY DEF Retold, RetoldBy, PieceAt, TokenOf
    <2> QED BY <2>2, <2>4, <2>5 DEF text
  <1> QED BY <1>1, RowsInvariant, PTL

\* What a reader of the run has met is what the Redactor has numbered.
LEMMA ReadSoFarIs ==
    ASSUME RowsInv
    PROVE  ReadSoFar = ReadBy(redactor.enabled, made, Len(outcomes))
  <1> DEFINE on == redactor.enabled
  <1>1. DOMAIN outcomes = 1 .. Len(outcomes)
    BY OneMore DEF RowsInv, Counting
  <1>2. ASSUME NEW n \in 1 .. Len(outcomes), IsGood(made[n])
        PROVE  FlattenSeq([i \in DOMAIN Slots(made[n].ok) |-> ValuesAt(made[n].ok, Slots(made[n].ok)[i])])
                 = ValuesFrom(on, made[n].ok)
    <2> DEFINE r == made[n].ok
    <2>1. \A slot \in TextSlots(r) : IsSeq(TextAt(r, slot))
      BY <1>2, TextsOfMade
    <2> HIDE DEF r
    <2>2. \A text : IsSeq(text) => ValuesIn(text) = ValuesBy(on, text)
      <3> TAKE text
      <3> SUFFICES ASSUME IsSeq(text) PROVE ValuesIn(text) = ValuesBy(on, text)
        OBVIOUS
      <3>1. Dominant(text) = SpansBy(on, text)
        BY DominantIs DEF IsSeq, SpansBy
      <3>2. DOMAIN text = 1 .. Len(text)
        BY OneMore
      <3> QED BY <3>1, <3>2 DEF ValuesIn, ValuesBy, ValuesOf, ValueAt
    <2>3. \A slot : ValuesAt(r, slot) = ValuesAtSlot(on, r, slot)
      BY <2>1, <2>2 DEF ValuesAt, ValuesAtSlot
    <2>4. [i \in DOMAIN Slots(r) |-> ValuesAt(r, Slots(r)[i])]
            = [i \in DOMAIN Slots(r) |-> ValuesAtSlot(on, r, Slots(r)[i])]
      BY <2>3
    <2> QED BY <2>4 DEF ValuesFrom, r
  <1> DEFINE told(n) == IF ~IsGood(made[n]) THEN << >>
                        ELSE LET r == made[n].ok
                             IN  FlattenSeq([i \in DOMAIN Slots(r) |-> ValuesAt(r, Slots(r)[i])])
  <1>3. \A n \in 1 .. Len(outcomes) : told(n) = ValuesOfRow(on, made[n])
    BY <1>2 DEF ValuesOfRow
  <1>4. ReadSoFar = FlattenSeq([n \in DOMAIN outcomes |-> told(n)])
    BY DEF ReadSoFar
  <1> HIDE DEF told
  <1>5. [n \in DOMAIN outcomes |-> told(n)] = [n \in 1 .. Len(outcomes) |-> ValuesOfRow(on, made[n])]
    BY <1>1, <1>3
  <1> QED BY <1>4, <1>5 DEF ReadBy

\* A token stands for one value of its class and a value has one token, numbered in
\* the order in which a reader of the run meets them, and the report counts each
\* reading: every value met has its index, which is how many of its class were first
\* met no later.
THEOREM RowsTokensTellValues == Spec => []TokensTellValues
  <1>1. RowsInv => TokensTellValues
    <2> SUFFICES ASSUME RowsInv PROVE TokensTellValues
      OBVIOUS
    <2>1. Telling(redactor, ReadSoFar)
      BY ReadSoFarIs DEF RowsInv, TokensGiven
    <2> DEFINE read == ReadSoFar
    <2> HIDE DEF read
    <2>2. /\ IndexTold(redactor.index, read)
          /\ \A c \in ToSet(Classes) : redactor.counts[c] = OfClassIn(read, c)
      BY <2>1 DEF Telling, read
    <2>3. LET index == redactor.index
          IN  /\ DOMAIN index = ToSet(read)
              /\ \A k \in DOMAIN index :
                   index[k] = Cardinality({j \in OfClass(index, k[1]) :
                                              FirstIn(read, j) <= FirstIn(read, k)})
              /\ \A c \in ToSet(Classes) :
                   redactor.counts[c] = Cardinality({i \in DOMAIN read : read[i][1] = c})
      BY <2>2 DEF IndexTold, OfClassIn
    <2> QED BY <2>3 DEF TokensTellValues, read
  <1> QED BY <1>1, RowsInvariant, PTL

----------------------------------------------------------------------------
(***************************************************************************)
(* A column left out, a null and a blank are one fact.                     *)
(***************************************************************************)

\* Two values no reader tells apart.
Alike(v, w) == v = w \/ (Absent(v) /\ Absent(w))

\* Two rows that hold the same, but for how they say that they hold nothing.
RowsAlike(row, other) ==
    /\ Is(row, "dict") /\ Is(other, "dict")
    /\ \A c : Alike(Follow(row, c), Follow(other, c))

\* Nothing is found in what is absent.
LEMMA NothingInAbsent ==
    ASSUME NEW v, Absent(v), NEW segment
    PROVE  Follow(v, segment) = Missing
  <1>1. ~Is(v, "dict") /\ ~Is(v, "list")
    BY DEF Absent, Is
  <1> QED BY <1>1 DEF Follow

\* One step of a path does not tell two such values apart.
LEMMA FollowAlike ==
    ASSUME NEW v, NEW w, Alike(v, w), NEW segment
    PROVE  Alike(Follow(v, segment), Follow(w, segment))
  BY NothingInAbsent DEF Alike

\* Nor does an extractor.
LEMMA ExtractAlike ==
    ASSUME NEW v, NEW w, Alike(v, w), NEW extractor \in Extractors
    PROVE  Alike(Extract(extractor, v), Extract(extractor, w))
  <1>1. Absent(Missing)
    BY DEF Absent, Missing, Is
  <1>2. ASSUME NEW u, Absent(u) PROVE Absent(Extract(extractor, u))
    <2>1. ~Is(u, "list")
      BY <1>2 DEF Absent, Is
    <2>2. \A role : LastMessage(u, role) = Missing
      BY <2>1 DEF LastMessage
    <2>3. Absent(JoinText(u))
      <3>1. JoinText(u) = u \/ JoinText(u) = Missing
        BY <2>1 DEF JoinText
      <3> QED BY <1>1, <1>2, <3>1
    <2>4. CASE extractor = "identity"
      BY <1>2, <2>4 DEF Extract
    <2>5. CASE extractor = "join_text"
      BY <2>3, <2>5 DEF Extract
    <2>6. CASE extractor = "openai_last_user_message"
      BY <1>1, <2>2, <2>6 DEF Extract
    <2>7. CASE extractor = "openai_assistant_message"
      BY <1>1, <2>2, <2>7 DEF Extract
    <2> QED BY <2>4, <2>5, <2>6, <2>7 DEF Extractors
  <1> QED BY <1>2 DEF Alike

\* A path finds in two such rows values no reader tells apart.
LEMMA ReachedAlike ==
    ASSUME NEW row, NEW other, RowsAlike(row, other), NEW path, Len(path) \in Nat, Len(path) # 0
    PROVE  Alike(Reached(row, path), Reached(other, path))
  <1> DEFINE N == Len(path)
  <1>1. PICK c : /\ Reached(row, path) = c[N]
                 /\ c[0] = row
                 /\ \A k \in 1 .. N : c[k] = Follow(c[k - 1], path[k])
    BY ReachedBySteps
  <1>2. PICK d : /\ Reached(other, path) = d[N]
                 /\ d[0] = other
                 /\ \A k \in 1 .. N : d[k] = Follow(d[k - 1], path[k])
    BY ReachedBySteps
  <1>3. N \in Nat /\ N # 0
    OBVIOUS
  <1> HIDE DEF N
  <1> DEFINE G == {k \in Nat : k + 1 <= N => Alike(c[k + 1], d[k + 1])}
  <1>4. 0 \in G
    <2>1. 1 \in 1 .. N /\ 1 - 1 = 0
      BY <1>3
    <2>2. c[1] = Follow(row, path[1]) /\ d[1] = Follow(other, path[1])
      BY <1>1, <1>2, <2>1
    <2>3. Alike(c[1], d[1])
      BY <2>2 DEF RowsAlike
    <2> QED BY <2>3
  <1>5. ASSUME NEW k \in Nat, k \in G PROVE k + 1 \in G
    <2> SUFFICES ASSUME (k + 1) + 1 <= N PROVE Alike(c[(k + 1) + 1], d[(k + 1) + 1])
      OBVIOUS
    <2> DEFINE i == (k + 1) + 1
    <2>1. i \in 1 .. N /\ i - 1 = k + 1 /\ k + 1 <= N
      BY <1>3
    <2>2. Alike(c[k + 1], d[k + 1])
      BY <1>5, <2>1
    <2>3. c[i] = Follow(c[k + 1], path[i]) /\ d[i] = Follow(d[k + 1], path[i])
      BY <1>1, <1>2, <2>1
    <2> QED BY <2>2, <2>3, FollowAlike
  <1>6. \A k \in Nat : k \in G
    <2> HIDE DEF G
    <2> QED BY <1>4, <1>5, NumberInduction
  <1>7. N - 1 \in Nat /\ (N - 1) + 1 = N
    BY <1>3
  <1>8. Alike(c[N], d[N])
    BY <1>6, <1>7, <1>3
  <1> QED BY <1>1, <1>2, <1>8

\* What the mapping finds in two such rows: the same failure, values no reader
\* tells apart, or the rows themselves.
LEMMA RawValueAlike ==
    ASSUME NEW row, NEW other, RowsAlike(row, other),
           NEW spec, spec.path \in Seq(STRING), spec.extractor \in Extractors
    PROVE  \/ RawValue(row, spec) = RawValue(other, spec)
           \/ /\ IsGood(RawValue(row, spec)) /\ IsGood(RawValue(other, spec))
              /\ Alike(RawValue(row, spec).ok, RawValue(other, spec).ok)
           \/ /\ spec.path = WholePayload /\ spec.extractor = "identity"
              /\ RawValue(row, spec) = Good(row) /\ RawValue(other, spec) = Good(other)
  <1>1. CASE spec.path = << >>
    BY <1>1 DEF RawValue
  <1>2. CASE spec.path = WholePayload
    <2>1. WholePayload # << >>
      BY DEF WholePayload
    <2>2. ExtractPath(row, spec.path) = Good(row) /\ ExtractPath(other, spec.path) = Good(other)
      <3>1. "" \notin ToSet(WholePayload)
        <4>1. DOMAIN WholePayload = {1} /\ WholePayload[1] = "."
          BY DEF WholePayload
        <4> QED BY <4>1 DEF ToSet
      <3> QED BY <1>2, <3>1 DEF ExtractPath
    <2>3. /\ RawValue(row, spec) = Good(Extract(spec.extractor, row))
          /\ RawValue(other, spec) = Good(Extract(spec.extractor, other))
      BY <1>2, <2>1, <2>2, GoodOrBad DEF RawValue
    <2>4. CASE spec.extractor = "identity"
      <3>1. Extract(spec.extractor, row) = row /\ Extract(spec.extractor, other) = other
        BY <2>4 DEF Extract
      <3> QED BY <1>2, <2>3, <2>4, <3>1
    <2>5. CASE spec.extractor # "identity"
      <3>1. ASSUME NEW r, Is(r, "dict") PROVE Extract(spec.extractor, r) = Missing
        <4>1. ~Is(r, "list") /\ ~Is(r, "str")
          BY <3>1 DEF Is
        <4>2. JoinText(r) = Missing /\ \A role : LastMessage(r, role) = Missing
          BY <4>1 DEF JoinText, LastMessage
        <4> QED BY <2>5, <4>2 DEF Extract, Extractors
      <3> QED BY <2>3, <3>1 DEF RowsAlike
    <2> QED BY <2>4, <2>5
  <1>3. CASE spec.path # << >> /\ spec.path # WholePayload /\ "" \in ToSet(spec.path)
    BY <1>3, GoodOrBad DEF RawValue, ExtractPath
  <1>4. CASE spec.path # << >> /\ spec.path # WholePayload /\ "" \notin ToSet(spec.path)
    <2> DEFINE v == Reached(row, spec.path)
               w == Reached(other, spec.path)
    <2>1. ExtractPath(row, spec.path) = Good(v) /\ ExtractPath(other, spec.path) = Good(w)
      BY <1>4 DEF ExtractPath
    <2>2. Len(spec.path) \in Nat /\ Len(spec.path) # 0
      BY <1>4, EmptySeq, LenProperties
    <2>3. Alike(v, w)
      BY <2>2, ReachedAlike
    <2> HIDE DEF v, w
    <2>4. /\ RawValue(row, spec) = Good(Extract(spec.extractor, v))
          /\ RawValue(other, spec) = Good(Extract(spec.extractor, w))
      BY <1>4, <2>1, GoodOrBad DEF RawValue
    <2>5. Alike(Extract(spec.extractor, v), Extract(spec.extractor, w))
      BY <2>3, ExtractAlike
    <2> QED BY <2>4, <2>5, GoodOrBad
  <1> QED BY <1>1, <1>2, <1>3, <1>4

\* A row is nothing but a set of verdicts.
LEMMA RowIsNoValue ==
    ASSUME NEW m, NEW target, target # "judge_verdicts", NEW spec
    PROVE  \E e : \A row : Is(row, "dict") => Coerced(m, target, row, spec) = Bad(e)
  <1>1. CASE target = "ts_utc"
    <2>1. ASSUME NEW row, Is(row, "dict") PROVE Coerced(m, target, row, spec) = Bad("TimestampError")
      <3>1. ~Is(row, "null") /\ ~Is(row, "int") /\ ~Is(row, "float") /\ ~Is(row, "str")
        BY <2>1 DEF Is
      <3>2. CoerceTimestamp(row, m.naive) = Bad("TimestampError")
        BY <3>1 DEF CoerceTimestamp
      <3>3. target \notin CountFields /\ target # "judge_verdicts"
        BY <1>1 DEF CountFields
      <3> QED BY <1>1, <3>2, <3>3 DEF Coerced
    <2> QED BY <2>1
  <1>2. CASE target # "ts_utc" /\ target \in CountFields
    <2>1. ASSUME NEW row, Is(row, "dict") PROVE Coerced(m, target, row, spec) = Bad("FieldTypeError")
      <3>1. ~Is(row, "null") /\ ~Is(row, "int") /\ ~Is(row, "float") /\ ~Is(row, "str")
        BY <2>1 DEF Is
      <3>2. CoerceInt(row) = Bad("FieldTypeError")
        BY <3>1 DEF CoerceInt
      <3> QED BY <1>2, <3>2 DEF Coerced
    <2> QED BY <2>1
  <1>3. CASE target # "ts_utc" /\ target \notin CountFields
    <2>1. ASSUME NEW row, Is(row, "dict") PROVE Coerced(m, target, row, spec) = Bad("FieldTypeError")
      <3>1. ~Is(row, "null") /\ ~Is(row, "int") /\ ~Is(row, "str")
        BY <2>1 DEF Is
      <3>2. CoerceText(row, target = "record_id") = Bad("FieldTypeError")
        BY <3>1 DEF CoerceText
      <3> QED BY <1>3, <3>2 DEF Coerced
    <2> QED BY <2>1
  <1> QED BY <1>1, <1>2, <1>3

\* One field read off two such rows.
LEMMA MappedAlike ==
    ASSUME NEW m, NEW row, NEW other, RowsAlike(row, other),
           NEW spec, spec.path \in Seq(STRING), spec.extractor \in Extractors,
           ~(/\ spec.target = "judge_verdicts" /\ spec.path = WholePayload
             /\ spec.extractor = "identity"),
           NEW values
    PROVE  Mapped(m, row, values, spec) = Mapped(m, other, values, spec)
  <1> DEFINE x == RawValue(row, spec)
             y == RawValue(other, spec)
  <1>1. \/ x = y
        \/ IsGood(x) /\ IsGood(y) /\ Alike(x.ok, y.ok)
        \/ /\ spec.path = WholePayload /\ spec.extractor = "identity"
           /\ x = Good(row) /\ y = Good(other)
    BY RawValueAlike
  <1>2. SUFFICES WithField(m, values, spec, x) = WithField(m, values, spec, y)
    BY DEF Mapped
  <1> HIDE DEF x, y
  <1>3. CASE x = y
    BY <1>3
  <1>4. CASE IsGood(x) /\ IsGood(y) /\ Alike(x.ok, y.ok)
    <2>1. RowOrDefault(m, spec.target, x.ok) = RowOrDefault(m, spec.target, y.ok)
      BY <1>4 DEF Alike, RowOrDefault
    <2> QED BY <1>4, <2>1 DEF WithField
  <1>5. CASE /\ spec.path = WholePayload /\ spec.extractor = "identity"
             /\ x = Good(row) /\ y = Good(other)
    <2>1. IsGood(x) /\ x.ok = row /\ IsGood(y) /\ y.ok = other
      BY <1>5, GoodOrBad
    <2>2. PICK e : \A r : Is(r, "dict") => Coerced(m, spec.target, r, spec) = Bad(e)
      BY <1>5, RowIsNoValue
    <2>3. ASSUME NEW r, Is(r, "dict")
          PROVE  RowOrDefault(m, spec.target, r) = r /\ ~Is(r, "missing")
      <3>1. ~Absent(r) /\ ~Is(r, "missing")
        BY <2>3 DEF Absent, Is
      <3> QED BY <3>1 DEF RowOrDefault
    <2>4. /\ Coerced(m, spec.target, row, spec) = Bad(e) /\ Coerced(m, spec.target, other, spec) = Bad(e)
          /\ RowOrDefault(m, spec.target, row) = row /\ RowOrDefault(m, spec.target, other) = other
          /\ ~Is(row, "missing") /\ ~Is(other, "missing")
      BY <2>2, <2>3 DEF RowsAlike
    <2>5. /\ With(values, spec.target, Coerced(m, spec.target, row, spec)) = Bad(e)
          /\ With(values, spec.target, Coerced(m, spec.target, other, spec)) = Bad(e)
      BY <2>4, GoodOrBad DEF With
    <2> QED BY <2>1, <2>4, <2>5 DEF WithField
  <1> QED BY <1>1, <1>3, <1>4, <1>5

\* No field of the mapping takes the row itself for its verdicts.
NoRowVerdicts(m) ==
    \A i \in DOMAIN m.fields :
        ~(/\ FieldSpec(m.fields[i]).target = "judge_verdicts"
          /\ FieldSpec(m.fields[i]).path = WholePayload
          /\ FieldSpec(m.fields[i]).extractor = "identity")

\* The same record is made of two such rows.
LEMMA BuildAlike ==
    ASSUME NEW m, MappingFit(m), NoRowVerdicts(m),
           \A i \in DOMAIN m.fields : FieldSpec(m.fields[i]).path \in Seq(STRING),
           NEW row, NEW other, RowsAlike(row, other), NEW index
    PROVE  BuildRecord(m, row, index) = BuildRecord(m, other, index)
  <1>1. Joined(m, row, index) = Joined(m, other, index)
    <2>1. CASE "sidecar" \in DOMAIN m
      <3> DEFINE k == Follow(row, m.sidecar.key)
                 l == Follow(other, m.sidecar.key)
      <3>1. Alike(k, l)
        BY DEF RowsAlike
      <3>2. FromSidecar(m, row, index) = FromSidecar(m, other, index)
        <4>1. CASE k = l
          BY <4>1 DEF FromSidecar
        <4>2. CASE Absent(k) /\ Absent(l)
          <5>1. ~(Is(k, "str") /\ ~Blank(k.str)) /\ ~(Is(l, "str") /\ ~Blank(l.str))
            BY <4>2 DEF Absent, Is
          <5> QED BY <5>1 DEF FromSidecar
        <4> QED BY <3>1, <4>1, <4>2 DEF Alike
      <3> QED BY <3>2 DEF Joined
    <2>2. CASE "sidecar" \notin DOMAIN m
      BY <2>2 DEF Joined
    <2> QED BY <2>1, <2>2
  <1>2. ASSUME NEW values PROVE FieldsRead(m, row, values) = FieldsRead(m, other, values)
    <2> DEFINE N == Len(m.fields)
    <2>1. PICK c : /\ FieldsRead(m, row, values) = c[N]
                   /\ c[0] = values
                   /\ \A k \in 1 .. N : c[k] = Mapped(m, row, c[k - 1], FieldSpec(m.fields[k]))
      BY FieldsReadBySteps DEF MappingFit
    <2>2. PICK d : /\ FieldsRead(m, other, values) = d[N]
                   /\ d[0] = values
                   /\ \A k \in 1 .. N : d[k] = Mapped(m, other, d[k - 1], FieldSpec(m.fields[k]))
      BY FieldsReadBySteps DEF MappingFit
    <2>3. N \in Nat /\ DOMAIN m.fields = 1 .. N
      BY DEF MappingFit
    <2>4. ASSUME NEW k \in 1 .. N, NEW x
          PROVE  Mapped(m, row, x, FieldSpec(m.fields[k])) = Mapped(m, other, x, FieldSpec(m.fields[k]))
      <3> DEFINE spec == FieldSpec(m.fields[k])
      <3>1. /\ spec.path \in Seq(STRING) /\ spec.extractor \in Extractors
            /\ ~(/\ spec.target = "judge_verdicts" /\ spec.path = WholePayload
                 /\ spec.extractor = "identity")
        BY <2>3 DEF MappingFit, NoRowVerdicts
      <3> HIDE DEF spec
      <3> QED BY <3>1, MappedAlike DEF spec
    <2> HIDE DEF N
    <2> DEFINE G == {k \in Nat : k <= N => c[k] = d[k]}
    <2>5. 0 \in G
      BY <2>1, <2>2
    <2>6. ASSUME NEW k \in Nat, k \in G PROVE k + 1 \in G
      <3> SUFFICES ASSUME k + 1 <= N PROVE c[k + 1] = d[k + 1]
        OBVIOUS
      <3>1. k + 1 \in 1 .. N /\ (k + 1) - 1 = k /\ c[k] = d[k]
        BY <2>3, <2>6
      <3>2. /\ c[k + 1] = Mapped(m, row, c[k], FieldSpec(m.fields[k + 1]))
            /\ d[k + 1] = Mapped(m, other, d[k], FieldSpec(m.fields[k + 1]))
        BY <2>1, <2>2, <3>1
      <3> QED BY <2>4, <3>1, <3>2
    <2>7. \A k \in Nat : k \in G
      <3> HIDE DEF G
      <3> QED BY <2>5, <2>6, NumberInduction
    <2> QED BY <2>1, <2>2, <2>3, <2>7
  <1>3. Values(m, row, index) = Values(m, other, index)
    BY <1>1, <1>2 DEF Values
  <1> QED BY <1>3 DEF BuildRecord

\* A line of the log, by its kind.
LEMMA LineIs ==
    ASSUME source \in Sources, NEW line \in ToSet(source.lines)
    PROVE  /\ IsGood(ReadLine(line)) =>
                \/ /\ Is(line, "json") /\ line.json \in Json /\ Is(line.json, "dict")
                   /\ ReadLine(line).ok = line.json
                \/ /\ Is(line, "cells") /\ line.cells \in Seq(Seq(STRING))
                   /\ "header" \in DOMAIN source /\ source.header \in Seq(STRING)
                   /\ Len(line.cells) <= Len(source.header)
                   /\ \A i \in DOMAIN line.cells : Str(line.cells[i]) \in Json
                   /\ ReadLine(line).ok = CsvRow(source.header, line.cells)
           /\ Is(ReadLine(line), "bad") => Unreadable(line)
  <1> DEFINE x == ReadLine(line)
             Kinds == [json : Json] \cup [cells : Seq(Seq(STRING))] \cup {[garbled |-> TRUE], [blank |-> TRUE]}
  <1>1. line \in Kinds
    <2>1. source.lines \in Seq(Kinds)
      BY SourcesAssumption
    <2> HIDE DEF Kinds
    <2> QED BY <2>1, SeqIs
  <1>3. CASE line \in [json : Json]
    <2>1. Is(line, "json") /\ line.json \in Json
      BY <1>3 DEF Is
    <2>2. x = IF Is(line.json, "dict") THEN Good(line.json) ELSE Bad("LineParseError")
      BY <2>1 DEF ReadLine, Is
    <2>3. CASE Is(line.json, "dict")
      <3>1. IsGood(x) /\ x.ok = line.json /\ ~Is(x, "bad")
        BY <2>2, <2>3 DEF Good, IsGood, Is
      <3> QED BY <2>1, <2>3, <3>1
    <2>4. CASE ~Is(line.json, "dict")
      <3>1. ~IsGood(x)
        BY <2>2, <2>4, GoodOrBad
      <3> QED BY <2>1, <2>4, <3>1 DEF Unreadable
    <2> QED BY <2>3, <2>4
  <1>4. CASE line \in [cells : Seq(Seq(STRING))]
    <2>1. Is(line, "cells") /\ line.cells \in Seq(Seq(STRING))
      BY <1>4 DEF Is
    <2>2. x = IF Len(line.cells) > Len(source.header) THEN Bad("LineParseError")
              ELSE Good(CsvRow(source.header, line.cells))
      BY <2>1 DEF ReadLine, Is
    <2>3. /\ "header" \in DOMAIN source /\ source.header \in Seq(STRING)
          /\ \A i \in DOMAIN line.cells : Str(line.cells[i]) \in Json
      BY <2>1, SourcesAssumption
    <2>4. Len(line.cells) \in Nat /\ Len(source.header) \in Nat
      BY <2>1, <2>3, LenProperties
    <2>5. CASE Len(line.cells) > Len(source.header)
      BY <2>1, <2>2, <2>5, GoodOrBad DEF Unreadable
    <2>6. CASE Len(line.cells) <= Len(source.header)
      <3> DEFINE row == CsvRow(source.header, line.cells)
      <3> HIDE DEF row
      <3>1. x = Good(row)
        BY <2>2, <2>4, <2>6 DEF row
      <3>2. IsGood(x) /\ x.ok = row /\ ~Is(x, "bad")
        BY <3>1 DEF Good, IsGood, Is
      <3> QED BY <2>1, <2>3, <2>6, <3>2 DEF row
    <2> QED BY <2>4, <2>5, <2>6
  <1>5. CASE line \in {[garbled |-> TRUE], [blank |-> TRUE]}
    <2>1. CASE line = [garbled |-> TRUE]
      <3>1. x = Bad("LineParseError")
        BY <2>1 DEF ReadLine, Is
      <3> QED BY <2>1, <3>1, GoodOrBad DEF Unreadable, Is
    <2>2. CASE line = [blank |-> TRUE]
      <3>1. x = [blank |-> TRUE]
        BY <2>2 DEF ReadLine, Is
      <3>2. ~IsGood(x) /\ ~Is(x, "bad")
        BY <3>1 DEF IsGood, Is
      <3> QED BY <3>2
    <2> QED BY <1>5, <2>1, <2>2
  <1> QED BY <1>1, <1>3, <1>4, <1>5

\* A row holds a value, or an absence, under each name.
LEMMA RowIsDict ==
    ASSUME source \in Sources, NEW line \in ToSet(source.lines), IsGood(ReadLine(line))
    PROVE  Is(ReadLine(line).ok, "dict")
  <1>1. \A header, cells : Is(CsvRow(header, cells), "dict")
    BY DEF CsvRow, Is
  <1> QED BY <1>1, LineIs

\* What was made of each line is what its row comes to, or the failure it was
\* read as; and no line is taken under a header that is refused.
MadeOf(n) ==
    LET x == ReadLine(source.lines[n])
    IN  made[n] = IF IsGood(x) THEN BuildRecord(file, x.ok, Loaded.ok) ELSE x

FromLines ==
    /\ made # << >> => ~HeaderRefused
    /\ \A n \in 1 .. Len(made) : MadeOf(n)
    /\ pc = "built" => IsGood(ReadLine(source.lines[Len(made)]))

\* One more line made.
LEMMA OneMoreMade ==
    ASSUME RowsInv, FromLines, AtLine, source' = source, NEW x, made' = Append(made, x),
           x = IF IsGood(Line) THEN BuildRecord(file, Line.ok, Loaded.ok) ELSE Line,
           pc' = "built" => IsGood(Line)
    PROVE  FromLines'
  <1>0. PICK n : n = Len(outcomes)
    OBVIOUS
  <1>1. IsSeq(made) /\ n \in Nat /\ Len(made) = n /\ pc = "read"
    BY <1>0, OneMore DEF RowsInv, Counting, AtLine
  <1>2. /\ Len(made') = n + 1 /\ \A k \in 1 .. n : made'[k] = made[k]
        /\ made'[n + 1] = x
    BY <1>1, OneMore
  <1>3. (HeaderRefused' <=> HeaderRefused) /\ file' = file /\ Loaded' = Loaded
    BY DEF HeaderRefused, Format, file, Loaded
  <1>4. \A k : ReadLine(source.lines[k])' = ReadLine(source.lines[k])
    BY DEF ReadLine
  <1>5. MadeOf(n + 1)'
    BY <1>0, <1>2, <1>3, <1>4 DEF MadeOf, Line
  <1>6. \A k \in 1 .. n : MadeOf(k)'
    BY <1>1, <1>2, <1>3, <1>4 DEF MadeOf, FromLines
  <1>7. \A k \in 1 .. n + 1 : MadeOf(k)'
    <2>1. \A k \in 1 .. n + 1 : k \in 1 .. n \/ k = n + 1
      BY <1>1
    <2> QED BY <1>5, <1>6, <2>1
  <1>8. ~HeaderRefused'
    BY <1>3 DEF AtLine
  <1>9. pc' = "built" => IsGood(ReadLine(source.lines[n + 1]))'
    BY <1>0, <1>4 DEF Line
  <1> QED BY <1>2, <1>7, <1>8, <1>9 DEF FromLines

\* It does not change with a step that makes nothing.
LEMMA NoMoreMade ==
    ASSUME FromLines, UNCHANGED <<source, made>>, pc' = "built" => pc = "built"
    PROVE  FromLines'
  <1>1. (HeaderRefused' <=> HeaderRefused) /\ file' = file /\ Loaded' = Loaded
    BY DEF HeaderRefused, Format, file, Loaded
  <1>2. \A k : ReadLine(source.lines[k])' = ReadLine(source.lines[k])
    BY DEF ReadLine
  <1>3. \A k \in 1 .. Len(made) : MadeOf(k)'
    BY <1>1, <1>2 DEF MadeOf, FromLines
  <1> QED BY <1>1, <1>2, <1>3 DEF FromLines

\* The record in hand is the row's, at every step.
THEOREM RowsFromLines == Spec => []FromLines
  <1>1. Init => FromLines
    <2> SUFFICES ASSUME Init PROVE FromLines
      OBVIOUS
    <2>1. made = << >> /\ Len(made) = 0 /\ pc = "load"
      BY DEF Init
    <2> QED BY <2>1 DEF FromLines
  <1>2. RowsInv /\ FromLines /\ [Next]_vars => FromLines'
    <2> SUFFICES ASSUME RowsInv, FromLines, [Next]_vars PROVE FromLines'
      OBVIOUS
    <2>1. CASE PassLine
      <3> DEFINE x == Line
      <3>1. /\ AtLine /\ source' = source /\ made' = Append(made, x) /\ pc' = pc
            /\ x = IF IsGood(Line) THEN BuildRecord(file, Line.ok, Loaded.ok) ELSE Line
        BY <2>1 DEF PassLine
      <3>2. pc' # "built"
        BY <3>1 DEF AtLine
      <3> HIDE DEF x
      <3> QED BY <3>1, <3>2, OneMoreMade
    <2>2. CASE BuildRow
      <3> DEFINE x == BuildRecord(file, Row, Loaded.ok)
      <3>1. /\ AtLine /\ source' = source /\ made' = Append(made, x) /\ IsGood(Line)
            /\ x = IF IsGood(Line) THEN BuildRecord(file, Line.ok, Loaded.ok) ELSE Line
        BY <2>2 DEF BuildRow, Row
      <3> HIDE DEF x
      <3> QED BY <3>1, OneMoreMade
    <2>3. CASE RefuseMapping \/ RefuseSidecar \/ RefuseHeader \/ StopAtRow
      <3>1. UNCHANGED <<source, made>> /\ pc' \in {"refused", "raised"}
        BY <2>3 DEF RefuseMapping, RefuseSidecar, RefuseHeader, StopAtRow, Stop
      <3> QED BY <3>1, NoMoreMade
    <2>4. CASE Start \/ FailRow \/ RedactRow \/ Finish
      <3>1. UNCHANGED <<source, made>> /\ pc' \in {"read", "done"}
        BY <2>4 DEF Start, FailRow, RedactRow, Finish
      <3> QED BY <3>1, NoMoreMade
    <2>5. CASE UNCHANGED vars
      BY <2>5, NoMoreMade DEF vars
    <2> QED BY <2>1, <2>2, <2>3, <2>4, <2>5 DEF Next
  <1> QED BY <1>1, <1>2, RowsInvariant, PTL DEF Spec

\* A column left blank, a null and no column at all come to the same record, or
\* to the same failure, however many fields the mapping reads the column for, by
\* whatever path and extractor, and whether or not the sidecar is joined on it.
THEOREM RowsAbsentIsAbsent == Spec => []AbsentIsAbsent
  <1>1. RowsInv /\ FromLines => AbsentIsAbsent
    <2> DEFINE n == Len(made)
               read == ReadLine(source.lines[n])
               row == read.ok.dict
    <2> SUFFICES ASSUME RowsInv, FromLines, pc = "built", ~RowIsVerdicts, NEW c \in DOMAIN row,
                        row[c] = Null \/ (Is(row[c], "str") /\ Blank(row[c].str))
                 PROVE  Built = BuildRecord(file, [dict |-> Restrict(row, DOMAIN row \ {c})], Loaded.ok)
      BY DEF AbsentIsAbsent
    <2> DEFINE other == [dict |-> Restrict(row, DOMAIN row \ {c})]
    <2>1. /\ source \in Sources /\ Usable /\ IsSeq(made) /\ IsGood(read)
          /\ n \in 1 .. Len(source.lines) /\ n \in 1 .. n /\ Built = made[n]
      <3>1. Len(outcomes) \in Nat /\ Len(source.lines) \in Nat /\ IsSeq(made)
        BY OneMore, LinesAre DEF RowsInv, Given, Counting
      <3>2. n = Len(outcomes) + 1 /\ Len(outcomes) < Len(source.lines)
        BY DEF RowsInv, Counting
      <3>3. Built = made[n]
        BY DEF Built, Last
      <3> QED BY <3>1, <3>2, <3>3 DEF RowsInv, Given, FromLines
    <2>2. Is(read.ok, "dict")
      <3>1. source.lines[n] \in ToSet(source.lines)
        BY <2>1, LinesAre
      <3> QED BY <2>1, <3>1, RowIsDict
    <2>3. Built = BuildRecord(file, read.ok, Loaded.ok)
      BY <2>1 DEF FromLines, MadeOf
    <2>4. RowsAlike(read.ok, other)
      <3>1. Is(other, "dict") /\ other.dict = [x \in DOMAIN row \ {c} |-> row[x]]
        BY DEF Is, Restrict
      <3>2. Absent(row[c]) /\ Absent(Missing)
        BY DEF Absent, Null, Missing, Is
      <3> HIDE DEF other, row
      <3>3. ASSUME NEW d PROVE Alike(Follow(read.ok, d), Follow(other, d))
        <4>1. Follow(read.ok, d) = IF d \in DOMAIN row THEN row[d] ELSE Missing
          BY <2>2 DEF Follow, Is, row
        <4>2. Follow(other, d) = IF d \in DOMAIN other.dict THEN other.dict[d] ELSE Missing
          BY <3>1 DEF Follow, Is
        <4>3. Follow(other, d) = IF d \in DOMAIN row \ {c} THEN row[d] ELSE Missing
          BY <3>1, <4>2
        <4> QED BY <3>2, <4>1, <4>3 DEF Alike
      <3> QED BY <2>2, <3>1, <3>3 DEF RowsAlike
    <2>5. MappingFit(file)
      BY <2>1, UsableIs
    <2>6. NoRowVerdicts(file)
      BY DEF RowIsVerdicts, NoRowVerdicts
    <2>7. \A i \in DOMAIN file.fields : FieldSpec(file.fields[i]).path \in Seq(STRING)
      BY <2>1, SourcesAssumption DEF file
    <2> HIDE DEF read, other
    <2>8. BuildRecord(file, read.ok, Loaded.ok) = BuildRecord(file, other, Loaded.ok)
      BY <2>4, <2>5, <2>6, <2>7, BuildAlike
    <2> QED BY <2>3, <2>8 DEF other
  <1> QED BY <1>1, RowsInvariant, RowsFromLines, PTL

----------------------------------------------------------------------------
(***************************************************************************)
(* What a coercion makes of a value is the one meaning the value has, and  *)
(* it fails when there is none.                                            *)
(***************************************************************************)

\* A result against the meanings its value can have.
Tells(x, meanings) ==
    /\ Typed(x)
    /\ IsGood(x) => meanings = {x.ok}
    /\ ~IsGood(x) /\ x.bad \in RecordErrors => meanings = {}

\* Results that tell no or one meaning.
LEMMA TellsIs ==
    /\ \A y : Tells(Good(y), {y})
    /\ \A e : Tells(Bad(e), {})
    /\ \A e, S : e \notin RecordErrors => Tells(Bad(e), S)
  BY GoodOrBad DEF Tells

\* The word of a blank text, and of a text of one word.
LEMMA WordOf ==
    /\ \A t : Blank(t) => Word(t) = "several"
    /\ \A w : w \notin Space => Word(<<w>>) = w
  <1>1. ASSUME NEW t, Blank(t) PROVE Word(t) = "several"
    <2>1. {i \in DOMAIN t : t[i] \notin Space} = {}
      BY <1>1 DEF Blank, ToSet
    <2>2. Cardinality({}) # 1
      BY FS_EmptySet
    <2> QED BY <2>1, <2>2 DEF Word
  <1>2. ASSUME NEW w, w \notin Space PROVE Word(<<w>>) = w
    <2> DEFINE t == <<w>>
               at == {i \in DOMAIN t : t[i] \notin Space}
    <2>1. DOMAIN t = {1} /\ t[1] = w
      OBVIOUS
    <2> HIDE DEF t
    <2>2. at = {1}
      BY <1>2, <2>1
    <2>3. Cardinality(at) = 1
      BY <2>2, FS_Singleton
    <2>4. (CHOOSE i \in at : TRUE) = 1
      BY <2>2
    <2>5. Word(t) = t[1]
      BY <2>3, <2>4 DEF Word
    <2> QED BY <2>1, <2>5 DEF t
  <1> QED BY <1>1, <1>2

\* The number a float is.
WholeOf(f) == IF Is(f, "whole") THEN {f.whole} ELSE {}

\* int() of a float that is no fraction.
LEMMA WholeTells ==
    ASSUME NEW f
    PROVE  Tells(Whole(f), WholeOf(f))
  <1>1. "OverflowError" \notin RecordErrors /\ "ValueError" \notin RecordErrors
    BY DEF RecordErrors
  <1>2. CASE Is(f, "whole")
    <2>1. Whole(f) = Good(f.whole) /\ WholeOf(f) = {f.whole}
      BY <1>2 DEF Whole, WholeOf, Is
    <2> QED BY <2>1, TellsIs
  <1>3. CASE ~Is(f, "whole")
    <2>1. WholeOf(f) = {}
      BY <1>3 DEF WholeOf
    <2>2. Whole(f) \in {Bad("FieldTypeError"), Bad("OverflowError"), Bad("ValueError")}
      BY <1>3 DEF Whole
    <2> QED BY <2>1, <2>2, TellsIs
  <1> QED BY <1>2, <1>3

\* The number a word is a spelling of, if it is one.
NumeralOf(w) ==
    {IntOf[x] : x \in {w} \cap DOMAIN IntOf}
      \cup {FloatOf[x].whole : x \in {y \in {w} \cap (DOMAIN FloatOf \ DOMAIN IntOf) :
                                          Is(FloatOf[y], "whole")}}

\* int(), of a word.
LEMMA NumeralTells ==
    ASSUME NEW w
    PROVE  Tells(CoerceNumeral(w), NumeralOf(w))
  <1>1. CASE w \in DOMAIN IntOf
    <2>1. CoerceNumeral(w) = Good(IntOf[w]) /\ NumeralOf(w) = {IntOf[w]}
      BY <1>1 DEF CoerceNumeral, NumeralOf
    <2> QED BY <2>1, TellsIs
  <1>2. CASE w \notin DOMAIN IntOf /\ w \in DOMAIN FloatOf
    <2> DEFINE f == FloatOf[w]
    <2>1. NumeralOf(w) = WholeOf(f)
      BY <1>2 DEF NumeralOf, WholeOf
    <2>2. CASE Is(f, "nan")
      <3>1. CoerceNumeral(w) = Bad("FieldTypeError") /\ WholeOf(f) = {}
        BY <1>2, <2>2 DEF CoerceNumeral, WholeOf, Is
      <3> QED BY <2>1, <3>1, TellsIs
    <2>3. CASE ~Is(f, "nan")
      <3>1. CoerceNumeral(w) = Whole(f)
        BY <1>2, <2>3 DEF CoerceNumeral
      <3> QED BY <2>1, <3>1, WholeTells
    <2> QED BY <2>2, <2>3
  <1>3. CASE w \notin DOMAIN IntOf /\ w \notin DOMAIN FloatOf
    <2>1. CoerceNumeral(w) = Bad("FieldTypeError") /\ NumeralOf(w) = {}
      BY <1>3 DEF CoerceNumeral, NumeralOf
    <2> QED BY <2>1, TellsIs
  <1> QED BY <1>1, <1>2, <1>3

\* A blank is no number and no instant.
LEMMA SeveralIs ==
    /\ "several" \notin DOMAIN IntOf /\ NumeralOf("several") = {}
    /\ "several" \notin Digits /\ "several" \notin DOMAIN InstantOf
  BY WordsAssumption DEF NumeralOf

\* A count.
LEMMA IntTells ==
    ASSUME NEW v
    PROVE  Tells(CoerceInt(v), NumberOf(v))
  <1>1. CASE Is(v, "null")
    <2>1. CoerceInt(v) = Bad("MissingFieldError") /\ NumberOf(v) = {}
      BY <1>1 DEF CoerceInt, NumberOf, Is
    <2> QED BY <2>1, TellsIs
  <1>2. CASE Is(v, "int")
    <2>1. CoerceInt(v) = Good(v.int) /\ NumberOf(v) = {v.int}
      BY <1>2 DEF CoerceInt, NumberOf, Is
    <2> QED BY <2>1, TellsIs
  <1>3. CASE Is(v, "float")
    <2>1. CoerceInt(v) = Whole(v.float) /\ NumberOf(v) = WholeOf(v.float)
      BY <1>3 DEF CoerceInt, NumberOf, WholeOf, Is
    <2> QED BY <2>1, WholeTells
  <1>4. CASE Is(v, "str")
    <2>1. CoerceInt(v) = IF Blank(v.str) THEN Bad("MissingFieldError") ELSE CoerceNumeral(Word(v.str))
      BY <1>4 DEF CoerceInt, Is
    <2>2. NumberOf(v) = NumeralOf(Word(v.str))
      BY <1>4 DEF NumberOf, NumeralOf, Is
    <2>3. CASE Blank(v.str)
      <3>1. NumberOf(v) = {}
        BY <2>2, <2>3, WordOf, SeveralIs
      <3> QED BY <2>1, <2>3, <3>1, TellsIs
    <2>4. CASE ~Blank(v.str)
      BY <2>1, <2>2, <2>4, NumeralTells
    <2> QED BY <2>3, <2>4
  <1>5. CASE ~Is(v, "null") /\ ~Is(v, "int") /\ ~Is(v, "float") /\ ~Is(v, "str")
    <2>1. CoerceInt(v) = Bad("FieldTypeError") /\ NumberOf(v) = {}
      BY <1>5 DEF CoerceInt, NumberOf
    <2> QED BY <2>1, TellsIs
  <1> QED BY <1>1, <1>2, <1>3, <1>4, <1>5

\* The instants some numbers are epochs of, in seconds or in milliseconds.
SecondsOf(epochs) ==
    {e \in epochs : e \in 0 .. Threshold - 1}
      \cup {e \div PerSecond : e \in {n \in epochs : n >= Threshold /\
                                          n \div PerSecond \in 0 .. LastSecond}}

\* An epoch has one unit.
LEMMA EpochTells ==
    ASSUME NEW n \in Int
    PROVE  Tells(FromEpoch(n), SecondsOf({n}))
  <1>1. Threshold \in Int /\ LastSecond \in Int /\ 1 <= Threshold /\ Threshold <= LastSecond
    BY EpochAssumption
  <1>2. CASE n >= Threshold
    <2>1. n \notin 0 .. Threshold - 1
      BY <1>1, <1>2
    <2>2. FromEpoch(n) = IF n \div PerSecond \in 0 .. LastSecond THEN Good(n \div PerSecond)
                         ELSE Bad("TimestampError")
      BY <1>2 DEF FromEpoch
    <2>3. SecondsOf({n}) = IF n \div PerSecond \in 0 .. LastSecond THEN {n \div PerSecond} ELSE {}
      BY <1>2, <2>1 DEF SecondsOf
    <2> QED BY <2>2, <2>3, TellsIs
  <1>3. CASE ~(n >= Threshold)
    <2>1. n \in 0 .. Threshold - 1 <=> n \in 0 .. LastSecond
      BY <1>1, <1>3
    <2>2. FromEpoch(n) = IF n \in 0 .. LastSecond THEN Good(n) ELSE Bad("TimestampError")
      BY <1>3 DEF FromEpoch
    <2>3. SecondsOf({n}) = IF n \in 0 .. LastSecond THEN {n} ELSE {}
      BY <1>3, <2>1 DEF SecondsOf
    <2> QED BY <2>2, <2>3, TellsIs
  <1> QED BY <1>2, <1>3

\* An instant, off an epoch or a text.
LEMMA InstantTells ==
    ASSUME NEW v, Legible(v)
    PROVE  Tells(CoerceTimestamp(v, file.naive), InstantsOf(v))
  <1> DEFINE x == CoerceTimestamp(v, file.naive)
  <1>0. "OverflowError" \notin RecordErrors /\ "ValueError" \notin RecordErrors
    BY DEF RecordErrors
  <1>1. \A E : SecondsOf(E) =
                 {e \in E : e \in 0 .. Threshold - 1}
                   \cup {e \div PerSecond : e \in {n \in E : n >= Threshold /\
                                                       n \div PerSecond \in 0 .. LastSecond}}
    BY DEF SecondsOf
  <1>2. SecondsOf({}) = {}
    BY DEF SecondsOf
  <1>3. CASE ~Is(v, "str")
    <2> DEFINE E == NumberOf(v) \cup
                      (IF Is(v, "float") /\ Is(v.float, "fraction") THEN {v.float.fraction} ELSE {})
    <2>1. InstantsOf(v) = SecondsOf(E)
      BY <1>3 DEF InstantsOf, SecondsOf
    <2>2. CASE Is(v, "int")
      <3>1. E = {v.int} /\ x = FromEpoch(v.int) /\ v.int \in Int
        BY <2>2 DEF NumberOf, CoerceTimestamp, Is, Legible
      <3> QED BY <2>1, <3>1, EpochTells
    <2>3. CASE Is(v, "float")
      <3> DEFINE f == v.float
      <3>1. /\ x = FloatEpoch(f) /\ IsFloat(f)
            /\ E = WholeOf(f) \cup (IF Is(f, "fraction") THEN {f.fraction} ELSE {})
        BY <2>3 DEF NumberOf, CoerceTimestamp, Is, Legible, WholeOf
      <3> HIDE DEF x, E, f
      <3>2. CASE Is(f, "whole")
        <4>1. E = {f.whole} /\ x = FromEpoch(f.whole) /\ f.whole \in Int
          BY <3>1, <3>2 DEF WholeOf, FloatEpoch, Is, IsFloat
        <4> QED BY <2>1, <4>1, EpochTells DEF x
      <3>3. CASE Is(f, "fraction")
        <4>1. E = {f.fraction} /\ x = FromEpoch(f.fraction) /\ f.fraction \in Int
          BY <3>1, <3>3 DEF WholeOf, FloatEpoch, Is, IsFloat
        <4> QED BY <2>1, <4>1, EpochTells DEF x
      <3>4. CASE ~Is(f, "whole") /\ ~Is(f, "fraction")
        <4>1. E = {} /\ x = Bad("TimestampError")
          BY <3>1, <3>4 DEF WholeOf, FloatEpoch
        <4> QED BY <1>2, <2>1, <4>1, TellsIs DEF x
      <3> QED BY <3>2, <3>3, <3>4
    <2>4. CASE ~Is(v, "int") /\ ~Is(v, "float")
      <3>1. E = {} /\ (x = Bad("MissingFieldError") \/ x = Bad("TimestampError"))
        <4>1. NumberOf(v) = {}
          BY <1>3, <2>4 DEF NumberOf
        <4>2. x = Bad("MissingFieldError") \/ x = Bad("TimestampError")
          BY <1>3, <2>4 DEF CoerceTimestamp
        <4> QED BY <2>4, <4>1, <4>2
      <3> QED BY <1>2, <2>1, <3>1, TellsIs
    <2> QED BY <2>2, <2>3, <2>4
  <1>4. CASE Is(v, "str")
    <2> DEFINE word == Word(v.str)
               spelled == IF word \in DOMAIN InstantOf THEN {InstantOf[word]} ELSE {}
    <2>1. x = CoerceMoment(v.str, file.naive)
      BY <1>4 DEF CoerceTimestamp, Is
    <2>2. InstantsOf(v) =
            IF word \notin Digits
            THEN {m.second.int : m \in {n \in spelled : (n.zoned \/ file.naive) /\ Is(n.second, "int")}}
            ELSE SecondsOf(NumberOf(v))
      <3>1. ~Is(v, "float")
        BY <1>4 DEF Is
      <3> QED BY <1>4, <3>1 DEF InstantsOf, SecondsOf
    <2>3. NumberOf(v) = NumeralOf(word)
      BY <1>4 DEF NumberOf, NumeralOf, Is
    <2>4. CASE Blank(v.str)
      <3>1. word = "several"
        BY <2>4, WordOf
      <3>2. InstantsOf(v) = {}
        BY <2>2, <3>1, SeveralIs
      <3>3. x = Bad("MissingFieldError")
        BY <2>1, <2>4 DEF CoerceMoment
      <3> QED BY <3>2, <3>3, TellsIs
    <2>5. CASE ~Blank(v.str) /\ word \in Digits
      <3>1. x = IF word \in DOMAIN IntOf THEN FromEpoch(IntOf[word]) ELSE Bad("ValueError")
        <4>1. word \notin DOMAIN InstantOf
          BY <2>5, WordsAssumption
        <4> QED BY <2>1, <2>5, <4>1 DEF CoerceMoment
      <3>2. CASE word \in DOMAIN IntOf
        <4>1. NumeralOf(word) = {IntOf[word]} /\ IntOf[word] \in Int
          BY <3>2, WordsAssumption DEF NumeralOf
        <4> QED BY <2>2, <2>3, <2>5, <3>1, <3>2, <4>1, EpochTells
      <3>3. CASE word \notin DOMAIN IntOf
        BY <1>0, <3>1, <3>3, TellsIs
      <3> QED BY <3>2, <3>3
    <2>6. CASE ~Blank(v.str) /\ word \notin Digits /\ word \in DOMAIN InstantOf
      <3> DEFINE m == InstantOf[word]
      <3>1. x = FromIso(m, file.naive)
        BY <2>1, <2>6 DEF CoerceMoment
      <3>2. InstantsOf(v) = IF (m.zoned \/ file.naive) /\ Is(m.second, "int") THEN {m.second.int} ELSE {}
        BY <2>2, <2>6
      <3>3. Is(m.second, "int") \/ Is(m.second, "beyond")
        BY <2>6, ReadersAssumption
      <3> HIDE DEF m, x
      <3>4. CASE ~m.zoned /\ ~file.naive
        <4>1. x = Bad("TimestampError")
          BY <3>1, <3>4 DEF FromIso
        <4> QED BY <3>2, <3>4, <4>1, TellsIs DEF x
      <3>5. CASE (m.zoned \/ file.naive) /\ Is(m.second, "beyond")
        <4>1. x = Bad("OverflowError")
          BY <3>1, <3>5 DEF FromIso
        <4> QED BY <1>0, <4>1, TellsIs DEF x
      <3>6. CASE (m.zoned \/ file.naive) /\ Is(m.second, "int")
        <4>1. x = Good(m.second.int)
          BY <3>1, <3>6 DEF FromIso, Is
        <4> QED BY <3>2, <3>6, <4>1, TellsIs DEF x
      <3> QED BY <3>3, <3>4, <3>5, <3>6
    <2>7. CASE ~Blank(v.str) /\ word \notin Digits /\ word \notin DOMAIN InstantOf
      <3>1. x = Bad("TimestampError")
        BY <2>1, <2>7 DEF CoerceMoment
      <3>2. InstantsOf(v) = {}
        BY <2>2, <2>7
      <3> QED BY <3>1, <3>2, TellsIs
    <2> QED BY <2>4, <2>5, <2>6, <2>7
  <1> QED BY <1>3, <1>4

\* A text, or a number where a text may be one.
LEMMA TextTells ==
    ASSUME NEW v, NEW f
    PROVE  Tells(CoerceText(v, f = "record_id"),
                 IF Is(v, "str") THEN {v.str}
                 ELSE IF f = "record_id" /\ Is(v, "int") THEN {<<ToString(v.int)>>} ELSE {})
  <1> DEFINE x == CoerceText(v, f = "record_id")
  <1>1. CASE Is(v, "str")
    <2>1. x = Good(v.str)
      BY <1>1 DEF CoerceText, Is
    <2> QED BY <1>1, <2>1, TellsIs
  <1>2. CASE Is(v, "int") /\ f = "record_id"
    <2>1. x = Good(<<ToString(v.int)>>) /\ ~Is(v, "str")
      BY <1>2 DEF CoerceText, Is
    <2> QED BY <1>2, <2>1, TellsIs
  <1>3. CASE ~Is(v, "str") /\ ~(Is(v, "int") /\ f = "record_id")
    <2>1. x = Bad("MissingFieldError") \/ x = Bad("FieldTypeError")
      BY <1>3 DEF CoerceText
    <2> QED BY <1>3, <2>1, TellsIs
  <1> QED BY <1>1, <1>2, <1>3

\* A verdict's answer.
LEMMA BoolTells ==
    ASSUME NEW v, Legible(v)
    PROVE  /\ IsGood(CoerceBool(v)) => CoerceBool(v).ok \in BOOLEAN /\ TruthOf(v) = {CoerceBool(v).ok}
           /\ ~IsGood(CoerceBool(v)) => TruthOf(v) = {}
  <1> DEFINE x == CoerceBool(v)
  <1>1. \A b : IsGood(Good(b)) /\ Good(b).ok = b
    BY GoodOrBad
  <1>2. \A e : ~IsGood(Bad(e))
    BY GoodOrBad
  <1>3. CASE Is(v, "bool")
    <2>1. x = Good(v.bool) /\ TruthOf(v) = {v.bool} /\ v.bool \in BOOLEAN
      BY <1>3 DEF CoerceBool, TruthOf, Is, Legible
    <2> QED BY <1>1, <2>1
  <1>4. CASE Is(v, "int")
    <2>1. TruthOf(v) = {b \in BOOLEAN : v.int = IF b THEN 1 ELSE 0}
      BY <1>4 DEF TruthOf, Is
    <2> DEFINE one == v.int = 1
    <2>2. /\ TRUE \in TruthOf(v) <=> one
          /\ FALSE \in TruthOf(v) <=> v.int = 0
          /\ \A b \in TruthOf(v) : b = TRUE \/ b = FALSE
      BY <2>1
    <2>3. CASE v.int \in {0, 1}
      <3>1. x = Good(one)
        BY <1>4, <2>3 DEF CoerceBool, Is
      <3>2. one \in BOOLEAN /\ (one \/ v.int = 0) /\ ~(one /\ v.int = 0)
        BY <2>3
      <3> HIDE DEF one
      <3>3. CASE one
        <4>1. TruthOf(v) = {TRUE}
          BY <2>2, <3>2, <3>3
        <4>2. one = TRUE
          BY <3>3, Zenon
        <4> QED BY <1>1, <3>1, <4>1, <4>2
      <3>4. CASE ~one
        <4>1. TruthOf(v) = {FALSE}
          BY <2>2, <3>2, <3>4
        <4>2. one = FALSE
          BY <3>2, <3>4
        <4> QED BY <1>1, <3>1, <4>1, <4>2
      <3> QED BY <3>3, <3>4
    <2>4. CASE v.int \notin {0, 1}
      <3>1. x = Bad("FieldTypeError")
        BY <1>4, <2>4 DEF CoerceBool, Is
      <3>2. TruthOf(v) = {}
        BY <2>2, <2>4
      <3> QED BY <1>2, <3>1, <3>2
    <2> QED BY <2>3, <2>4
  <1>5. CASE Is(v, "str")
    <2> DEFINE w == Word(v.str)
    <2>1. TruthOf(v) = {b \in BOOLEAN : w \in IF b THEN TrueWords ELSE FalseWords}
      BY <1>5 DEF TruthOf, Is
    <2>2. ~(w \in TrueWords /\ w \in FalseWords)
      BY WordsAssumption
    <2>3. x = IF w \in TrueWords THEN Good(TRUE) ELSE IF w \in FalseWords THEN Good(FALSE)
              ELSE Bad("FieldTypeError")
      <3>1. ~Is(v, "null") /\ ~Is(v, "bool") /\ ~Is(v, "int")
        BY <1>5 DEF Is
      <3> HIDE DEF w
      <3> QED BY <1>5, <2>2, <3>1 DEF CoerceBool, w
    <2> HIDE DEF x, w
    <2>4. CASE w \in TrueWords
      <3>1. TruthOf(v) = {TRUE} /\ x = Good(TRUE)
        BY <2>1, <2>2, <2>3, <2>4
      <3> QED BY <1>1, <3>1 DEF x
    <2>5. CASE w \notin TrueWords /\ w \in FalseWords
      <3>1. TruthOf(v) = {FALSE} /\ x = Good(FALSE)
        BY <2>1, <2>2, <2>3, <2>5
      <3> QED BY <1>1, <3>1 DEF x
    <2>6. CASE w \notin TrueWords /\ w \notin FalseWords
      <3>1. TruthOf(v) = {} /\ x = Bad("FieldTypeError")
        BY <2>1, <2>3, <2>6
      <3> QED BY <1>2, <3>1 DEF x
    <2> QED BY <2>4, <2>5, <2>6
  <1>6. CASE ~Is(v, "bool") /\ ~Is(v, "int") /\ ~Is(v, "str")
    <2>1. TruthOf(v) = {}
      BY <1>6 DEF TruthOf
    <2>2. x = Bad("MissingFieldError") \/ x = Bad("FieldTypeError")
      BY <1>6 DEF CoerceBool
    <2> QED BY <1>2, <2>1, <2>2
  <1> QED BY <1>3, <1>4, <1>5, <1>6

\* A result against the pair it was made of.
TellsVerdict(x, pair) ==
    /\ Typed(x)
    /\ IsGood(x) <=> IsVerdict(pair)
    /\ IsGood(x) => \E b \in BOOLEAN : /\ TruthOf(pair[2]) = {b}
                                       /\ x.ok = [criterion |-> pair[1].str, passed |-> b]

\* One verdict.
LEMMA VerdictTells ==
    ASSUME NEW c, Legible(c), NEW p, Legible(p)
    PROVE  TellsVerdict(Verdict(c, p), <<c, p>>)
  <1> DEFINE x == Verdict(c, p)
             text == CoerceText(c, FALSE)
             flag == CoerceBool(p)
             pair == <<c, p>>
  <1>1. pair[1] = c /\ pair[2] = p
    OBVIOUS
  <1>2. /\ IsGood(flag) => flag.ok \in BOOLEAN /\ TruthOf(p) = {flag.ok}
        /\ ~IsGood(flag) => TruthOf(p) = {}
    BY BoolTells
  <1>3. CASE ~Is(c, "str")
    <2>1. text = Bad("MissingFieldError") \/ text = Bad("FieldTypeError")
      BY <1>3 DEF CoerceText
    <2>2. x = text
      BY <2>1, GoodOrBad DEF Verdict
    <2>3. ~IsGood(x) /\ Typed(x)
      BY <2>1, <2>2, GoodOrBad
    <2>4. ~IsVerdict(pair)
      BY <1>1, <1>3 DEF IsVerdict
    <2> QED BY <2>3, <2>4 DEF TellsVerdict
  <1>4. CASE Is(c, "str")
    <2>1. text = Good(c.str)
      BY <1>4 DEF CoerceText, Is
    <2>2. IsGood(text) /\ text.ok = c.str
      BY <2>1, GoodOrBad
    <2> HIDE DEF text
    <2>3. x = IF ~IsGood(flag) THEN flag
              ELSE IF Blank(c.str) THEN Bad("MissingFieldError")
              ELSE Good([criterion |-> c.str, passed |-> flag.ok])
      BY <2>2 DEF Verdict, text
    <2>4. Typed(flag)
      BY CoerceBoolIs
    <2>5. IsVerdict(pair) <=> ~Blank(c.str) /\ TruthOf(p) # {}
      BY <1>1, <1>4 DEF IsVerdict
    <2> HIDE DEF flag, x, pair
    <2>6. CASE ~IsGood(flag)
      BY <1>2, <2>3, <2>4, <2>5, <2>6 DEF TellsVerdict, x, pair
    <2>7. CASE IsGood(flag) /\ Blank(c.str)
      BY <2>3, <2>5, <2>7, GoodOrBad DEF TellsVerdict, x, pair
    <2>8. CASE IsGood(flag) /\ ~Blank(c.str)
      <3>1. IsGood(x) /\ Typed(x) /\ x.ok = [criterion |-> c.str, passed |-> flag.ok]
        BY <2>3, <2>8, GoodOrBad
      <3>2. IsVerdict(pair)
        BY <1>2, <2>5, <2>8
      <3>3. \E b \in BOOLEAN : TruthOf(pair[2]) = {b} /\ x.ok = [criterion |-> pair[1].str, passed |-> b]
        BY <1>1, <1>2, <2>8, <3>1
      <3> QED BY <3>1, <3>2, <3>3 DEF TellsVerdict, x, pair
    <2> QED BY <2>6, <2>7, <2>8
  <1> QED BY <1>3, <1>4

\* The verdicts some pairs are.
VerdictsOf(pairs) ==
    {[criterion |-> x[1][1].str, passed |-> x[2]] :
        x \in {y \in pairs \X BOOLEAN : y[2] \in TruthOf(y[1][2])}}

\* Verdicts that tell some pairs.
TellsAll(x, pairs, n) ==
    /\ Typed(x)
    /\ IsGood(x) <=> \A i \in 1 .. n : IsVerdict(pairs[i])
    /\ IsGood(x) =>
         /\ VerdictsOf({pairs[i] : i \in 1 .. n}) = ToSet(x.ok)
         /\ DOMAIN x.ok = 1 .. n
         /\ \A i \in 1 .. n : x.ok[i].criterion = pairs[i][1].str

\* All of them, or none.
LEMMA VerdictsTell ==
    ASSUME NEW n \in Nat, NEW results, DOMAIN results = 1 .. n, NEW pairs,
           \A i \in 1 .. n : TellsVerdict(results[i], pairs[i])
    PROVE  TellsAll(Gathered(results), pairs, n)
  <1> DEFINE x == Gathered(results)
             all == {pairs[i] : i \in 1 .. n}
  <1>1. /\ Typed(x)
        /\ IsGood(x) => /\ DOMAIN x.ok = 1 .. n
                        /\ \A i \in 1 .. n : IsGood(results[i]) /\ x.ok[i] = results[i].ok
    BY GatheredIs DEF TellsVerdict
  <1>2. (\A i \in 1 .. n : IsGood(results[i])) => IsGood(x)
    <2> SUFFICES ASSUME \A i \in 1 .. n : IsGood(results[i]) PROVE IsGood(x)
      OBVIOUS
    <2>1. {i \in DOMAIN results : ~IsGood(results[i])} = {}
      OBVIOUS
    <2> QED BY <2>1, GoodOrBad DEF Gathered
  <1> HIDE DEF x
  <1>3. IsGood(x) <=> \A i \in 1 .. n : IsVerdict(pairs[i])
    BY <1>1, <1>2 DEF TellsVerdict
  <1>4. ASSUME IsGood(x)
        PROVE  /\ VerdictsOf(all) = ToSet(x.ok)
               /\ \A i \in 1 .. n : x.ok[i].criterion = pairs[i][1].str
    <2>1. \A i \in 1 .. n : \E b \in BOOLEAN :
            TruthOf(pairs[i][2]) = {b} /\ x.ok[i] = [criterion |-> pairs[i][1].str, passed |-> b]
      BY <1>1, <1>4 DEF TellsVerdict
    <2>2. ToSet(x.ok) = {x.ok[i] : i \in 1 .. n}
      BY <1>1, <1>4 DEF ToSet
    <2>3. ASSUME NEW i \in 1 .. n PROVE x.ok[i] \in VerdictsOf(all)
      <3>1. PICK b \in BOOLEAN :
              TruthOf(pairs[i][2]) = {b} /\ x.ok[i] = [criterion |-> pairs[i][1].str, passed |-> b]
        BY <2>1
      <3> DEFINE y == <<pairs[i], b>>
      <3>2. y \in all \X BOOLEAN /\ y[1] = pairs[i] /\ y[2] = b
        OBVIOUS
      <3>3. y[2] \in TruthOf(y[1][2])
        BY <3>1, <3>2
      <3>4. x.ok[i] = [criterion |-> y[1][1].str, passed |-> y[2]]
        BY <3>1, <3>2
      <3> HIDE DEF y
      <3> QED BY <3>2, <3>3, <3>4 DEF VerdictsOf
    <2>4. ASSUME NEW z \in VerdictsOf(all) PROVE z \in ToSet(x.ok)
      <3>1. PICK y \in all \X BOOLEAN : /\ y[2] \in TruthOf(y[1][2])
                                        /\ z = [criterion |-> y[1][1].str, passed |-> y[2]]
        BY <2>4 DEF VerdictsOf
      <3>2. PICK i \in 1 .. n : y[1] = pairs[i]
        BY <3>1
      <3>3. PICK b \in BOOLEAN :
              TruthOf(pairs[i][2]) = {b} /\ x.ok[i] = [criterion |-> pairs[i][1].str, passed |-> b]
        BY <2>1
      <3>4. z = x.ok[i]
        BY <3>1, <3>2, <3>3
      <3> QED BY <2>2, <3>4
    <2>5. ToSet(x.ok) \subseteq VerdictsOf(all) /\ VerdictsOf(all) \subseteq ToSet(x.ok)
      BY <2>2, <2>3, <2>4
    <2>6. \A i \in 1 .. n : x.ok[i].criterion = pairs[i][1].str
      <3> TAKE i \in 1 .. n
      <3>1. PICK b \in BOOLEAN : x.ok[i] = [criterion |-> pairs[i][1].str, passed |-> b]
        BY <2>1
      <3> QED BY <3>1
    <2> QED BY <2>5, <2>6
  <1> QED BY <1>1, <1>3, <1>4 DEF x, TellsAll

\* SetToSeq leaves no element out.
LEMMA SetToSeqAll ==
    ASSUME NEW S, IsFiniteSet(S)
    PROVE  /\ Len(SetToSeq(S)) \in Nat /\ DOMAIN SetToSeq(S) = 1 .. Len(SetToSeq(S))
           /\ S = {SetToSeq(S)[i] : i \in 1 .. Len(SetToSeq(S))}
  <1> DEFINE n == Cardinality(S)
             s == SetToSeq(S)
  <1>1. n \in Nat
    BY FS_CardinalityType
  <1>2. PICK b : b \in Bijection(1 .. n, S)
    BY FS_CardinalityType DEF ExistsBijection
  <1>3. IsFiniteSet(1 .. n) /\ Cardinality(1 .. n) = n
    BY <1>1, UpToFinite
  <1> HIDE DEF n
  <1>4. b \in [1 .. n -> S] /\ IsInjective(b)
    BY <1>2 DEF Bijection, Injection, IsInjective
  <1>5. s \in [1 .. n -> S] /\ IsInjective(s)
    BY <1>4 DEF SetToSeq, n
  <1> HIDE DEF s
  <1>6. s \in Injection(1 .. n, S)
    BY <1>5 DEF Injection, IsInjective
  <1>7. s \in Surjection(1 .. n, S)
    BY <1>3, <1>6, FS_Injection DEF n
  <1>8. Len(s) = n /\ DOMAIN s = 1 .. n
    BY <1>1, <1>5
  <1>9. S = {s[i] : i \in 1 .. n}
    BY <1>5, <1>7 DEF Surjection
  <1> QED BY <1>1, <1>8, <1>9 DEF s

\* One entry of a list of verdicts.
LEMMA EntryTells ==
    ASSUME NEW e \in Json, NEW keys
    PROVE  TellsVerdict(VerdictEntry(e, keys), <<Under(e, keys.criterion), Under(e, keys.passed)>>)
  <1> DEFINE x == VerdictEntry(e, keys)
             c == Under(e, keys.criterion)
             p == Under(e, keys.passed)
             pair == <<c, p>>
  <1>1. pair[1] = c /\ pair[2] = p
    OBVIOUS
  <1>2. ~Is(Missing, "str") /\ TruthOf(Missing) = {}
    BY DEF Missing, Is, TruthOf
  <1> HIDE DEF pair
  <1>3. ASSUME c = Missing \/ p = Missing PROVE ~IsVerdict(pair)
    BY <1>1, <1>2, <1>3 DEF IsVerdict
  <1>4. ASSUME x = Bad("FieldTypeError") \/ x = Bad("MissingFieldError"), ~IsVerdict(pair)
        PROVE  TellsVerdict(x, pair)
    BY <1>4, GoodOrBad DEF TellsVerdict
  <1>5. CASE ~Is(e, "dict")
    <2>1. c = Missing
      BY <1>5 DEF Under
    <2>2. x = Bad("FieldTypeError")
      BY <1>5 DEF VerdictEntry
    <2> QED BY <1>3, <1>4, <2>1, <2>2 DEF pair
  <1>6. CASE Is(e, "dict")
    <2>1. \A key : Under(e, key) = IF key \in DOMAIN e.dict THEN e.dict[key] ELSE Missing
      BY <1>6 DEF Under, Follow, Is
    <2>2. CASE ~({keys.criterion, keys.passed} \subseteq DOMAIN e.dict)
      <3>1. x = Bad("MissingFieldError")
        BY <1>6, <2>2 DEF VerdictEntry
      <3>2. c = Missing \/ p = Missing
        BY <2>1, <2>2
      <3> QED BY <1>3, <1>4, <3>1, <3>2 DEF pair
    <2>3. CASE {keys.criterion, keys.passed} \subseteq DOMAIN e.dict
      <3>1. c = e.dict[keys.criterion] /\ p = e.dict[keys.passed]
        BY <2>1, <2>3
      <3>2. x = Verdict(c, p)
        BY <1>6, <2>3, <3>1 DEF VerdictEntry
      <3>3. c \in Json /\ p \in Json
        BY <1>6, <2>3, <3>1, JsonAssumption
      <3>4. Legible(c) /\ Legible(p)
        BY <3>3, PlainlyLegible
      <3> HIDE DEF c, p, x
      <3>5. TellsVerdict(Verdict(c, p), <<c, p>>)
        BY <3>4, VerdictTells
      <3> QED BY <3>2, <3>5 DEF pair, c, p, x
    <2> QED BY <2>2, <2>3
  <1> QED BY <1>5, <1>6

\* A verdict column.
LEMMA ColumnTells ==
    ASSUME NEW v, Legible(v), NEW keys, keys = SpecFor("judge_verdicts")
    PROVE  /\ Typed(CoerceVerdicts(v, keys))
           /\ IsGood(CoerceVerdicts(v, keys)) =>
                /\ VerdictSets(v, keys) = {ToSet(CoerceVerdicts(v, keys).ok)}
                /\ DOMAIN CoerceVerdicts(v, keys).ok = DOMAIN CriteriaIn(v)
                /\ \A i \in DOMAIN CriteriaIn(v) :
                     CoerceVerdicts(v, keys).ok[i].criterion = CriteriaIn(v)[i]
           /\ ~IsGood(CoerceVerdicts(v, keys)) => VerdictSets(v, keys) = {}
  <1> DEFINE x == CoerceVerdicts(v, keys)
             all == PairsOf(v, keys)
  <1>1. VerdictSets(v, keys) =
          IF ~(Is(v, "list") \/ Is(v, "dict")) THEN {}
          ELSE IF \E pair \in all : ~IsVerdict(pair) THEN {} ELSE {VerdictsOf(all)}
    BY DEF VerdictSets, VerdictsOf
  <1>2. CASE ~(Is(v, "list") \/ Is(v, "dict"))
    <2>1. x = Bad("MissingFieldError") \/ x = Bad("FieldTypeError")
      BY <1>2 DEF CoerceVerdicts
    <2> QED BY <1>1, <1>2, <2>1, GoodOrBad
  <1>3. CASE Is(v, "list")
    <2> DEFINE n == Len(v.list)
               results == [i \in DOMAIN v.list |-> VerdictEntry(v.list[i], keys)]
               pairs == [i \in 1 .. n |-> <<Under(v.list[i], keys.criterion), Under(v.list[i], keys.passed)>>]
    <2>1. n \in Nat /\ DOMAIN v.list = 1 .. n /\ \A i \in 1 .. n : v.list[i] \in Json
      BY <1>3, LenProperties DEF Legible
    <2>2. x = Gathered(results)
      BY <1>3 DEF CoerceVerdicts, Is
    <2>3. DOMAIN results = 1 .. n /\ \A i \in 1 .. n : TellsVerdict(results[i], pairs[i])
      BY <2>1, EntryTells
    <2>4. all = {pairs[i] : i \in 1 .. n}
      <3>1. ~Is(v, "dict")
        BY <1>3 DEF Is
      <3>2. all = {<<Under(v.list[i], keys.criterion), Under(v.list[i], keys.passed)>> : i \in 1 .. n}
        BY <2>1, <3>1 DEF PairsOf
      <3> HIDE DEF all
      <3> QED BY <3>2
    <2>5. \A i \in 1 .. n : pairs[i][1] = Under(v.list[i], keys.criterion)
      OBVIOUS
    <2> HIDE DEF results, pairs, all, x, n
    <2>6. TellsAll(Gathered(results), pairs, n)
      <3>1. n \in Nat
        BY <2>1
      <3>2. DOMAIN results = 1 .. n
        BY <2>3
      <3>3. \A i \in 1 .. n : TellsVerdict(results[i], pairs[i])
        BY <2>3
      <3> QED BY ONLY <3>1, <3>2, <3>3, VerdictsTell
    <2>7. ASSUME IsGood(x)
          PROVE  /\ DOMAIN CriteriaIn(v) = 1 .. n
                 /\ \A i \in 1 .. n : x.ok[i].criterion = CriteriaIn(v)[i]
      <3>1. CriteriaIn(v) = [i \in DOMAIN v.list |-> Follow(v.list[i], keys.criterion).str]
        BY <1>3 DEF CriteriaIn, Is
      <3>2. ASSUME NEW i \in 1 .. n PROVE Under(v.list[i], keys.criterion) = Follow(v.list[i], keys.criterion)
        <4>1. IsVerdict(pairs[i])
          BY <2>2, <2>6, <2>7 DEF TellsAll
        <4>2. Is(Under(v.list[i], keys.criterion), "str")
          BY <2>5, <4>1 DEF IsVerdict
        <4>3. ~Is(Missing, "str")
          BY DEF Missing, Is
        <4> QED BY <4>2, <4>3 DEF Under
      <3> QED BY <2>1, <2>2, <2>5, <2>6, <2>7, <3>1, <3>2 DEF TellsAll
    <2>8. TellsAll(x, pairs, n)
      BY <2>2, <2>6
    <2> QED BY <1>1, <1>3, <2>4, <2>7, <2>8 DEF x, TellsAll
  <1>4. CASE Is(v, "dict")
    <2> DEFINE names == SetToSeq(DOMAIN v.dict)
               n == Len(names)
               results == [i \in DOMAIN names |-> Verdict(Str(<<names[i]>>), v.dict[names[i]])]
               pairs == [i \in 1 .. n |-> <<Str(<<names[i]>>), v.dict[names[i]]>>]
    <2>1. /\ n \in Nat /\ DOMAIN names = 1 .. n /\ DOMAIN v.dict = {names[i] : i \in 1 .. n}
          /\ \A key \in DOMAIN v.dict : v.dict[key] \in Json
      BY <1>4, SetToSeqAll DEF Legible
    <2>2. x = Gathered(results)
      BY <1>4 DEF CoerceVerdicts, Is
    <2> HIDE DEF names, n
    <2>3. DOMAIN results = 1 .. n /\ \A i \in 1 .. n : TellsVerdict(results[i], pairs[i])
      <3>1. DOMAIN results = 1 .. n
        BY <2>1
      <3>2. ASSUME NEW i \in 1 .. n PROVE TellsVerdict(results[i], pairs[i])
        <4> DEFINE c == Str(<<names[i]>>)
                   p == v.dict[names[i]]
        <4>1. Legible(c) /\ Legible(p)
          BY <2>1, PlainlyLegible, WordIsText
        <4>2. results[i] = Verdict(c, p) /\ pairs[i] = <<c, p>>
          BY <2>1
        <4> HIDE DEF c, p
        <4> QED BY <4>1, <4>2, VerdictTells
      <3> QED BY <3>1, <3>2
    <2>4. all = {pairs[i] : i \in 1 .. n}
      <3>1. all = {<<Str(<<c>>), v.dict[c]>> : c \in DOMAIN v.dict}
        BY <1>4 DEF PairsOf
      <3> HIDE DEF all
      <3> QED BY <2>1, <3>1
    <2>5. \A i \in 1 .. n : pairs[i][1].str = <<names[i]>>
      BY DEF Str
    <2> HIDE DEF results, pairs, all, x
    <2>6. TellsAll(Gathered(results), pairs, n)
      <3>1. n \in Nat
        BY <2>1
      <3>2. DOMAIN results = 1 .. n
        BY <2>3
      <3>3. \A i \in 1 .. n : TellsVerdict(results[i], pairs[i])
        BY <2>3
      <3> QED BY ONLY <3>1, <3>2, <3>3, VerdictsTell
    <2>7. CriteriaIn(v) = [i \in DOMAIN names |-> <<names[i]>>]
      BY <1>4 DEF CriteriaIn, names
    <2>8. DOMAIN CriteriaIn(v) = 1 .. n /\ \A i \in 1 .. n : CriteriaIn(v)[i] = <<names[i]>>
      BY <2>1, <2>7
    <2>9. TellsAll(x, pairs, n)
      BY <2>2, <2>6
    <2> QED BY <1>1, <1>4, <2>4, <2>5, <2>8, <2>9 DEF x, TellsAll
  <1> QED BY <1>2, <1>3, <1>4

----------------------------------------------------------------------------
(***************************************************************************)
(* The values of a row are, field by field, what the reading of that field *)
(* alone comes to; they fail with the failure of one of them.              *)
(***************************************************************************)

\* A field on its own.
ResultOf(row, f) ==
    IF f \in SidecarTarget(file) THEN FromSidecar(file, row, Loaded.ok)
    ELSE Coerced(file, f, Offered(row, f), SpecFor(f))

\* Why there are no values: a field is not what it should be, or is not there.
Blamed(row, x) ==
    \/ x.bad \notin RecordErrors
    \/ \E f \in OfferedFields(row) : ~IsGood(ResultOf(row, f)) /\ x = ResultOf(row, f)
    \/ \E f \in ToSet(Required) : IsMapped(f) /\ f \notin OfferedFields(row)

\* Values for the fields S of a row.
Says(row, S, x) ==
    /\ IsGood(x) => /\ DOMAIN x.ok = S
                    /\ \A f \in S : IsGood(ResultOf(row, f)) /\ x.ok[f] = ResultOf(row, f).ok
    /\ ~IsGood(x) => Blamed(row, x)

\* One more field.
LEMMA SaysWith ==
    ASSUME NEW row, NEW S, NEW values, Says(row, S, values), IsGood(values),
           NEW f \in OfferedFields(row), f \notin S
    PROVE  Says(row, S \cup {f}, With(values, f, ResultOf(row, f)))
  <1> DEFINE x == ResultOf(row, f)
             w == [g \in DOMAIN values.ok \cup {f} |-> IF g = f THEN x.ok ELSE values.ok[g]]
  <1>1. CASE ~IsGood(x)
    BY <1>1 DEF With, Says, Blamed
  <1>2. CASE IsGood(x)
    <2>1. With(values, f, x) = Good(w)
      BY <1>2 DEF With
    <2>2. DOMAIN w = S \cup {f}
      BY DEF Says
    <2>3. \A g \in S \cup {f} : IsGood(ResultOf(row, g)) /\ w[g] = ResultOf(row, g).ok
      BY <1>2 DEF Says
    <2> HIDE DEF w
    <2> QED BY <2>1, <2>2, <2>3, GoodOrBad DEF Says
  <1> QED BY <1>1, <1>2

\* A mapping that reads no field twice, and no field a record has not.
Sorted(m) ==
    /\ MappingFit(m)
    /\ \A i \in DOMAIN m.fields : FieldSpec(m.fields[i]).target = m.fields[i].target
    /\ \A i \in DOMAIN m.fields : m.fields[i].target \in RecordKeys
    /\ \A i \in DOMAIN m.fields : FieldSpec(m.fields[i]).path \in Seq(STRING)
    /\ \A i, j \in DOMAIN m.fields : m.fields[i].target = m.fields[j].target => i = j
    /\ DOMAIN m.defaults \subseteq RecordKeys
    /\ SidecarTarget(m) \subseteq RecordKeys
    /\ ToSet(Required) \subseteq Supplied(m)

\* Such is the mapping of a run that goes ahead.
LEMMA SortedIs ==
    ASSUME source \in Sources, Usable
    PROVE  Sorted(file)
  <1>1. MappingFit(file)
    BY UsableIs
  <1>2. /\ \A i \in DOMAIN file.fields : ~FieldRefused(file.fields[i])
        /\ DOMAIN file.defaults \subseteq RecordKeys
        /\ SidecarTarget(file) \subseteq TextFields
        /\ ToSet(Required) \subseteq Supplied(file)
    BY DEF Usable, MappingRefused
  <1>3. /\ \A i \in DOMAIN file.fields : FieldSpec(file.fields[i]).path \in Seq(STRING)
        /\ \A i, j \in DOMAIN file.fields : file.fields[i].target = file.fields[j].target => i = j
    BY SourcesAssumption DEF file
  <1>4. \A raw : FieldSpec(raw).target = raw.target
    BY DEF FieldSpec
  <1>5. \A i \in DOMAIN file.fields : file.fields[i].target \in RecordKeys
    BY <1>2 DEF FieldRefused
  <1>6. TextFields \subseteq RecordKeys
    BY DEF RecordKeys
  <1> QED BY <1>1, <1>2, <1>3, <1>4, <1>5, <1>6 DEF Sorted

\* The field a line of the mapping is about.
LEMMA SpecIs ==
    ASSUME Sorted(file), NEW i \in DOMAIN file.fields
    PROVE  /\ IsMapped(file.fields[i].target)
           /\ SpecOf(file.fields[i].target) = FieldSpec(file.fields[i])
           /\ SpecFor(file.fields[i].target) = FieldSpec(file.fields[i])
  <1> DEFINE f == file.fields[i].target
             j == CHOOSE j \in DOMAIN file.fields : file.fields[j].target = f
  <1>1. j \in DOMAIN file.fields /\ file.fields[j].target = f
    OBVIOUS
  <1>2. j = i
    BY <1>1 DEF Sorted
  <1>3. IsMapped(f)
    BY DEF IsMapped
  <1>4. SpecOf(f) = FieldSpec(file.fields[i])
    BY <1>2 DEF SpecOf
  <1> QED BY <1>3, <1>4 DEF SpecFor

\* A path that leads nowhere is no failure; one that is no path is the mapping's.
LEMMA RawValueBad ==
    ASSUME NEW row, NEW spec
    PROVE  \/ IsGood(RawValue(row, spec))
           \/ ~IsGood(RawValue(row, spec)) /\ RawValue(row, spec).bad = "MappingError"
  <1> DEFINE found == ExtractPath(row, spec.path)
  <1>1. "" \notin ToSet(WholePayload)
    <2>1. DOMAIN WholePayload = {1} /\ WholePayload[1] = "."
      BY DEF WholePayload
    <2> QED BY <2>1 DEF ToSet
  <1>2. IsGood(found) \/ found = Bad("MappingError")
    <2>1. CASE spec.path = WholePayload
      BY <1>1, <2>1, GoodOrBad DEF ExtractPath
    <2>2. CASE spec.path # WholePayload /\ "" \in ToSet(spec.path)
      BY <2>2 DEF ExtractPath
    <2>3. CASE spec.path # WholePayload /\ "" \notin ToSet(spec.path)
      BY <2>3, GoodOrBad DEF ExtractPath
    <2> QED BY <2>1, <2>2, <2>3
  <1>3. RawValue(row, spec) = IF spec.path = << >> THEN Good(Missing)
                              ELSE IF IsGood(found) THEN Good(Extract(spec.extractor, found.ok))
                              ELSE found
    BY DEF RawValue
  <1> HIDE DEF found
  <1> QED BY <1>2, <1>3, GoodOrBad

\* A field the mapping reads, once it is read.
LEMMA SaysMapped ==
    ASSUME Sorted(file), NEW row, NEW i \in DOMAIN file.fields, NEW S, NEW values,
           SidecarTarget(file) \subseteq S, Says(row, S, values),
           file.fields[i].target \in S => file.fields[i].target \in SidecarTarget(file)
    PROVE  Says(row, S \cup ({file.fields[i].target} \cap OfferedFields(row)),
                Mapped(file, row, values, FieldSpec(file.fields[i])))
  <1> DEFINE f == file.fields[i].target
             spec == FieldSpec(file.fields[i])
             found == RawValue(row, spec)
             value == RowOrDefault(file, f, found.ok)
             x == Mapped(file, row, values, spec)
             T == S \cup ({f} \cap OfferedFields(row))
  <1>1. spec.target = f /\ f \in RecordKeys /\ IsMapped(f) /\ SpecOf(f) = spec /\ SpecFor(f) = spec
    BY SpecIs DEF Sorted
  <1> SUFFICES Says(row, T, x)
    OBVIOUS
  <1>2. CASE ~IsGood(values)
    <2>1. x = values
      BY <1>2 DEF Mapped
    <2> HIDE DEF x
    <2> QED BY <1>2, <2>1 DEF Says
  <1>3. CASE IsGood(values) /\ f \in SidecarTarget(file)
    <2>1. DOMAIN values.ok = S /\ f \in S
      BY <1>3 DEF Says
    <2>2. x = values
      BY <1>1, <1>3, <2>1 DEF Mapped, WithField
    <2>3. T = S
      BY <2>1
    <2> HIDE DEF x, T
    <2> QED BY <2>2, <2>3
  <1>4. CASE IsGood(values) /\ f \notin SidecarTarget(file)
    <2>1. f \notin S /\ f \notin DOMAIN values.ok
      BY <1>4 DEF Says
    <2>2. x = IF ~IsGood(found) THEN found
              ELSE IF ~Is(value, "missing") THEN With(values, f, Coerced(file, f, value, spec))
              ELSE IF f \in ToSet(Required) THEN Bad("MissingFieldError")
              ELSE values
      BY <1>1, <1>4, <2>1 DEF Mapped, WithField
    <2>3. IsGood(found) \/ (~IsGood(found) /\ found.bad = "MappingError")
      BY RawValueBad
    <2> HIDE DEF x, spec
    <2>4. CASE ~IsGood(found)
      <3>1. found.bad \notin RecordErrors
        BY <2>3, <2>4 DEF RecordErrors
      <3> QED BY <2>2, <2>4, <3>1 DEF Says, Blamed
    <2>5. CASE IsGood(found)
      <3>1. Stated(row, f) = found.ok
        BY <1>1, <2>5 DEF Stated, Found
      <3>2. Origin(row, f) = IF ~Absent(found.ok) THEN "row"
                             ELSE IF f \in DOMAIN file.defaults THEN "default" ELSE "nowhere"
        BY <1>4, <3>1 DEF Origin
      <3> HIDE DEF found
      <3>3. CASE ~Absent(found.ok) \/ f \in DOMAIN file.defaults
        <4>1. f \in OfferedFields(row)
          BY <1>1, <3>2, <3>3 DEF OfferedFields
        <4>2. value = Offered(row, f)
          BY <3>1, <3>2, <3>3 DEF Offered, RowOrDefault
        <4>3. ~Is(value, "missing")
          <5>1. CASE ~Absent(found.ok)
            BY <5>1 DEF RowOrDefault, Absent
          <5>2. CASE Absent(found.ok) /\ f \in DOMAIN file.defaults
            <6>1. value = file.defaults[f] /\ value \in Json
              BY <5>2 DEF RowOrDefault, Sorted, MappingFit
            <6> QED BY <6>1, JsonAssumption
          <5> QED BY <3>3, <5>1, <5>2
        <4>4. ResultOf(row, f) = Coerced(file, f, value, spec)
          BY <1>1, <1>4, <4>2 DEF ResultOf
        <4>5. x = With(values, f, ResultOf(row, f))
          BY <2>2, <2>5, <4>3, <4>4
        <4>6. Says(row, S \cup {f}, With(values, f, ResultOf(row, f)))
          BY <1>4, <2>1, <4>1, SaysWith
        <4>7. T = S \cup {f}
          BY <4>1
        <4> QED BY <4>5, <4>6, <4>7
      <3>4. CASE Absent(found.ok) /\ f \notin DOMAIN file.defaults
        <4>1. f \notin OfferedFields(row)
          BY <3>2, <3>4 DEF OfferedFields
        <4>2. Is(value, "missing")
          BY <3>4 DEF RowOrDefault, Missing, Is
        <4>3. T = S
          BY <4>1
        <4>4. CASE f \in ToSet(Required)
          <5>1. ~IsGood(x) /\ Blamed(row, x)
            BY <1>1, <2>2, <2>5, <4>1, <4>2, <4>4, GoodOrBad DEF Blamed
          <5> QED BY <5>1 DEF Says
        <4>5. CASE f \notin ToSet(Required)
          BY <2>2, <2>5, <4>2, <4>3, <4>5
        <4> QED BY <4>4, <4>5
      <3> QED BY <3>3, <3>4
    <2> QED BY <2>4, <2>5
  <1> QED BY <1>2, <1>3, <1>4

\* A default, once it is filled in.
LEMMA SaysDefaulted ==
    ASSUME Sorted(file), NEW row, NEW f \in DOMAIN file.defaults, NEW S, NEW values,
           SidecarTarget(file) \subseteq S, Says(row, S, values),
           \A i \in DOMAIN file.fields :
               file.fields[i].target \in OfferedFields(row) => file.fields[i].target \in S
    PROVE  /\ f \in OfferedFields(row)
           /\ Says(row, S \cup {f}, Defaulted(file, values, f))
  <1> DEFINE x == Defaulted(file, values, f)
  <1>1. f \in OfferedFields(row)
    <2>1. Origin(row, f) # "nowhere"
      BY DEF Origin
    <2>2. f \in RecordKeys
      BY DEF Sorted
    <2> QED BY <2>1, <2>2 DEF OfferedFields
  <1> SUFFICES Says(row, S \cup {f}, x)
    BY <1>1
  <1>2. CASE ~IsGood(values)
    <2>1. x = values
      BY <1>2 DEF Defaulted
    <2> HIDE DEF x
    <2> QED BY <1>2, <2>1 DEF Says
  <1>3. CASE IsGood(values) /\ f \in S
    <2>1. f \in DOMAIN values.ok /\ S \cup {f} = S
      BY <1>3 DEF Says
    <2>2. x = values
      BY <1>3, <2>1 DEF Defaulted
    <2> HIDE DEF x
    <2> QED BY <2>1, <2>2
  <1>4. CASE IsGood(values) /\ f \notin S
    <2>1. f \notin DOMAIN values.ok
      BY <1>4 DEF Says
    <2>2. x = With(values, f, Coerced(file, f, file.defaults[f], PlainSpec))
      BY <1>4, <2>1 DEF Defaulted
    <2>3. ~IsMapped(f)
      BY <1>1, <1>4 DEF IsMapped
    <2>4. SpecFor(f) = PlainSpec /\ Stated(row, f) = Missing
      BY <2>3 DEF SpecFor, Stated
    <2>5. Origin(row, f) = "default"
      <3>1. Absent(Missing) /\ f \notin SidecarTarget(file)
        BY <1>4 DEF Absent, Missing, Is
      <3> QED BY <2>4, <3>1 DEF Origin
    <2>6. Offered(row, f) = file.defaults[f]
      BY <2>5 DEF Offered
    <2>7. ResultOf(row, f) = Coerced(file, f, file.defaults[f], PlainSpec)
      BY <1>4, <2>4, <2>6 DEF ResultOf
    <2>8. Says(row, S \cup {f}, With(values, f, ResultOf(row, f)))
      BY <1>1, <1>4, SaysWith
    <2> HIDE DEF x
    <2> QED BY <2>2, <2>7, <2>8
  <1> QED BY <1>2, <1>3, <1>4

\* What the sidecar is joined for, if there is one.
LEMMA SaysJoined ==
    ASSUME Sorted(file), NEW row
    PROVE  /\ SidecarTarget(file) \subseteq OfferedFields(row)
           /\ Says(row, SidecarTarget(file), Joined(file, row, Loaded.ok))
  <1>1. SidecarTarget(file) \subseteq OfferedFields(row)
    <2>1. \A f \in SidecarTarget(file) : Origin(row, f) # "nowhere"
      BY DEF Origin
    <2> QED BY <2>1 DEF Sorted, OfferedFields
  <1>2. IsGood(Good(<< >>)) /\ Says(row, {}, Good(<< >>))
    BY GoodOrBad DEF Says
  <1>3. CASE "sidecar" \in DOMAIN file
    <2> DEFINE f == file.sidecar.target
    <2>1. SidecarTarget(file) = {f}
      BY <1>3 DEF SidecarTarget
    <2>2. Joined(file, row, Loaded.ok) = With(Good(<< >>), f, ResultOf(row, f))
      BY <1>3, <2>1 DEF Joined, ResultOf
    <2>3. f \in OfferedFields(row)
      BY <1>1, <2>1
    <2> HIDE DEF f
    <2>4. Says(row, {} \cup {f}, With(Good(<< >>), f, ResultOf(row, f)))
      BY <1>2, <2>3, SaysWith
    <2>5. {} \cup {f} = {f}
      OBVIOUS
    <2> QED BY <1>1, <2>1, <2>2, <2>4, <2>5
  <1>4. CASE "sidecar" \notin DOMAIN file
    BY <1>1, <1>2, <1>4 DEF SidecarTarget, Joined
  <1> QED BY <1>3, <1>4

\* The fields the mapping reads in a row.
ReadFields(row) ==
    SidecarTarget(file)
      \cup ({file.fields[i].target : i \in DOMAIN file.fields} \cap OfferedFields(row))

\* And when all of them are read.
LEMMA SaysRead ==
    ASSUME Sorted(file), NEW row
    PROVE  Says(row, ReadFields(row), FieldsRead(file, row, Joined(file, row, Loaded.ok)))
  <1> DEFINE m == file
             joined == Joined(m, row, Loaded.ok)
             read == FieldsRead(m, row, joined)
             N == Len(m.fields)
             O == OfferedFields(row)
             T(k) == SidecarTarget(file) \cup ({m.fields[i].target : i \in 1 .. k} \cap O)
  <1>1. N \in Nat /\ DOMAIN m.fields = 1 .. N
    BY DEF Sorted, MappingFit
  <1>2. PICK c : /\ read = c[N]
                 /\ c[0] = joined
                 /\ \A k \in 1 .. N : c[k] = Mapped(m, row, c[k - 1], FieldSpec(m.fields[k]))
    <2>1. \E c : /\ FieldsRead(m, row, joined) = c[Len(m.fields)]
                 /\ c[0] = joined
                 /\ \A k \in 1 .. Len(m.fields) : c[k] = Mapped(m, row, c[k - 1], FieldSpec(m.fields[k]))
      BY ONLY <1>1, FieldsReadBySteps
    <2> QED BY <2>1
  <1>3. Says(row, SidecarTarget(file), joined)
    BY SaysJoined
  <1>4. T(N) = ReadFields(row)
    BY <1>1 DEF ReadFields
  <1> HIDE DEF N, read, joined
  <1> DEFINE G == {k \in Nat : k <= N => Says(row, T(k), c[k])}
  <1>5. 0 \in G
    <2>1. T(0) = SidecarTarget(file)
      OBVIOUS
    <2> HIDE DEF T
    <2> QED BY <1>2, <1>3, <2>1
  <1>6. ASSUME NEW k \in Nat, k \in G PROVE k + 1 \in G
    <2> SUFFICES ASSUME k + 1 <= N PROVE Says(row, T(k + 1), c[k + 1])
      OBVIOUS
    <2> DEFINE i == k + 1
               f == m.fields[i].target
               S == T(k)
               x == c[k]
    <2>1. i \in DOMAIN m.fields /\ i \in 1 .. N /\ i - 1 = k /\ k <= N
      BY <1>1
    <2>2. Says(row, S, x)
      BY <1>6, <2>1
    <2>3. c[i] = Mapped(m, row, x, FieldSpec(m.fields[i]))
      BY <1>2, <2>1
    <2>4. SidecarTarget(file) \subseteq S
      OBVIOUS
    <2>5. f \in S => f \in SidecarTarget(file)
      <3>1. ASSUME NEW j \in 1 .. k PROVE m.fields[j].target # f
        <4>1. j \in DOMAIN m.fields /\ j # i
          BY <1>1, <2>1
        <4> QED BY <2>1, <4>1 DEF Sorted
      <3> QED BY <3>1
    <2>6. T(i) = S \cup ({f} \cap O)
      <3>1. 1 .. i = 1 .. k \cup {i}
        BY <2>1
      <3> HIDE DEF i, O
      <3> QED BY <3>1
    <2> HIDE DEF S, x, i, T
    <2>7. Says(row, S \cup ({m.fields[i].target} \cap OfferedFields(row)), Mapped(m, row, x, FieldSpec(m.fields[i])))
      BY <2>1, <2>2, <2>4, <2>5, SaysMapped
    <2>8. Says(row, T(i), c[i])
      BY <2>3, <2>6, <2>7
    <2> QED BY <2>8 DEF i
  <1>7. \A k \in Nat : k \in G
    <2> HIDE DEF G
    <2> QED BY <1>5, <1>6, NumberInduction
  <1>8. Says(row, T(N), c[N])
    <2> HIDE DEF T
    <2> QED BY <1>1, <1>7 DEF N
  <1> HIDE DEF T
  <1> QED BY <1>2, <1>4, <1>8 DEF read, joined

\* The values of a row are those of the fields it offers, each as it reads on
\* its own; or one of the fields is to blame.
LEMMA ValuesSay ==
    ASSUME Sorted(file), NEW row
    PROVE  Says(row, OfferedFields(row), Values(file, row, Loaded.ok))
  <1> DEFINE m == file
             D == DOMAIN m.defaults
             read == FieldsRead(m, row, Joined(m, row, Loaded.ok))
             targets == SetToSeq(D)
             M == Len(targets)
             R == ReadFields(row)
             T(k) == R \cup {targets[i] : i \in 1 .. k}
  <1>1. M \in Nat /\ DOMAIN targets = 1 .. M /\ D = {targets[i] : i \in 1 .. M}
    BY SetToSeqAll DEF Sorted, MappingFit
  <1>2. Says(row, R, read)
    BY SaysRead
  <1> HIDE DEF read
  <1>3. PICK c : /\ DefaultsFilled(m, read) = c[M]
                 /\ c[0] = read
                 /\ \A k \in 1 .. M : c[k] = Defaulted(m, c[k - 1], targets[k])
    <2>1. \E c : /\ DefaultsFilled(m, read) = c[Len(SetToSeq(DOMAIN m.defaults))]
                 /\ c[0] = read
                 /\ \A k \in 1 .. Len(SetToSeq(DOMAIN m.defaults)) :
                      c[k] = Defaulted(m, c[k - 1], SetToSeq(DOMAIN m.defaults)[k])
      BY ONLY <1>1, DefaultsFilledBySteps
    <2> QED BY <2>1
  <1>4. /\ SidecarTarget(file) \subseteq R
        /\ \A i \in DOMAIN file.fields :
             file.fields[i].target \in OfferedFields(row) => file.fields[i].target \in R
    BY DEF ReadFields
  <1>5. T(M) = OfferedFields(row)
    <2>1. T(M) = R \cup D
      BY <1>1
    <2>2. R \subseteq OfferedFields(row)
      BY SaysJoined DEF ReadFields
    <2>3. ASSUME NEW f \in D PROVE f \in OfferedFields(row)
      <3>1. Origin(row, f) # "nowhere"
        BY DEF Origin
      <3> QED BY <3>1 DEF Sorted, OfferedFields
    <2>4. ASSUME NEW f \in OfferedFields(row) PROVE f \in R \cup D
      <3>1. Origin(row, f) # "nowhere"
        BY DEF OfferedFields
      <3>2. CASE f \in SidecarTarget(file) \/ f \in D
        BY <1>4, <3>2
      <3>3. CASE f \notin SidecarTarget(file) /\ f \notin D
        <4>1. ~Absent(Stated(row, f))
          BY <3>1, <3>3 DEF Origin
        <4>2. IsMapped(f)
          <5>1. Absent(Missing)
            BY DEF Absent, Missing, Is
          <5> QED BY <4>1, <5>1 DEF Stated
        <4> QED BY <1>4, <4>2 DEF IsMapped
      <3> QED BY <3>2, <3>3
    <2> HIDE DEF T, R, D
    <2> QED BY <2>1, <2>2, <2>3, <2>4
  <1>6. \A k \in 1 .. M : targets[k] \in D
    BY <1>1
  <1> HIDE DEF M, targets, R
  <1> DEFINE G == {k \in Nat : k <= M => Says(row, T(k), c[k])}
  <1>7. 0 \in G
    <2>1. T(0) = R
      OBVIOUS
    <2> HIDE DEF T
    <2> QED BY <1>2, <1>3, <2>1
  <1>8. ASSUME NEW k \in Nat, k \in G PROVE k + 1 \in G
    <2> SUFFICES ASSUME k + 1 <= M PROVE Says(row, T(k + 1), c[k + 1])
      OBVIOUS
    <2> DEFINE i == k + 1
               f == targets[i]
               S == T(k)
               x == c[k]
    <2>1. i \in 1 .. M /\ i - 1 = k /\ k <= M /\ f \in DOMAIN file.defaults
      BY <1>1, <1>6
    <2>2. Says(row, S, x)
      BY <1>8, <2>1
    <2>3. c[i] = Defaulted(m, x, f)
      BY <1>3, <2>1
    <2>4. /\ SidecarTarget(file) \subseteq S
          /\ \A j \in DOMAIN file.fields :
               file.fields[j].target \in OfferedFields(row) => file.fields[j].target \in S
      BY <1>4
    <2>5. T(i) = S \cup {f}
      <3>1. 1 .. i = 1 .. k \cup {i}
        BY <2>1
      <3> HIDE DEF i
      <3> QED BY <3>1
    <2> HIDE DEF S, x, i, T, f
    <2>6. Says(row, S \cup {f}, Defaulted(m, x, f))
      BY <2>1, <2>2, <2>4, SaysDefaulted
    <2>7. Says(row, T(i), c[i])
      BY <2>3, <2>5, <2>6
    <2> QED BY <2>7 DEF i
  <1>9. \A k \in Nat : k \in G
    <2> HIDE DEF G
    <2> QED BY <1>7, <1>8, NumberInduction
  <1>10. Says(row, T(M), c[M])
    <2> HIDE DEF T
    <2> QED BY <1>1, <1>9 DEF M
  <1>11. Values(m, row, Loaded.ok) = c[M]
    BY <1>3 DEF Values, read
  <1> HIDE DEF T
  <1> QED BY <1>5, <1>10, <1>11

----------------------------------------------------------------------------
(***************************************************************************)
(* What a field means, and what its reading makes of it.                   *)
(***************************************************************************)

\* What is found under a name is a value of the log, or nothing at all.
LEMMA FollowJson ==
    ASSUME NEW v, Legible(v), NEW segment
    PROVE  Follow(v, segment) \in Json \/ Follow(v, segment) = Missing
  <1>1. CASE Is(v, "dict") /\ segment \in DOMAIN v.dict
    <2>1. Follow(v, segment) = v.dict[segment]
      BY <1>1 DEF Follow, Is
    <2> QED BY <1>1, <2>1 DEF Legible
  <1>2. CASE Is(v, "list") /\ segment \in DOMAIN IndexOf
    <2> DEFINE i == IndexOf[segment]
               list == v.list
               n == Len(list)
    <2>1. Follow(v, segment) = Entry(list, i)
      BY <1>2 DEF Follow, Is
    <2>2. n \in Nat /\ DOMAIN list = 1 .. n /\ \A k \in 1 .. n : list[k] \in Json
      BY <1>2, LenProperties DEF Legible
    <2> HIDE DEF i, list, n
    <2>3. CASE i \in -n .. n - 1
      <3> DEFINE k == (IF i < 0 THEN n + i ELSE i) + 1
      <3>1. k \in 1 .. n
        <4>1. CASE i < 0
          BY <2>2, <2>3, <4>1
        <4>2. CASE ~(i < 0)
          BY <2>2, <2>3, <4>2
        <4> QED BY <4>1, <4>2
      <3>2. Entry(list, i) = list[k]
        BY <2>3 DEF Entry, n
      <3> HIDE DEF k
      <3> QED BY <2>1, <2>2, <3>1, <3>2
    <2>4. CASE i \notin -n .. n - 1
      <3>1. Entry(list, i) = Missing
        BY <2>4 DEF Entry, n
      <3> QED BY <2>1, <3>1
    <2> QED BY <2>3, <2>4
  <1>3. CASE /\ ~(Is(v, "dict") /\ segment \in DOMAIN v.dict)
             /\ ~(Is(v, "list") /\ segment \in DOMAIN IndexOf)
    BY <1>3 DEF Follow
  <1> QED BY <1>1, <1>2, <1>3

\* A text is a value with nothing but its words.
LEMMA StrIs ==
    /\ \A v \in Json \cup {Missing} :
         Is(v, "str") => v = Str(v.str) /\ v.str \in Seq(STRING)
    /\ \A t : Is(Str(t), "str") /\ Str(t).str = t
  <1>1. ASSUME NEW v \in Json, Is(v, "str") PROVE v = Str(v.str) /\ v.str \in Seq(STRING)
    <2>1. v = [type \in DOMAIN v |-> v[type]] /\ DOMAIN v = {"str"} /\ v.str \in Seq(STRING)
      BY <1>1, JsonAssumption DEF Is
    <2>2. v = [type \in {"str"} |-> v[type]]
      BY <2>1
    <2>3. Str(v.str) = [type \in {"str"} |-> v.str]
      BY DEF Str
    <2> QED BY <2>1, <2>2, <2>3
  <1>2. ~Is(Missing, "str")
    BY DEF Missing, Is
  <1> QED BY <1>1, <1>2 DEF Str, Is

\* The texts a sidecar holds.
SidecarTexts ==
    {t \in DOMAIN HashOf :
        \E i \in DOMAIN source.sidecar : Follow(source.sidecar[i], file.sidecar.text) = Str(t)}

\* A sidecar that was loaded has each of its texts under its hash.
LEMMA LoadedTexts ==
    ASSUME source \in Sources, Usable, "sidecar" \in DOMAIN file, IsGood(Loaded)
    PROVE  /\ DOMAIN Loaded.ok = {HashOf[t] : t \in SidecarTexts}
           /\ \A h \in DOMAIN Loaded.ok :
                Loaded.ok[h] \in SidecarTexts /\ HashOf[Loaded.ok[h]] = h
           /\ \A t \in SidecarTexts : ~Blank(t) /\ HashOf[t] \notin Space
  <1> DEFINE lines == source.sidecar
             n == Len(lines)
             results == [i \in DOMAIN lines |-> SidecarLine(file, lines[i])]
             texts == Gathered(results)
             at(i) == Follow(lines[i], file.sidecar.text)
             index == [h \in {HashOf[t] : t \in ToSet(texts.ok)} |->
                         CHOOSE t \in ToSet(texts.ok) : HashOf[t] = h]
  <1>1. "sidecar" \in DOMAIN source /\ lines \in Seq(Json)
    BY SourcesAssumption DEF Usable
  <1>2. n \in Nat /\ DOMAIN lines = 1 .. n /\ \A i \in 1 .. n : lines[i] \in Json
    BY <1>1, LenProperties
  <1>3. Loaded = IF ~IsGood(texts) THEN texts ELSE Good(index)
    BY <1>1 DEF Loaded, LoadSidecar
  <1>4. /\ \A t \in DOMAIN HashOf : HashOf[t] \notin Space
        /\ \A i \in 1 .. n : HasText(lines[i], file.sidecar.text) => at(i).str \in DOMAIN HashOf
    BY <1>1, <1>2, HashesAssumption DEF file
  <1> HIDE DEF lines, n
  <1>5. ASSUME NEW i \in 1 .. n
        PROVE  /\ Typed(SidecarLine(file, lines[i]))
               /\ IsGood(SidecarLine(file, lines[i])) =>
                    /\ SidecarLine(file, lines[i]).ok = at(i).str
                    /\ at(i) = Str(at(i).str) /\ ~Blank(at(i).str) /\ at(i).str \in DOMAIN HashOf
    <2> DEFINE line == lines[i]
               x == SidecarLine(file, line)
               f == Follow(line, file.sidecar.text)
    <2>1. Legible(line)
      BY <1>2, PlainlyLegible
    <2>2. HasText(line, file.sidecar.text) => f.str \in DOMAIN HashOf
      BY <1>4
    <2> HIDE DEF line
    <2>3. CASE ~Is(line, "dict")
      <3>1. x = Bad("SourceFormatError")
        BY <2>3 DEF SidecarLine
      <3> HIDE DEF x
      <3> QED BY <3>1, GoodOrBad DEF x, line
    <2>4. CASE Is(line, "dict")
      <3>1. x = IF ~HasText(line, file.sidecar.text) THEN Bad("MissingFieldError") ELSE Good(f.str)
        BY <2>4 DEF SidecarLine
      <3>2. HasText(line, file.sidecar.text) <=> Is(f, "str") /\ ~Blank(f.str)
        BY DEF HasText
      <3>3. f \in Json \cup {Missing}
        BY <2>1, FollowJson
      <3> HIDE DEF f, x
      <3>4. Is(f, "str") => f = Str(f.str)
        BY <3>3, StrIs
      <3>5. Typed(x) /\ (IsGood(x) => x.ok = f.str /\ f = Str(f.str) /\ ~Blank(f.str) /\ f.str \in DOMAIN HashOf)
        <4>1. CASE HasText(line, file.sidecar.text)
          BY <2>2, <3>1, <3>2, <3>4, <4>1, GoodOrBad
        <4>2. CASE ~HasText(line, file.sidecar.text)
          BY <3>1, <4>2, GoodOrBad
        <4> QED BY <4>1, <4>2
      <3> QED BY <3>5 DEF f, x, line
    <2> QED BY <2>3, <2>4
  <1>6. DOMAIN results = 1 .. n /\ \A i \in 1 .. n : results[i] = SidecarLine(file, lines[i])
    BY <1>2
  <1> HIDE DEF results
  <1>7. /\ Typed(texts)
        /\ IsGood(texts) =>
             /\ IsSeq(texts.ok) /\ DOMAIN texts.ok = 1 .. n
             /\ \A i \in 1 .. n : IsGood(results[i]) /\ texts.ok[i] = results[i].ok
    <2>1. \A i \in 1 .. n : Typed(results[i])
      BY <1>5, <1>6
    <2> QED BY <1>2, <1>6, <2>1, GatheredIs
  <1> HIDE DEF texts
  <1>8. IsGood(texts)
    BY <1>3
  <1>9. \A i \in 1 .. n : /\ texts.ok[i] = at(i).str /\ at(i) = Str(at(i).str)
                          /\ ~Blank(at(i).str) /\ at(i).str \in DOMAIN HashOf
    BY <1>5, <1>6, <1>7, <1>8
  <1>10. ToSet(texts.ok) = SidecarTexts /\ \A t \in SidecarTexts : ~Blank(t)
    <2>1. \A t : t \in ToSet(texts.ok) <=> \E i \in 1 .. n : t = texts.ok[i]
      BY <1>7, <1>8 DEF ToSet
    <2>2. \A t : t \in SidecarTexts <=> t \in DOMAIN HashOf /\ \E i \in 1 .. n : at(i) = Str(t)
      BY <1>2 DEF SidecarTexts, lines
    <2> HIDE DEF at
    <2>3. ASSUME NEW t \in ToSet(texts.ok) PROVE t \in SidecarTexts
      BY <1>9, <2>1, <2>2
    <2>4. ASSUME NEW t \in SidecarTexts PROVE t \in ToSet(texts.ok) /\ ~Blank(t)
      <3>1. PICK i \in 1 .. n : at(i) = Str(t)
        BY <2>2
      <3>2. at(i).str = t
        BY <3>1, StrIs
      <3> QED BY <1>9, <2>1, <3>2
    <2> QED BY <2>3, <2>4
  <1>11. DOMAIN index = {HashOf[t] : t \in SidecarTexts}
    BY <1>10
  <1>12. \A h \in DOMAIN index : index[h] \in SidecarTexts /\ HashOf[index[h]] = h
    <2> TAKE h \in DOMAIN index
    <2>1. PICK t \in ToSet(texts.ok) : HashOf[t] = h
      BY <1>10, <1>11
    <2>2. index[h] = CHOOSE u \in ToSet(texts.ok) : HashOf[u] = h
      OBVIOUS
    <2> HIDE DEF index
    <2> QED BY <1>10, <2>1, <2>2
  <1>13. Loaded.ok = index
    BY <1>3, <1>8, GoodOrBad
  <1> HIDE DEF index
  <1>14. \A t \in SidecarTexts : HashOf[t] \notin Space
    BY <1>4 DEF SidecarTexts
  <1> QED BY <1>10, <1>11, <1>12, <1>13, <1>14

\* A result against what the field may mean.
Meant(x, f, meanings) ==
    /\ Typed(x)
    /\ IsGood(x) => (IF f = "judge_verdicts" THEN ToSet(x.ok) ELSE x.ok) \in meanings
    /\ ~IsGood(x) /\ x.bad \in RecordErrors => meanings = {}

\* A text is joined when there is one to join.
LEMMA SidecarMeant ==
    ASSUME source \in Sources, Usable, "sidecar" \in DOMAIN file, IsGood(Loaded),
           NEW row, Legible(row), NEW f, f # "judge_verdicts"
    PROVE  /\ Meant(FromSidecar(file, row, Loaded.ok), f, JoinedTo(Follow(row, file.sidecar.key)))
           /\ \A t \in JoinedTo(Follow(row, file.sidecar.key)) : ~Blank(t)
  <1> DEFINE key == Follow(row, file.sidecar.key)
             x == FromSidecar(file, row, Loaded.ok)
  <1>1. JoinedTo(key) = {t \in SidecarTexts : key = Str(<<HashOf[t]>>)}
    BY DEF JoinedTo, SidecarTexts
  <1>2. /\ DOMAIN Loaded.ok = {HashOf[t] : t \in SidecarTexts}
        /\ \A h \in DOMAIN Loaded.ok : Loaded.ok[h] \in SidecarTexts /\ HashOf[Loaded.ok[h]] = h
        /\ \A t \in SidecarTexts : ~Blank(t) /\ HashOf[t] \notin Space
    BY LoadedTexts
  <1>3. key \in Json \cup {Missing}
    BY FollowJson
  <1>4. x = IF Is(key, "str") /\ ~Blank(key.str) /\ Len(key.str) = 1 /\ Word(key.str) \in DOMAIN Loaded.ok
            THEN Good(Loaded.ok[Word(key.str)]) ELSE Bad("MissingFieldError")
    BY DEF FromSidecar
  <1> HIDE DEF key, x
  <1>5. CASE Is(key, "str") /\ ~Blank(key.str) /\ Len(key.str) = 1 /\ Word(key.str) \in DOMAIN Loaded.ok
    <2> DEFINE w == key.str[1]
               t == Loaded.ok[w]
    <2>1. key = Str(key.str) /\ key.str \in Seq(STRING)
      BY <1>3, <1>5, StrIs
    <2>2. key.str = <<w>> /\ ToSet(key.str) = {w}
      <3>1. DOMAIN key.str = {1}
        BY <1>5, <2>1, LenProperties
      <3>2. key.str = <<w>>
        BY <1>5, <2>1
      <3> QED BY <3>1, <3>2 DEF ToSet
    <2> HIDE DEF w
    <2>3. w \notin Space
      BY <1>5, <2>2 DEF Blank
    <2>4. Word(key.str) = w
      BY <2>2, <2>3, WordOf
    <2>5. t \in SidecarTexts /\ HashOf[t] = w
      BY <1>2, <1>5, <2>4
    <2>6. x = Good(t)
      BY <1>4, <1>5, <2>4
    <2> HIDE DEF t
    <2>7. t \in JoinedTo(key)
      BY <1>1, <2>1, <2>2, <2>5
    <2> QED BY <1>1, <1>2, <2>6, <2>7, GoodOrBad DEF Meant, x, key
  <1>6. CASE ~(Is(key, "str") /\ ~Blank(key.str) /\ Len(key.str) = 1 /\ Word(key.str) \in DOMAIN Loaded.ok)
    <2>1. x = Bad("MissingFieldError")
      BY <1>4, <1>6
    <2>2. ASSUME NEW t \in SidecarTexts, key = Str(<<HashOf[t]>>) PROVE FALSE
      <3> DEFINE h == HashOf[t]
      <3>1. h \notin Space /\ h \in DOMAIN Loaded.ok
        BY <1>2
      <3> HIDE DEF h
      <3>2. Is(key, "str") /\ key.str = <<h>> /\ Len(key.str) = 1
        BY <2>2, StrIs DEF h
      <3>3. Word(key.str) = h /\ ~Blank(key.str)
        <4>1. ToSet(<<h>>) = {h}
          <5>1. DOMAIN <<h>> = {1} /\ <<h>>[1] = h
            OBVIOUS
          <5> QED BY <5>1 DEF ToSet
        <4> QED BY <3>1, <3>2, <4>1, WordOf DEF Blank
      <3> QED BY <1>6, <3>1, <3>2, <3>3
    <2>3. JoinedTo(key) = {}
      BY <1>1, <2>2
    <2> QED BY <2>1, <2>3, GoodOrBad DEF Meant, x, key
  <1> QED BY <1>5, <1>6

\* What is offered for a field can be looked into.
LEMMA OfferedIs ==
    ASSUME Sorted(file), NEW row, Legible(row),
           NEW f \in OfferedFields(row), f \notin SidecarTarget(file)
    PROVE  Legible(Offered(row, f))
  <1>1. Origin(row, f) # "nowhere"
    BY DEF OfferedFields
  <1>2. CASE Origin(row, f) = "row"
    <2>1. Offered(row, f) = Stated(row, f)
      BY <1>2 DEF Offered
    <2>2. CASE ~IsMapped(f)
      BY <2>1, <2>2, PlainlyLegible DEF Stated
    <2>3. CASE IsMapped(f)
      <3>1. PICK i \in DOMAIN file.fields : file.fields[i].target = f
        BY <2>3 DEF IsMapped
      <3> DEFINE spec == FieldSpec(file.fields[i])
      <3>2. SpecOf(f) = spec
        BY <3>1, SpecIs
      <3>3. Len(spec.path) \in Nat /\ spec.extractor \in Extractors
        BY <3>1 DEF Sorted, MappingFit
      <3> HIDE DEF spec
      <3>4. IsGood(RawValue(row, spec)) => Legible(RawValue(row, spec).ok)
        BY <3>3, RawValueIs
      <3>5. Stated(row, f) = IF IsGood(RawValue(row, spec)) THEN RawValue(row, spec).ok ELSE Missing
        BY <2>3, <3>2 DEF Stated, Found
      <3> QED BY <2>1, <3>4, <3>5, PlainlyLegible
    <2> QED BY <2>2, <2>3
  <1>3. CASE Origin(row, f) # "row"
    <2>1. Offered(row, f) = file.defaults[f]
      BY <1>3 DEF Offered
    <2>2. f \in DOMAIN file.defaults
      <3>1. CASE f \in DOMAIN file.defaults
        BY <3>1
      <3>2. CASE f \notin DOMAIN file.defaults
        <4>1. Origin(row, f) = "row" \/ Origin(row, f) = "nowhere"
          BY <3>2 DEF Origin
        <4> QED BY <1>1, <1>3, <4>1
      <3> QED BY <3>1, <3>2
    <2>3. file.defaults[f] \in Json
      BY <2>2 DEF Sorted, MappingFit
    <2> QED BY <2>1, <2>3, PlainlyLegible
  <1> QED BY <1>2, <1>3

\* A field that is read has its one meaning; the criteria of a verdict column
\* are those that are asked.
LEMMA CoercedMeant ==
    ASSUME NEW f, NEW v, Legible(v)
    PROVE  /\ Meant(Coerced(file, f, v, SpecFor(f)), f, ReadingsOf(f, v))
           /\ IsGood(Coerced(file, f, v, SpecFor(f))) => \A m, n \in ReadingsOf(f, v) : m = n
           /\ f = "judge_verdicts" /\ IsGood(Coerced(file, f, v, SpecFor(f))) =>
                /\ DOMAIN Coerced(file, f, v, SpecFor(f)).ok = DOMAIN CriteriaIn(v)
                /\ \A i \in DOMAIN CriteriaIn(v) :
                     Coerced(file, f, v, SpecFor(f)).ok[i].criterion = CriteriaIn(v)[i]
  <1> DEFINE x == Coerced(file, f, v, SpecFor(f))
             R == ReadingsOf(f, v)
  <1>1. ASSUME f # "judge_verdicts", Tells(x, R)
        PROVE  Meant(x, f, R) /\ (IsGood(x) => \A m, n \in R : m = n)
    <2> HIDE DEF x, R
    <2>1. CASE IsGood(x)
      BY <1>1, <2>1 DEF Tells, Meant
    <2>2. CASE ~IsGood(x)
      BY <1>1, <2>2 DEF Tells, Meant
    <2> QED BY <2>1, <2>2
  <1> SUFFICES /\ Meant(x, f, R)
               /\ IsGood(x) => \A m, n \in R : m = n
               /\ f = "judge_verdicts" /\ IsGood(x) =>
                    /\ DOMAIN x.ok = DOMAIN CriteriaIn(v)
                    /\ \A i \in DOMAIN CriteriaIn(v) : x.ok[i].criterion = CriteriaIn(v)[i]
    OBVIOUS
  <1>2. CASE f = "ts_utc"
    <2>1. f \notin CountFields /\ f # "judge_verdicts"
      BY <1>2 DEF CountFields
    <2>2. x = CoerceTimestamp(v, file.naive) /\ R = InstantsOf(v)
      BY <1>2, <2>1 DEF Coerced, ReadingsOf
    <2> HIDE DEF x, R
    <2> QED BY <1>1, <2>1, <2>2, InstantTells
  <1>3. CASE f \in CountFields
    <2>1. f # "ts_utc" /\ f # "judge_verdicts"
      BY <1>3 DEF CountFields
    <2>2. x = CoerceInt(v) /\ R = NumberOf(v)
      BY <1>3, <2>1 DEF Coerced, ReadingsOf
    <2> HIDE DEF x, R
    <2> QED BY <1>1, <2>1, <2>2, IntTells
  <1>4. CASE f = "judge_verdicts"
    <2> DEFINE keys == SpecFor("judge_verdicts")
    <2>1. f # "ts_utc" /\ f \notin CountFields
      BY <1>4 DEF CountFields
    <2>2. x = CoerceVerdicts(v, keys) /\ R = VerdictSets(v, keys)
      BY <1>4, <2>1 DEF Coerced, ReadingsOf
    <2> HIDE DEF x, R
    <2>3. keys = SpecFor("judge_verdicts")
      OBVIOUS
    <2> HIDE DEF keys
    <2>4. /\ Typed(x)
          /\ IsGood(x) =>
                /\ R = {ToSet(x.ok)}
                /\ DOMAIN x.ok = DOMAIN CriteriaIn(v)
                /\ \A i \in DOMAIN CriteriaIn(v) : x.ok[i].criterion = CriteriaIn(v)[i]
          /\ ~IsGood(x) => R = {}
      BY <2>2, <2>3, ColumnTells
    <2>5. CASE IsGood(x)
      BY <1>4, <2>4, <2>5 DEF Meant
    <2>6. CASE ~IsGood(x)
      BY <1>4, <2>4, <2>6 DEF Meant
    <2> QED BY <2>5, <2>6
  <1>5. CASE f # "ts_utc" /\ f \notin CountFields /\ f # "judge_verdicts"
    <2>1. x = CoerceText(v, f = "record_id")
      BY <1>5 DEF Coerced
    <2>2. R = IF Is(v, "str") THEN {v.str}
              ELSE IF f = "record_id" /\ Is(v, "int") THEN {<<ToString(v.int)>>} ELSE {}
      BY <1>5 DEF ReadingsOf
    <2> HIDE DEF x, R
    <2>3. Tells(x, R)
      BY <2>1, <2>2, TextTells
    <2> QED BY <1>1, <1>5, <2>3
  <1> QED BY <1>2, <1>3, <1>4, <1>5

\* What the reading of an offered field comes to.
FieldMeant(row, f) ==
    /\ Meant(ResultOf(row, f), f, Meanings(row, f))
    /\ f \notin SidecarTarget(file) /\ IsGood(ResultOf(row, f)) => \A m, n \in Meanings(row, f) : m = n
    /\ f \in SidecarTarget(file) => /\ f \in TextFields
                                    /\ \A t \in Meanings(row, f) : ~Blank(t)
    /\ f = "judge_verdicts" /\ IsGood(ResultOf(row, f)) =>
         /\ DOMAIN ResultOf(row, f).ok = DOMAIN Criteria(row)
         /\ \A i \in DOMAIN Criteria(row) : ResultOf(row, f).ok[i].criterion = Criteria(row)[i]

\* Every field of a row is read as it is meant.
LEMMA FieldsMeant ==
    ASSUME source \in Sources, Usable, IsGood(Loaded), NEW row, Legible(row),
           NEW f \in OfferedFields(row)
    PROVE  FieldMeant(row, f)
  <1> DEFINE x == ResultOf(row, f)
             R == Meanings(row, f)
  <1>1. Sorted(file)
    BY SortedIs
  <1>2. CASE f \in SidecarTarget(file)
    <2>1. "sidecar" \in DOMAIN file /\ f \in TextFields
      BY <1>1, <1>2 DEF SidecarTarget, Sorted, MappingFit
    <2>2. f # "judge_verdicts"
      BY <2>1 DEF TextFields
    <2>3. x = FromSidecar(file, row, Loaded.ok) /\ R = JoinedTo(Follow(row, file.sidecar.key))
      BY <1>2 DEF ResultOf, Meanings
    <2> HIDE DEF x, R
    <2>4. Meant(x, f, R) /\ \A t \in R : ~Blank(t)
      BY <2>1, <2>2, <2>3, SidecarMeant
    <2> QED BY <1>2, <2>1, <2>2, <2>4 DEF FieldMeant, x, R
  <1>3. CASE f \notin SidecarTarget(file)
    <2> DEFINE v == Offered(row, f)
    <2>1. Legible(v)
      BY <1>1, <1>3, OfferedIs
    <2>2. x = Coerced(file, f, v, SpecFor(f)) /\ R = ReadingsOf(f, v)
      BY <1>3 DEF ResultOf, Meanings
    <2>3. f = "judge_verdicts" => Criteria(row) = CriteriaIn(v)
      BY DEF Criteria
    <2> HIDE DEF x, R, v
    <2>4. /\ Meant(x, f, R)
          /\ IsGood(x) => \A m, n \in R : m = n
          /\ f = "judge_verdicts" /\ IsGood(x) =>
                /\ DOMAIN x.ok = DOMAIN CriteriaIn(v)
                /\ \A i \in DOMAIN CriteriaIn(v) : x.ok[i].criterion = CriteriaIn(v)[i]
      BY <2>1, <2>2, CoercedMeant
    <2> QED BY <1>3, <2>3, <2>4 DEF FieldMeant, x, R
  <1> QED BY <1>2, <1>3

----------------------------------------------------------------------------
(***************************************************************************)
(* The record of a row, before it is redacted.                             *)
(***************************************************************************)

\* Why no record can be made of a row, whatever the redactor replaces.
Lost(row) ==
    \/ \E f \in ToSet(Required) : IsMapped(f) /\ f \notin OfferedFields(row)
    \/ \E f \in OfferedFields(row) : \A m \in Meanings(row, f) : Unfit(f, m)
    \/ "output_text" \in OfferedFields(row) <=> "error" \in OfferedFields(row)
    \/ /\ "judge_verdicts" \in OfferedFields(row)
       /\ \E i, j \in DOMAIN Criteria(row) : i # j /\ Criteria(row)[i] = Criteria(row)[j]

\* A record that says what its row does.
SaysRow(row, r) ==
    /\ DOMAIN r = OfferedFields(row)
    /\ \A f \in DOMAIN r : \E m \in Meanings(row, f) : Carries(r[f], f, m)
    /\ "judge_verdicts" \in DOMAIN r =>
         /\ DOMAIN r.judge_verdicts = DOMAIN Criteria(row)
         /\ \A i \in DOMAIN Criteria(row) : r.judge_verdicts[i].criterion = Criteria(row)[i]

\* What a record may be refused for.
Faults(r) ==
    \/ Blank(r.record_id) \/ "\n" \in ToSet(r.record_id)
    \/ \E f \in DOMAIN r \cap (TextFields \cup OptionalText) : Blank(r[f])
    \/ \E f \in DOMAIN r \cap CountFields : r[f] < 0
    \/ "output_text" \in DOMAIN r <=> "error" \in DOMAIN r
    \/ AnsweredTwice(Verdicts(r))

\* A record is refused for nothing else.
LEMMA FaultsAre ==
    ASSUME NEW r
    PROVE  /\ Faults(r) => \E e \in RecordErrors : Validated(r) = Bad(e)
           /\ ~Faults(r) => Validated(r) = Good(r)
  <1>1. {"RecordError", "MissingFieldError", "FieldTypeError"} \subseteq RecordErrors
    BY DEF RecordErrors
  <1>2. CASE Blank(r.record_id)
    <2>1. Validated(r) = Bad("MissingFieldError")
      BY <1>2 DEF Validated
    <2> QED BY <1>1, <1>2, <2>1 DEF Faults
  <1>3. CASE ~Blank(r.record_id)
    <2>1. Validated(r) =
            IF "\n" \in ToSet(r.record_id) THEN Bad("FieldTypeError")
            ELSE IF \E f \in DOMAIN r \cap (TextFields \cup OptionalText) : Blank(r[f])
                 THEN Bad("MissingFieldError")
            ELSE IF \E f \in DOMAIN r \cap CountFields : r[f] < 0 THEN Bad("FieldTypeError")
            ELSE IF "output_text" \in DOMAIN r <=> "error" \in DOMAIN r THEN Bad("RecordError")
            ELSE IF AnsweredTwice(Verdicts(r)) THEN Bad("RecordError")
            ELSE Good(r)
      BY <1>3 DEF Validated
    <2>2. Validated(r) = IF Faults(r) THEN Validated(r) ELSE Good(r)
      BY <1>3, <2>1 DEF Faults
    <2>3. Faults(r) => Validated(r) \in {Bad("RecordError"), Bad("MissingFieldError"), Bad("FieldTypeError")}
      BY <1>3, <2>1 DEF Faults
    <2> QED BY <1>1, <2>2, <2>3
  <1> QED BY <1>2, <1>3

\* A text that was cut is not blank, and one that is not blank stays so.
LEMMA CutIsNoBlank ==
    ASSUME NEW text, IsSeq(text), Blank(Truncate(text))
    PROVE  Truncate(text) = text
  <1>1. CASE Len(text) <= MaxText
    BY <1>1 DEF Truncate
  <1>2. CASE ~(Len(text) <= MaxText)
    <2> DEFINE a == SubSeq(text, 1, MaxText)
    <2>1. Truncate(text) = a \o <<"...">>
      BY <1>2 DEF Truncate, Truncated
    <2>2. "..." \in ToSet(a \o <<"...">>)
      <3>1. MaxText \in Nat /\ IsSeq(text) /\ Len(text) \in Nat
        BY EpochAssumption, LenProperties DEF IsSeq
      <3>2. a \in Seq(ToSet(text))
        <4>1. \A i \in 1 .. MaxText : text[i] \in ToSet(text)
          <5>1. \A i \in 1 .. MaxText : i \in DOMAIN text
            BY <1>2, <3>1, LenProperties DEF IsSeq
          <5> QED BY <5>1 DEF ToSet
        <4> QED BY <3>1, <4>1, SubSeqProperties DEF IsSeq
      <3> DEFINE W == ToSet(text) \cup {"..."}
                 b == <<"...">>
                 c == a \o b
      <3>3. a \in Seq(W) /\ b \in Seq(W) /\ Len(b) = 1 /\ b[1] = "..."
        BY <3>2
      <3> HIDE DEF a, W, b
      <3>4. Len(a) \in Nat /\ c[Len(a) + 1] = b[1] /\ Len(a) + 1 \in DOMAIN c
        BY <3>3, ConcatProperties, LenProperties
      <3> QED BY <3>3, <3>4 DEF ToSet, b
    <2>3. "..." \notin Space
      BY DEF Space
    <2> QED BY <2>1, <2>2, <2>3 DEF Blank
  <1> QED BY <1>1, <1>2

\* Values of a row, each with its meaning.
LEMMA ValuesMeant ==
    ASSUME source \in Sources, Usable, IsGood(Loaded), NEW row, Legible(row),
           IsGood(Values(file, row, Loaded.ok))
    PROVE  LET v == Values(file, row, Loaded.ok).ok
           IN  /\ DOMAIN v = OfferedFields(row)
               /\ \A f \in DOMAIN v : /\ FieldMeant(row, f) /\ FieldReadable(f, v[f])
                                      /\ IsGood(ResultOf(row, f)) /\ v[f] = ResultOf(row, f).ok
  <1> DEFINE x == Values(file, row, Loaded.ok)
  <1>1. Says(row, OfferedFields(row), x)
    BY SortedIs, ValuesSay
  <1>2. \A f \in OfferedFields(row) : FieldMeant(row, f)
    BY FieldsMeant
  <1>3. ValuesTyped(x)
    BY SortedIs, LoadedIs, ValuesAre DEF Sorted
  <1> HIDE DEF x
  <1> QED BY <1>1, <1>2, <1>3 DEF Says, ValuesTyped, x

\* What is cut is carried.
LEMMA CutCarries ==
    ASSUME NEW v, \A f \in DOMAIN v : FieldReadable(f, v[f]), NEW f \in DOMAIN v
    PROVE  /\ f # "judge_verdicts" => Carries(Cut(v)[f], f, v[f])
           /\ f = "judge_verdicts" => Carries(Cut(v)[f], f, ToSet(v[f])) /\ Cut(v)[f] = v[f]
           /\ f \notin TextFields => Cut(v)[f] = v[f]
           /\ f \in TextFields /\ Blank(Cut(v)[f]) => Cut(v)[f] = v[f]
  <1>1. Cut(v)[f] = IF f \in TextFields THEN Truncate(v[f]) ELSE v[f]
    BY DEF Cut
  <1>2. CASE f \in TextFields
    <2>1. f # "judge_verdicts" /\ f \in ToSet(RedactedTextFields)
      BY <1>2, FieldsAre DEF TextFields
    <2>2. IsSeq(v[f])
      BY <2>1 DEF FieldReadable
    <2> DEFINE t == v[f]
               c == Cut(v)[f]
    <2>3. c = Truncate(t) /\ Len(t) \in Nat /\ MaxText \in Nat
      BY <1>1, <1>2, <2>2, LenProperties, EpochAssumption DEF IsSeq
    <2>4. Blank(c) => c = t
      BY <2>2, <2>3, CutIsNoBlank
    <2>5. c # t => Len(t) > MaxText /\ c = Truncated(t)
      BY <2>3 DEF Truncate
    <2> HIDE DEF c, t
    <2>6. Carries(c, f, t)
      BY <1>2, <2>1, <2>5 DEF Carries
    <2> QED BY <1>2, <2>1, <2>4, <2>6 DEF c, t
  <1>3. CASE f \notin TextFields
    <2>1. Cut(v)[f] = v[f]
      BY <1>1, <1>3
    <2> QED BY <1>3, <2>1 DEF Carries
  <1> QED BY <1>2, <1>3

\* The one meaning of a field that is not joined is the value that was read.
LEMMA OneMeaning ==
    ASSUME NEW row, NEW f, f # "judge_verdicts", FieldMeant(row, f), IsGood(ResultOf(row, f)),
           f \notin SidecarTarget(file)
    PROVE  \A m \in Meanings(row, f) : m = ResultOf(row, f).ok
  <1>1. ResultOf(row, f).ok \in Meanings(row, f)
    BY DEF FieldMeant, Meant
  <1> QED BY <1>1 DEF FieldMeant

\* A fault of the record is a fault of the row.
LEMMA FaultLoses ==
    ASSUME source \in Sources, Usable, IsGood(Loaded), NEW row, Legible(row),
           IsGood(Values(file, row, Loaded.ok)),
           ToSet(Required) \subseteq OfferedFields(row),
           Faults(Cut(Values(file, row, Loaded.ok).ok))
    PROVE  Lost(row)
  <1> DEFINE v == Values(file, row, Loaded.ok).ok
             r == Cut(v)
             O == OfferedFields(row)
  <1>1. /\ DOMAIN v = O
        /\ \A f \in O : /\ FieldMeant(row, f) /\ FieldReadable(f, v[f])
                        /\ IsGood(ResultOf(row, f)) /\ v[f] = ResultOf(row, f).ok
    BY ValuesMeant
  <1>2. DOMAIN r = O
    BY <1>1 DEF Cut
  <1>3. \A f \in O : /\ f \notin TextFields => r[f] = v[f]
                     /\ f \in TextFields /\ Blank(r[f]) => r[f] = v[f]
                     /\ f = "judge_verdicts" => r[f] = v[f]
    BY <1>1, CutCarries
  <1>4. Faults(r)
    OBVIOUS
  <1> HIDE DEF v, r
  <1>5. ASSUME NEW f \in O, f # "judge_verdicts", f \notin SidecarTarget(file), Unfit(f, v[f])
        PROVE  Lost(row)
    <2>1. \A m \in Meanings(row, f) : m = v[f]
      BY <1>1, <1>5, OneMeaning
    <2>2. \A m \in Meanings(row, f) : Unfit(f, m)
      BY <1>5, <2>1
    <2> QED BY <2>2 DEF Lost
  <1>6. SidecarTarget(file) \subseteq TextFields
    BY SortedIs DEF Sorted, MappingFit, SidecarTarget
  <1>7. CASE Blank(r.record_id) \/ "\n" \in ToSet(r.record_id)
    <2> DEFINE f == "record_id"
    <2>1. f \in O
      BY FieldsAre DEF ToSet, Required
    <2>2. f \notin TextFields /\ f # "judge_verdicts" /\ f \notin CountFields
      BY DEF TextFields, CountFields
    <2>3. r.record_id = v[f]
      BY <1>3, <2>1, <2>2
    <2>4. Unfit(f, v[f])
      BY <1>7, <2>2, <2>3 DEF Unfit
    <2> QED BY <1>5, <1>6, <2>1, <2>2, <2>4
  <1>8. CASE \E f \in DOMAIN r \cap (TextFields \cup OptionalText) : Blank(r[f])
    <2>1. PICK f \in O : f \in TextFields \cup OptionalText /\ Blank(r[f])
      BY <1>2, <1>8
    <2>2. f # "judge_verdicts" /\ f \notin CountFields
      BY <2>1 DEF TextFields, OptionalText, CountFields
    <2>3. Blank(v[f])
      BY <1>3, <2>1
    <2>4. Unfit(f, v[f])
      BY <2>1, <2>2, <2>3 DEF Unfit
    <2>5. f \notin SidecarTarget(file)
      <3>1. v[f] \in Meanings(row, f)
        BY <1>1, <2>2 DEF FieldMeant, Meant
      <3> QED BY <1>1, <2>3, <3>1 DEF FieldMeant
    <2> QED BY <1>5, <2>2, <2>4, <2>5
  <1>9. CASE \E f \in DOMAIN r \cap CountFields : r[f] < 0
    <2>1. PICK f \in O : f \in CountFields /\ r[f] < 0
      BY <1>2, <1>9
    <2>2. f # "judge_verdicts" /\ f \notin {"record_id"} \cup TextFields \cup OptionalText
      BY <2>1 DEF TextFields, CountFields, OptionalText
    <2>3. Unfit(f, v[f])
      BY <1>3, <2>1, <2>2 DEF Unfit
    <2> QED BY <1>5, <1>6, <2>2, <2>3
  <1>10. CASE "output_text" \in DOMAIN r <=> "error" \in DOMAIN r
    BY <1>2, <1>10 DEF Lost
  <1>11. CASE AnsweredTwice(Verdicts(r))
    <2> DEFINE f == "judge_verdicts"
    <2>1. f \in O
      <3>1. f \notin DOMAIN r => Verdicts(r) = << >> /\ DOMAIN << >> = {}
        BY DEF Verdicts
      <3> QED BY <1>2, <1>11, <3>1 DEF AnsweredTwice
    <2>2. Verdicts(r) = v[f]
      BY <1>2, <1>3, <2>1 DEF Verdicts
    <2>3. /\ DOMAIN v[f] = DOMAIN Criteria(row)
          /\ \A i \in DOMAIN Criteria(row) : v[f][i].criterion = Criteria(row)[i]
      BY <1>1, <2>1 DEF FieldMeant
    <2>4. \E i, j \in DOMAIN Criteria(row) : i # j /\ Criteria(row)[i] = Criteria(row)[j]
      BY <1>11, <2>2, <2>3 DEF AnsweredTwice
    <2> QED BY <2>1, <2>4 DEF Lost
  <1> QED BY <1>4, <1>7, <1>8, <1>9, <1>10, <1>11 DEF Faults

\* What is made of a row says what the row does, and nothing is made of a row
\* only when it is lost.
LEMMA BuiltMeant ==
    ASSUME source \in Sources, Usable, IsGood(Loaded), NEW row, Legible(row)
    PROVE  LET x == BuildRecord(file, row, Loaded.ok)
           IN  /\ IsGood(x) => SaysRow(row, x.ok) /\ ~Faults(x.ok)
               /\ ~IsGood(x) /\ x.bad \in RecordErrors => Lost(row)
  <1> DEFINE values == Values(file, row, Loaded.ok)
             x == BuildRecord(file, row, Loaded.ok)
             r == Cut(values.ok)
             O == OfferedFields(row)
  <1>1. x = IF ~IsGood(values) THEN values
            ELSE IF ~(ToSet(Required) \subseteq DOMAIN values.ok) THEN Bad("MissingFieldError")
            ELSE Validated(r)
    BY DEF BuildRecord, Assembled
  <1>2. CASE ~IsGood(values)
    <2>1. Blamed(row, values)
      BY <1>2, SortedIs, ValuesSay DEF Says
    <2>2. x = values
      BY <1>1, <1>2
    <2> HIDE DEF x, values
    <2> SUFFICES ASSUME x.bad \in RecordErrors PROVE Lost(row)
      BY <1>2, <2>2 DEF x
    <2>3. CASE \E f \in O : ~IsGood(ResultOf(row, f)) /\ values = ResultOf(row, f)
      <3>1. PICK f \in O : ~IsGood(ResultOf(row, f)) /\ values = ResultOf(row, f)
        BY <2>3
      <3>2. FieldMeant(row, f)
        BY FieldsMeant
      <3>3. Meanings(row, f) = {}
        BY <2>2, <3>1, <3>2 DEF FieldMeant, Meant
      <3> QED BY <3>3 DEF Lost
    <2>4. CASE \E f \in ToSet(Required) : IsMapped(f) /\ f \notin O
      BY <2>4 DEF Lost
    <2> QED BY <2>1, <2>2, <2>3, <2>4 DEF Blamed
  <1>3. CASE IsGood(values)
    <2>1. /\ DOMAIN values.ok = O
          /\ \A f \in O : /\ FieldMeant(row, f) /\ FieldReadable(f, values.ok[f])
                          /\ IsGood(ResultOf(row, f)) /\ values.ok[f] = ResultOf(row, f).ok
      BY <1>3, ValuesMeant
    <2>2. CASE ~(ToSet(Required) \subseteq O)
      <3>1. ~IsGood(x)
        BY <1>1, <1>3, <2>1, <2>2, GoodOrBad
      <3>2. PICK f \in ToSet(Required) : f \notin O
        BY <2>2
      <3>3. Sorted(file)
        BY SortedIs
      <3>4. f \in RecordKeys
        BY DEF RecordKeys
      <3>5. f \notin SidecarTarget(file) /\ f \notin DOMAIN file.defaults
        <4>1. ASSUME f \in SidecarTarget(file) \/ f \in DOMAIN file.defaults PROVE FALSE
          <5>1. Origin(row, f) # "nowhere"
            BY <4>1 DEF Origin
          <5> QED BY <3>2, <3>4, <5>1 DEF OfferedFields
        <4> QED BY <4>1
      <3>6. IsMapped(f)
        BY <3>3, <3>5 DEF Sorted, Supplied, IsMapped
      <3>7. Lost(row)
        BY <3>2, <3>6 DEF Lost
      <3> QED BY <3>1, <3>7
    <2>3. CASE ToSet(Required) \subseteq O
      <3>1. x = Validated(r)
        BY <1>1, <1>3, <2>1, <2>3
      <3>2. CASE Faults(r)
        <4>1. Lost(row)
          BY <1>3, <2>3, <3>2, FaultLoses
        <4>2. ~IsGood(x)
          BY <3>1, <3>2, FaultsAre, GoodOrBad
        <4> QED BY <4>1, <4>2
      <3>3. CASE ~Faults(r)
        <4>1. IsGood(x) /\ x.ok = r
          BY <3>1, <3>3, FaultsAre, GoodOrBad
        <4>2. DOMAIN r = O
          BY <2>1 DEF Cut
        <4>3. ASSUME NEW f \in O PROVE \E m \in Meanings(row, f) : Carries(r[f], f, m)
          <5>1. (IF f = "judge_verdicts" THEN ToSet(values.ok[f]) ELSE values.ok[f]) \in Meanings(row, f)
            BY <2>1 DEF FieldMeant, Meant
          <5>2. /\ f # "judge_verdicts" => Carries(r[f], f, values.ok[f])
                /\ f = "judge_verdicts" => Carries(r[f], f, ToSet(values.ok[f]))
            BY <2>1, CutCarries
          <5> QED BY <5>1, <5>2
        <4>4. ASSUME "judge_verdicts" \in O
              PROVE  /\ DOMAIN r.judge_verdicts = DOMAIN Criteria(row)
                     /\ \A i \in DOMAIN Criteria(row) : r.judge_verdicts[i].criterion = Criteria(row)[i]
          <5> DEFINE f == "judge_verdicts"
          <5>1. r[f] = values.ok[f]
            BY <2>1, <4>4, CutCarries
          <5>2. FieldMeant(row, f) /\ IsGood(ResultOf(row, f)) /\ r[f] = ResultOf(row, f).ok
            BY <2>1, <4>4, <5>1
          <5> QED BY <5>2 DEF FieldMeant
        <4> HIDE DEF r, x, values
        <4>5. SaysRow(row, r)
          BY <4>2, <4>3, <4>4 DEF SaysRow
        <4> QED BY <3>3, <4>1, <4>5 DEF x
      <3> QED BY <3>2, <3>3
    <2> QED BY <2>2, <2>3
  <1> QED BY <1>2, <1>3

----------------------------------------------------------------------------
(***************************************************************************)
(* A row as it is read, and its columns as they stand.                     *)
(***************************************************************************)

\* A row of a CSV file holds its cells under their names, and nulls besides.
LEMMA CellsAlike ==
    ASSUME source \in Sources, ~HeaderRefused, NEW line \in ToSet(source.lines), IsGood(ReadLine(line))
    PROVE  /\ Legible(Cells(line)) /\ RowsAlike(ReadLine(line).ok, Cells(line))
           /\ Format = "jsonl" => Cells(line) = ReadLine(line).ok
  <1> DEFINE x == ReadLine(line).ok
             y == Cells(line)
  <1>1. CASE /\ Is(line, "json") /\ line.json \in Json /\ Is(line.json, "dict") /\ x = line.json
    <2>1. y = x /\ Is(x, "dict") /\ x \in Json
      BY <1>1 DEF Cells
    <2>2. Legible(y)
      BY <2>1, PlainlyLegible
    <2> QED BY <2>1, <2>2 DEF RowsAlike, Alike
  <1>2. CASE /\ Is(line, "cells") /\ line.cells \in Seq(Seq(STRING))
             /\ "header" \in DOMAIN source /\ source.header \in Seq(STRING)
             /\ Len(line.cells) <= Len(source.header)
             /\ \A i \in DOMAIN line.cells : Str(line.cells[i]) \in Json
             /\ x = CsvRow(source.header, line.cells)
    <2> DEFINE header == source.header
               cells == line.cells
               names == {header[i] : i \in DOMAIN cells}
               here == [c \in names |-> Str(cells[CHOOSE i \in DOMAIN cells : header[i] = c])]
               there == [c \in ToSet(header) |->
                           LET i == CHOOSE k \in DOMAIN header : header[k] = c
                           IN  IF i <= Len(cells) THEN Str(cells[i]) ELSE Null]
    <2>1. Format # "jsonl" /\ IsInjective(header)
      BY <1>2 DEF Format, HeaderRefused
    <2>2. x = [dict |-> there]
      BY <1>2 DEF CsvRow
    <2>3. y = [dict |-> here]
      <3>1. ~Is(line, "json")
        BY <1>2 DEF Is
      <3> QED BY <3>1 DEF Cells
    <2>4. /\ Len(cells) \in Nat /\ DOMAIN cells = 1 .. Len(cells)
          /\ Len(header) \in Nat /\ DOMAIN header = 1 .. Len(header)
          /\ Len(cells) <= Len(header)
      BY <1>2, LenProperties
    <2>5. \A i, k \in DOMAIN header : header[i] = header[k] => i = k
      BY <2>1 DEF IsInjective
    <2>6. \A i \in DOMAIN cells : Str(cells[i]) \in Json
      BY <1>2
    <2>7. /\ DOMAIN x = {"dict"} /\ x.dict = there /\ DOMAIN y = {"dict"} /\ y.dict = here
      BY <2>2, <2>3
    <2>8. IsFiniteSet(names)
      <3>1. names \subseteq ToSet(header)
        BY <2>4 DEF ToSet
      <3>2. IsFiniteSet(ToSet(header))
        BY <1>2, ToSetFinite
      <3> QED BY <3>1, <3>2, FS_Subset
    <2> HIDE DEF header, cells, x, y
    <2>9. ASSUME NEW i \in DOMAIN header
          PROVE  /\ header[i] \in DOMAIN there
                 /\ there[header[i]] = IF i <= Len(cells) THEN Str(cells[i]) ELSE Null
                 /\ header[i] \in names <=> i <= Len(cells)
                 /\ i <= Len(cells) => here[header[i]] = Str(cells[i]) /\ here[header[i]] \in Json
      <3> DEFINE c == header[i]
                 j == CHOOSE k \in DOMAIN header : header[k] = c
                 l == CHOOSE k \in DOMAIN cells : header[k] = c
      <3>1. c \in ToSet(header)
        BY DEF ToSet
      <3>2. j = i
        <4>1. j \in DOMAIN header /\ header[j] = c
          OBVIOUS
        <4> QED BY <2>5, <4>1
      <3>3. there[c] = IF j <= Len(cells) THEN Str(cells[j]) ELSE Null
        BY <3>1
      <3>4. c \in names <=> i <= Len(cells)
        <4>1. i <= Len(cells) => i \in DOMAIN cells
          BY <2>4
        <4>2. ASSUME c \in names PROVE i <= Len(cells)
          <5>1. PICK k \in DOMAIN cells : header[k] = c
            BY <4>2
          <5>2. k \in DOMAIN header /\ k <= Len(cells)
            BY <2>4
          <5> QED BY <2>5, <5>1, <5>2
        <4> QED BY <4>1, <4>2
      <3>5. ASSUME i <= Len(cells) PROVE here[c] = Str(cells[i]) /\ here[c] \in Json
        <4>1. i \in DOMAIN cells
          BY <2>4, <3>5
        <4>2. l \in DOMAIN cells /\ header[l] = c
          BY <4>1
        <4>3. l \in DOMAIN header
          BY <2>4, <4>2
        <4>4. l = i
          BY <2>5, <4>2, <4>3
        <4>5. here[c] = Str(cells[l])
          BY <3>4, <3>5
        <4> QED BY <2>6, <4>1, <4>4, <4>5
      <3> QED BY <3>1, <3>2, <3>3, <3>4, <3>5
    <2>10. DOMAIN there = ToSet(header) /\ DOMAIN here = names
      OBVIOUS
    <2>11. names \subseteq ToSet(header) /\ \A c : c \in ToSet(header) => \E i \in DOMAIN header : c = header[i]
      BY <2>4 DEF ToSet
    <2> HIDE DEF here, there, names
    <2>12. Legible(y)
      <3>1. \A c \in DOMAIN y.dict : y.dict[c] \in Json
        BY <2>7, <2>9, <2>10, <2>11
      <3>2. IsFiniteSet(DOMAIN y.dict)
        BY <2>7, <2>8, <2>10
      <3>3. /\ ~Is(y, "int") /\ ~Is(y, "float") /\ ~Is(y, "bool") /\ ~Is(y, "str") /\ ~Is(y, "list")
        BY <2>7 DEF Is
      <3> QED BY <3>1, <3>2, <3>3 DEF Legible
    <2>13. Is(x, "dict") /\ Is(y, "dict")
      BY <2>7 DEF Is
    <2>14. ASSUME NEW c PROVE Alike(Follow(x, c), Follow(y, c))
      <3>1. /\ Follow(x, c) = IF c \in DOMAIN there THEN there[c] ELSE Missing
            /\ Follow(y, c) = IF c \in DOMAIN here THEN here[c] ELSE Missing
        BY <2>7 DEF Follow, Is
      <3>2. Absent(Null) /\ Absent(Missing)
        BY DEF Absent, Null, Missing, Is
      <3>3. CASE c \notin ToSet(header)
        BY <2>10, <2>11, <3>1, <3>3 DEF Alike
      <3>4. CASE c \in ToSet(header)
        <4>1. PICK i \in DOMAIN header : c = header[i]
          BY <2>11, <3>4
        <4>2. CASE i <= Len(cells)
          BY <2>9, <2>10, <3>1, <4>1, <4>2 DEF Alike
        <4>3. CASE ~(i <= Len(cells))
          BY <2>9, <2>10, <3>1, <3>2, <4>1, <4>3 DEF Alike
        <4> QED BY <4>2, <4>3
      <3> QED BY <3>3, <3>4
    <2> QED BY <2>1, <2>12, <2>13, <2>14 DEF RowsAlike, x, y
  <1> QED BY <1>1, <1>2, LineIs

\* What was made of a line says what its columns do.
MadeMeant(n) ==
    LET x == made[n]
        row == Cells(source.lines[n])
    IN  IF IsGood(ReadLine(source.lines[n]))
        THEN /\ IsGood(x) => SaysRow(row, x.ok) /\ ~Faults(x.ok)
             /\ ~IsGood(x) /\ x.bad \in RecordErrors => Lost(row)
        ELSE ~IsGood(x) /\ (Is(x, "bad") => Unreadable(source.lines[n]))

\* The rows are read column by column.
LEMMA MadeIsMeant ==
    ASSUME source \in Sources, Usable, IsGood(Loaded), FromLines,
           Format = "jsonl" \/ ~RowIsVerdicts,
           NEW n \in 1 .. Len(made), n \in 1 .. Len(source.lines)
    PROVE  MadeMeant(n)
  <1> DEFINE line == source.lines[n]
             read == ReadLine(line)
             row == Cells(line)
             x == made[n]
  <1>1. line \in ToSet(source.lines) /\ ~HeaderRefused
    <2>1. made # << >>
      <3>1. ASSUME made = << >> PROVE FALSE
        <4>1. Len(made) = 0
          BY <3>1
        <4> QED BY <4>1
      <3> QED BY <3>1
    <2> QED BY <2>1, LinesAre DEF FromLines
  <1>2. x = IF IsGood(read) THEN BuildRecord(file, read.ok, Loaded.ok) ELSE read
    BY DEF FromLines, MadeOf
  <1> HIDE DEF line
  <1>3. CASE IsGood(read)
    <2>1. /\ Legible(row) /\ RowsAlike(read.ok, row)
          /\ Format = "jsonl" => row = read.ok
      BY <1>1, <1>3, CellsAlike
    <2>2. x = BuildRecord(file, row, Loaded.ok)
      <3>1. CASE Format = "jsonl"
        BY <1>2, <1>3, <2>1, <3>1
      <3>2. CASE ~RowIsVerdicts
        <4>1. MappingFit(file)
          BY UsableIs
        <4>2. NoRowVerdicts(file)
          BY <3>2 DEF RowIsVerdicts, NoRowVerdicts
        <4>3. \A i \in DOMAIN file.fields : FieldSpec(file.fields[i]).path \in Seq(STRING)
          BY SourcesAssumption DEF file
        <4> HIDE DEF read, row
        <4>4. BuildRecord(file, read.ok, Loaded.ok) = BuildRecord(file, row, Loaded.ok)
          BY <2>1, <4>1, <4>2, <4>3, BuildAlike
        <4> QED BY <1>2, <1>3, <4>4
      <3> QED BY <3>1, <3>2
    <2> HIDE DEF row, x
    <2>3. /\ IsGood(x) => SaysRow(row, x.ok) /\ ~Faults(x.ok)
          /\ ~IsGood(x) /\ x.bad \in RecordErrors => Lost(row)
      BY <2>1, <2>2, BuiltMeant
    <2> QED BY <1>3, <2>3 DEF MadeMeant, x, row, line
  <1>4. CASE ~IsGood(read)
    <2>1. x = read /\ (Is(read, "bad") => Unreadable(line))
      BY <1>1, <1>2, <1>4, LineIs
    <2> HIDE DEF x
    <2> QED BY <1>4, <2>1 DEF MadeMeant, x, line
  <1> QED BY <1>3, <1>4

----------------------------------------------------------------------------
(***************************************************************************)
(* A record through the Redactor, and validated once more.                 *)
(***************************************************************************)

\* A token is not a space, whatever its class and number.
TokensPrint == \A c \in ToSet(Classes), i \in Nat \ {0} : Token(c, i) \notin Space

\* What stands in one of some texts stands in them end to end.
LEMMA FlattenHolds ==
    ASSUME NEW S, NEW seqs \in Seq(Seq(S)), NEW i \in DOMAIN seqs, NEW x \in ToSet(seqs[i])
    PROVE  x \in ToSet(FlattenSeq(seqs))
  <1> DEFINE n == Len(seqs)
  <1>1. n \in Nat /\ DOMAIN seqs = 1 .. n /\ \A k \in 1 .. n : seqs[k] \in Seq(S)
    BY LenProperties
  <1>2. PICK c : /\ FlattenSeq(seqs) = c[n]
                 /\ \A k \in 1 .. n : c[k] = c[k - 1] \o seqs[k]
                 /\ \A k \in 0 .. n : c[k] \in Seq(S)
    BY FlattenBySteps
  <1> HIDE DEF n
  <1>3. ASSUME NEW a \in Seq(S), NEW b \in Seq(S)
        PROVE  ToSet(a) \subseteq ToSet(a \o b) /\ ToSet(b) \subseteq ToSet(a \o b)
    <2> DEFINE c1 == a \o b
    <2>1. /\ Len(a) \in Nat /\ Len(b) \in Nat /\ DOMAIN a = 1 .. Len(a) /\ DOMAIN b = 1 .. Len(b)
          /\ c1 \in Seq(S) /\ Len(c1) = Len(a) + Len(b)
          /\ \A k \in 1 .. Len(a) + Len(b) : c1[k] = IF k <= Len(a) THEN a[k] ELSE b[k - Len(a)]
      BY LenProperties, ConcatProperties
    <2>2. DOMAIN c1 = 1 .. Len(a) + Len(b)
      BY <2>1, LenProperties
    <2> HIDE DEF c1
    <2>3. ASSUME NEW k \in 1 .. Len(a) PROVE a[k] \in ToSet(c1)
      <3>1. k \in 1 .. Len(a) + Len(b) /\ k <= Len(a)
        BY <2>1
      <3>2. c1[k] = a[k] /\ k \in DOMAIN c1
        BY <2>1, <2>2, <3>1
      <3> QED BY <3>2 DEF ToSet
    <2>4. ASSUME NEW k \in 1 .. Len(b) PROVE b[k] \in ToSet(c1)
      <3> DEFINE j == Len(a) + k
      <3>1. j \in 1 .. Len(a) + Len(b) /\ ~(j <= Len(a)) /\ j - Len(a) = k
        BY <2>1
      <3> HIDE DEF j
      <3>2. c1[j] = b[k] /\ j \in DOMAIN c1
        BY <2>1, <2>2, <3>1
      <3> QED BY <3>2 DEF ToSet
    <2> QED BY <2>1, <2>3, <2>4 DEF ToSet, c1
  <1> DEFINE G == {k \in Nat : i <= k /\ k <= n => x \in ToSet(c[k])}
  <1>4. 0 \in G
    BY <1>1
  <1>5. ASSUME NEW k \in Nat, k \in G PROVE k + 1 \in G
    <2> SUFFICES ASSUME i <= k + 1, k + 1 <= n PROVE x \in ToSet(c[k + 1])
      OBVIOUS
    <2>1. k + 1 \in 1 .. n /\ (k + 1) - 1 = k /\ k \in 0 .. n /\ k <= n
      BY <1>1
    <2>2. c[k + 1] = c[k] \o seqs[k + 1] /\ c[k] \in Seq(S) /\ seqs[k + 1] \in Seq(S)
      BY <1>1, <1>2, <2>1
    <2>3. CASE i <= k
      <3>1. x \in ToSet(c[k])
        BY <1>5, <2>1, <2>3
      <3> QED BY <1>3, <2>2, <3>1
    <2>4. CASE ~(i <= k)
      <3>1. i = k + 1
        BY <1>1, <2>4
      <3>2. x \in ToSet(seqs[k + 1])
        BY <3>1
      <3> QED BY <1>3, <2>2, <3>2
    <2> QED BY <2>3, <2>4
  <1>6. n \in G
    <2> HIDE DEF G
    <2> QED BY <1>1, <1>4, <1>5, NumberInduction
  <1> QED BY <1>1, <1>2, <1>6

\* A value that was numbered has a positive number.
LEMMA NumbersArePositive ==
    ASSUME NEW read, IsSeq(read), NEW index, IndexTold(index, read), NEW k \in DOMAIN index
    PROVE  index[k] \in Nat \ {0}
  <1> DEFINE upTo == {j \in OfClass(index, k[1]) : FirstIn(read, j) <= FirstIn(read, k)}
  <1>1. DOMAIN index = ToSet(read) /\ index[k] = Cardinality(upTo)
    BY DEF IndexTold
  <1>2. IsFiniteSet(upTo)
    <2>1. IsFiniteSet(DOMAIN index)
      BY <1>1, ToSetFinite DEF IsSeq
    <2>2. upTo \subseteq DOMAIN index
      BY DEF OfClass
    <2> QED BY <2>1, <2>2, FS_Subset
  <1>3. k \in upTo
    <2>1. FirstIn(read, k) \in 1 .. Len(read) /\ Len(read) \in Nat
      BY <1>1, FirstInIs, LenProperties DEF IsSeq
    <2>2. FirstIn(read, k) <= FirstIn(read, k)
      BY <2>1
    <2> QED BY <2>2 DEF OfClass
  <1> HIDE DEF upTo
  <1>4. Cardinality(upTo) \in Nat /\ Cardinality(upTo) # 0
    BY <1>2, <1>3, FS_CardinalityType, FS_EmptySet
  <1> QED BY <1>1, <1>4

\* A text that says something still does once its values are replaced.
LEMMA RetoldSays ==
    ASSUME TokensPrint, NEW text, IsSeq(text), ~Blank(text), NEW enabled,
           NEW read, IsSeq(read), NEW index, IndexTold(index, read),
           \A s \in SpansBy(enabled, text) : Key(s) \in DOMAIN index
    PROVE  ~Blank(RetoldBy(text, SpansBy(enabled, text), index))
  <1> DEFINE spans == SpansBy(enabled, text)
             n == Len(text)
             piece(i) == PieceAt(text, spans, index, i)
             pieces == [i \in DOMAIN text |-> piece(i)]
             S == UNION {ToSet(piece(i)) : i \in DOMAIN text}
  <1>1. n \in Nat /\ DOMAIN text = 1 .. n /\ text \in Seq(ToSet(text))
    BY LenProperties DEF IsSeq
  <1>2. /\ Apart(spans, n) /\ spans \subseteq Open(text)
        /\ \A s \in spans : s.class \in ToSet(Classes)
    <2>1. Apart(spans, n) /\ spans \subseteq Open(text)
      BY <1>1, SpansAre
    <2>2. \A s \in Open(text) : IsSpan(s, text)
      BY <1>1, OpenAreSpans
    <2> QED BY <2>1, <2>2 DEF IsSpan
  <1>3. RetoldBy(text, spans, index) = FlattenSeq(pieces)
    BY DEF RetoldBy
  <1>4. \A s \in spans : TokenOf(s, index) \notin Space
    <2> TAKE s \in spans
    <2>1. index[Key(s)] \in Nat \ {0}
      BY NumbersArePositive
    <2> QED BY <1>2, <2>1 DEF TokensPrint, TokenOf
  <1>5. \A s \in spans : s.start \in 1 .. n /\ s.end \in 1 .. n + 1 /\ s.start < s.end
    BY <1>2 DEF Apart
  <1> HIDE DEF spans, n
  <1>6. ASSUME NEW i \in 1 .. n
        PROVE  \/ \E s \in spans : s.start = i /\ piece(i) = <<TokenOf(s, index)>>
               \/ \E s \in spans : s.start < i /\ i < s.end /\ piece(i) = << >>
               \/ (\A s \in spans : ~(s.start <= i /\ i < s.end)) /\ piece(i) = <<text[i]>>
    <2>1. /\ \A s \in spans : s.start = i => piece(i) = <<TokenOf(s, index)>>
          /\ \A s \in spans : s.start < i /\ i < s.end => piece(i) = << >>
          /\ (\A s \in spans : ~(s.start <= i /\ i < s.end)) => piece(i) = <<text[i]>>
      BY <1>1, <1>2, PieceIs
    <2>2. CASE \A s \in spans : ~(s.start <= i /\ i < s.end)
      BY <2>1, <2>2
    <2>3. CASE \E s \in spans : s.start <= i /\ i < s.end
      <3>1. PICK s \in spans : s.start <= i /\ i < s.end
        BY <2>3
      <3>2. s.start = i \/ s.start < i
        BY <1>1, <1>5, <3>1
      <3> QED BY <2>1, <3>1, <3>2
    <2> QED BY <2>2, <2>3
  <1> HIDE DEF piece
  <1>7. \A i \in 1 .. n : IsSeq(piece(i))
    <2> TAKE i \in 1 .. n
    <2>1. \A y : IsSeq(<<y>>)
      <3> TAKE y
      <3>1. <<y>> \in Seq({y})
        OBVIOUS
      <3> QED BY <3>1, SeqIs
    <2>2. IsSeq(<< >>)
      BY SeqIs
    <2> QED BY <1>6, <2>1, <2>2
  <1>8. pieces \in Seq(Seq(S)) /\ DOMAIN pieces = 1 .. n /\ \A i \in 1 .. n : pieces[i] = piece(i)
    <2>1. \A i \in 1 .. n : piece(i) \in Seq(S)
      <3> TAKE i \in 1 .. n
      <3>1. ToSet(piece(i)) \subseteq S
        BY <1>1
      <3> HIDE DEF S
      <3> QED BY <1>7, <3>1, SeqIs
    <2> HIDE DEF S
    <2>2. pieces \in [1 .. n -> Seq(S)]
      BY <1>1, <2>1
    <2> QED BY <1>1, <2>2
  <1> HIDE DEF pieces, S
  <1>9. ASSUME NEW i \in 1 .. n, NEW y, piece(i) = <<y>>, y \notin Space
        PROVE  ~Blank(FlattenSeq(pieces))
    <2>1. y \in ToSet(pieces[i]) /\ i \in DOMAIN pieces
      BY <1>8, <1>9 DEF ToSet
    <2>2. y \in ToSet(FlattenSeq(pieces))
      BY <1>8, <2>1, FlattenHolds
    <2> QED BY <1>9, <2>2 DEF Blank
  <1>10. PICK i \in 1 .. n : text[i] \notin Space
    BY <1>1 DEF Blank, ToSet
  <1>11. CASE \E s \in spans : s.start <= i /\ i < s.end
    <2>1. PICK s \in spans : s.start <= i /\ i < s.end
      BY <1>11
    <2> DEFINE j == s.start
    <2>2. j \in 1 .. n
      BY <1>5
    <2>3. piece(j) = <<TokenOf(s, index)>>
      BY <1>1, <1>2, <2>2, PieceIs DEF piece
    <2>4. TokenOf(s, index) \notin Space
      BY <1>4
    <2> HIDE DEF j
    <2>5. ~Blank(FlattenSeq(pieces))
      BY <1>9, <2>2, <2>3, <2>4
    <2> QED BY <1>3, <2>5 DEF spans
  <1>12. CASE ~\E s \in spans : s.start <= i /\ i < s.end
    <2>1. piece(i) = <<text[i]>>
      BY <1>1, <1>2, <1>12, PieceIs DEF piece
    <2>2. ~Blank(FlattenSeq(pieces))
      BY <1>9, <1>10, <2>1
    <2> QED BY <1>3, <2>2 DEF spans
  <1> QED BY <1>11, <1>12

----------------------------------------------------------------------------
\* The fields whose texts go through the Redactor.
RedactedFields == {"judge_verdicts"} \cup ToSet(RedactedTextFields)

\* A record with the same fields, as they were where nothing is redacted.
RestKept(q, r) == DOMAIN q = DOMAIN r /\ \A f \in DOMAIN r \ RedactedFields : q[f] = r[f]

\* Setting one text leaves every field that is not redacted.
LEMMA WithTextKeeps ==
    ASSUME NEW q, NEW r, RestKept(q, r), NEW slot, IsSlot(slot, r), slot.field \in DOMAIN q, NEW t
    PROVE  RestKept(WithText(q, slot, t), r)
  <1> DEFINE w == WithText(q, slot, t)
  <1>1. slot.field \in RedactedFields
    BY DEF IsSlot, RedactedFields
  <1>2. DOMAIN w = DOMAIN q /\ \A f \in DOMAIN q : f # slot.field => w[f] = q[f]
    <2>1. CASE slot.field = "judge_verdicts"
      <3>1. w = [q EXCEPT !.judge_verdicts[slot.at].criterion = t]
        BY <2>1 DEF WithText
      <3> HIDE DEF w
      <3> QED BY <2>1, <3>1
    <2>2. CASE slot.field # "judge_verdicts"
      <3>1. w = [q EXCEPT ![slot.field] = t]
        BY <2>2 DEF WithText
      <3> HIDE DEF w
      <3> QED BY <3>1
    <2> QED BY <2>1, <2>2
  <1> HIDE DEF w
  <1>3. RestKept(w, r)
    BY <1>1, <1>2 DEF RestKept
  <1> QED BY <1>3 DEF w

\* The Redactor leaves the fields that hold no text of its own.
LEMMA RedactedKeeps ==
    ASSUME NEW r, Readable(r), NEW rd
    PROVE  RestKept(Redacted(r, rd).record, r)
  <1> DEFINE sl == Slots(r)
             N == Len(sl)
  <1>1. N \in Nat /\ DOMAIN sl = 1 .. N /\ \A i \in 1 .. N : IsSlot(sl[i], r)
    BY SlotsAre
  <1>2. PICK c : /\ Redacted(r, rd) = c[N]
                 /\ c[0] = [record |-> r, redactor |-> rd]
                 /\ \A k \in 1 .. N : c[k] = RedactedAt(c[k - 1], sl[k])
    <2>1. \E c : /\ Redacted(r, rd) = c[N]
                 /\ c[0] = [record |-> r, redactor |-> rd]
                 /\ \A k \in 1 .. N : c[k] = RedactedAt(c[k - 1], sl[k])
      BY ONLY <1>1, RedactedBySteps
    <2> QED BY <2>1
  <1> HIDE DEF N, sl
  <1> DEFINE G == {k \in Nat : k <= N => RestKept(c[k].record, r)}
  <1>3. 0 \in G
    <2>1. c[0].record = r
      BY <1>2
    <2>2. RestKept(c[0].record, r)
      BY <2>1 DEF RestKept
    <2> QED BY <2>2
  <1>4. ASSUME NEW k \in Nat, k \in G PROVE k + 1 \in G
    <2> SUFFICES ASSUME k + 1 <= N PROVE RestKept(c[k + 1].record, r)
      OBVIOUS
    <2>1. k + 1 \in 1 .. N /\ (k + 1) - 1 = k /\ k <= N
      BY <1>1
    <2> DEFINE slot == sl[k + 1]
               q == c[k].record
    <2>2. c[k + 1] = RedactedAt(c[k], slot) /\ IsSlot(slot, r) /\ RestKept(q, r)
      BY <1>1, <1>2, <1>4, <2>1
    <2>3. CASE slot.field \notin DOMAIN q
      <3>1. c[k + 1] = c[k]
        BY <2>2, <2>3 DEF RedactedAt
      <3> QED BY <2>2, <3>1
    <2>4. CASE slot.field \in DOMAIN q
      <3> DEFINE t == Redact(c[k].redactor, TextAt(q, slot)).text
      <3>1. c[k + 1].record = WithText(q, slot, t)
        BY <2>2, <2>4 DEF RedactedAt
      <3> HIDE DEF t, q, slot
      <3>2. RestKept(WithText(q, slot, t), r)
        BY <2>2, <2>4, WithTextKeeps
      <3> QED BY <3>1, <3>2
    <2> QED BY <2>3, <2>4
  <1>5. N \in G
    <2> HIDE DEF G
    <2> QED BY <1>1, <1>3, <1>4, NumberInduction
  <1> QED BY <1>1, <1>2, <1>5

\* Two criteria that a reader of the window cannot tell apart.
OneCriterion(r, enabled, index) ==
    /\ "judge_verdicts" \in DOMAIN r
    /\ \E i, j \in DOMAIN r.judge_verdicts :
         /\ i # j
         /\ LET a == r.judge_verdicts[i].criterion
                b == r.judge_verdicts[j].criterion
            IN  /\ IsSeq(a) /\ IsSeq(b)
                /\ RetoldBy(a, SpansBy(enabled, a), index) = RetoldBy(b, SpansBy(enabled, b), index)
                /\ \A s \in SpansBy(enabled, a) \cup SpansBy(enabled, b) : Key(s) \in DOMAIN index

\* They stay so, whatever is numbered later.
LEMMA OneCriterionStays ==
    ASSUME NEW r, NEW enabled, NEW index, OneCriterion(r, enabled, index),
           NEW more, Extends(more, index)
    PROVE  OneCriterion(r, enabled, more)
  <1>1. "judge_verdicts" \in DOMAIN r
    BY DEF OneCriterion
  <1>2. PICK i \in DOMAIN r.judge_verdicts, j \in DOMAIN r.judge_verdicts :
         /\ i # j
         /\ LET a == r.judge_verdicts[i].criterion
                b == r.judge_verdicts[j].criterion
            IN  /\ IsSeq(a) /\ IsSeq(b)
                /\ RetoldBy(a, SpansBy(enabled, a), index) = RetoldBy(b, SpansBy(enabled, b), index)
                /\ \A s \in SpansBy(enabled, a) \cup SpansBy(enabled, b) : Key(s) \in DOMAIN index
    BY DEF OneCriterion
  <1> DEFINE a == r.judge_verdicts[i].criterion
             b == r.judge_verdicts[j].criterion
  <1>3. /\ RetoldBy(a, SpansBy(enabled, a), more) = RetoldBy(a, SpansBy(enabled, a), index)
        /\ RetoldBy(b, SpansBy(enabled, b), more) = RetoldBy(b, SpansBy(enabled, b), index)
    BY <1>2, RetoldStays
  <1>4. \A s \in SpansBy(enabled, a) \cup SpansBy(enabled, b) : Key(s) \in DOMAIN more
    BY <1>2 DEF Extends
  <1> QED BY <1>1, <1>2, <1>3, <1>4 DEF OneCriterion

\* A slot of a record that it has a text at.
LEMMA SlotOf ==
    ASSUME NEW r, Readable(r)
    PROVE  /\ \A f \in ToSet(RedactedTextFields) \cap DOMAIN r : [field |-> f, at |-> 0] \in TextSlots(r)
           /\ "judge_verdicts" \in DOMAIN r =>
                \A i \in DOMAIN r.judge_verdicts : [field |-> "judge_verdicts", at |-> i] \in TextSlots(r)
  <1> DEFINE V == Verdicts(r)
             a == [i \in DOMAIN V |-> [field |-> "judge_verdicts", at |-> i]]
             b == [i \in DOMAIN RedactedTextFields |-> [field |-> RedactedTextFields[i], at |-> 0]]
             S == ToSet(a) \cup ToSet(b)
             c == a \o b
  <1>1. IsSeq(V)
    BY SeqIs DEF Readable, Verdicts
  <1>2. Len(V) \in Nat /\ DOMAIN V = 1 .. Len(V)
    BY <1>1, LenProperties DEF IsSeq
  <1>3. IsSeq(a) /\ DOMAIN a = DOMAIN V /\ \A i \in DOMAIN V : a[i] = [field |-> "judge_verdicts", at |-> i]
    <2> HIDE DEF V
    <2>1. a \in [1 .. Len(V) -> ToSet(a)]
      BY <1>2 DEF ToSet
    <2>2. a \in Seq(ToSet(a))
      BY <1>2, <2>1
    <2> QED BY <2>2 DEF IsSeq
  <1>4. /\ IsSeq(b) /\ DOMAIN b = 1 .. 4
        /\ \A i \in 1 .. 4 : b[i] = [field |-> RedactedTextFields[i], at |-> 0]
    <2>1. DOMAIN b = 1 .. 4 /\ \A i \in 1 .. 4 : b[i] = [field |-> RedactedTextFields[i], at |-> 0]
      BY FieldsAre
    <2>2. b \in [1 .. 4 -> ToSet(b)]
      BY <2>1 DEF ToSet
    <2>3. b \in Seq(ToSet(b))
      BY <2>2
    <2> QED BY <2>1, <2>3 DEF IsSeq
  <1>5. Slots(r) = c
    BY DEF Slots
  <1> HIDE DEF a, b, V
  <1>6. a \in Seq(S) /\ b \in Seq(S)
    BY <1>3, <1>4, SeqIs
  <1> HIDE DEF S
  <1>7. /\ Len(a) \in Nat /\ Len(b) \in Nat /\ DOMAIN a = 1 .. Len(a) /\ DOMAIN b = 1 .. Len(b)
        /\ c \in Seq(S) /\ Len(c) = Len(a) + Len(b)
        /\ \A k \in 1 .. Len(a) + Len(b) : c[k] = IF k <= Len(a) THEN a[k] ELSE b[k - Len(a)]
    BY <1>6, LenProperties, ConcatProperties
  <1>8. DOMAIN c = 1 .. Len(a) + Len(b)
    BY <1>7, LenProperties
  <1> HIDE DEF c
  <1>9. ASSUME NEW k \in DOMAIN a PROVE a[k] \in ToSet(c)
    <2>1. k \in 1 .. Len(a) + Len(b) /\ k <= Len(a)
      BY <1>7
    <2>2. c[k] = a[k] /\ k \in DOMAIN c
      BY <1>7, <1>8, <2>1
    <2> QED BY <2>2 DEF ToSet
  <1>10. ASSUME NEW k \in DOMAIN b PROVE b[k] \in ToSet(c)
    <2> DEFINE j == Len(a) + k
    <2>1. j \in 1 .. Len(a) + Len(b) /\ ~(j <= Len(a)) /\ j - Len(a) = k
      BY <1>7
    <2> HIDE DEF j
    <2>2. c[j] = b[k] /\ j \in DOMAIN c
      BY <1>7, <1>8, <2>1
    <2> QED BY <2>2 DEF ToSet
  <1>11. ASSUME NEW f \in ToSet(RedactedTextFields) \cap DOMAIN r
         PROVE  [field |-> f, at |-> 0] \in TextSlots(r)
    <2>1. PICK i \in 1 .. 4 : f = RedactedTextFields[i]
      BY FieldsAre DEF ToSet
    <2>2. b[i] = [field |-> f, at |-> 0] /\ i \in DOMAIN b
      BY <1>4, <2>1
    <2> QED BY <1>5, <1>10, <2>2 DEF TextSlots
  <1>12. ASSUME "judge_verdicts" \in DOMAIN r, NEW i \in DOMAIN r.judge_verdicts
         PROVE  [field |-> "judge_verdicts", at |-> i] \in TextSlots(r)
    <2>1. i \in DOMAIN a /\ a[i] = [field |-> "judge_verdicts", at |-> i]
      BY <1>3, <1>12 DEF V, Verdicts
    <2> QED BY <1>5, <1>9, <1>12, <2>1 DEF TextSlots
  <1> QED BY <1>11, <1>12

\* A record without a fault that has one once it is redacted: two of its criteria
\* have become one.
LEMMA FaultsOfRedacted ==
    ASSUME TokensPrint, NEW r, Readable(r), ToSet(Required) \subseteq DOMAIN r, ~Faults(r),
           NEW rd, NEW read, Telling(rd, read), rd.enabled \in BOOLEAN,
           NEW done, done = Redacted(r, rd), Faults(done.record)
    PROVE  OneCriterion(r, rd.enabled, done.redactor.index)
  <1> DEFINE q == done.record
             on == rd.enabled
             index == done.redactor.index
             all == read \o ValuesFrom(on, r)
  <1>1. /\ Telling(done.redactor, all) /\ Fits(q, r)
        /\ \A slot \in TextSlots(r) : ToldAt(q, r, slot, on, index)
    BY RedactedTold
  <1>2. RestKept(q, r)
    BY RedactedKeeps
  <1>3. IsSeq(all) /\ IndexTold(index, all) /\ Faults(q)
    BY <1>1 DEF Telling
  <1> HIDE DEF q, index, all
  <1>4. DOMAIN q = DOMAIN r
    BY <1>1 DEF Fits
  <1>5. ASSUME NEW slot \in TextSlots(r), ~Blank(TextAt(r, slot)), IsSeq(TextAt(r, slot))
        PROVE  ~Blank(TextAt(q, slot))
    <2> DEFINE text == TextAt(r, slot)
    <2>1. /\ TextAt(q, slot) = RetoldBy(text, SpansBy(on, text), index)
          /\ \A s \in SpansBy(on, text) : Key(s) \in DOMAIN index
      BY <1>1 DEF ToldAt
    <2> HIDE DEF text
    <2>2. IsSeq(text) /\ ~Blank(text)
      BY <1>5 DEF text
    <2> HIDE DEF on
    <2>3. ~Blank(RetoldBy(text, SpansBy(on, text), index))
      BY <1>3, <2>1, <2>2, RetoldSays
    <2> QED BY <2>1, <2>3
  <1>6. ~(Blank(q.record_id) \/ "\n" \in ToSet(q.record_id))
    <2>1. "record_id" \in DOMAIN r \ RedactedFields
      BY FieldsAre DEF ToSet, Required, RedactedFields
    <2>2. q.record_id = r.record_id
      BY <1>2, <2>1 DEF RestKept
    <2> QED BY <2>2 DEF Faults
  <1>7. ~\E f \in DOMAIN q \cap (TextFields \cup OptionalText) : Blank(q[f])
    <2> SUFFICES ASSUME NEW f \in DOMAIN r, f \in TextFields \cup OptionalText PROVE ~Blank(q[f])
      BY <1>4
    <2>1. ~Blank(r[f])
      BY DEF Faults
    <2>2. CASE f \in ToSet(RedactedTextFields)
      <3> DEFINE slot == [field |-> f, at |-> 0]
      <3>1. slot \in TextSlots(r)
        BY <2>2, SlotOf
      <3>2. slot.field = f /\ f # "judge_verdicts"
        BY <2>2, FieldsAre
      <3> HIDE DEF slot
      <3>3. TextAt(q, slot) = q[f] /\ TextAt(r, slot) = r[f]
        BY <3>2 DEF TextAt
      <3>4. IsSeq(r[f])
        BY <2>2 DEF Readable
      <3> QED BY <1>5, <2>1, <3>1, <3>3, <3>4
    <2>3. CASE f \notin ToSet(RedactedTextFields)
      <3>1. f # "judge_verdicts"
        BY DEF TextFields, OptionalText
      <3>2. q[f] = r[f]
        BY <1>2, <2>3, <3>1 DEF RestKept, RedactedFields
      <3> QED BY <2>1, <3>2
    <2> QED BY <2>2, <2>3
  <1>8. ~\E f \in DOMAIN q \cap CountFields : q[f] < 0
    <2> SUFFICES ASSUME NEW f \in DOMAIN r, f \in CountFields PROVE ~(q[f] < 0)
      BY <1>4
    <2>1. f \notin RedactedFields
      BY FieldsAre DEF CountFields, RedactedFields
    <2>2. q[f] = r[f]
      BY <1>2, <2>1 DEF RestKept
    <2> QED BY <2>2 DEF Faults
  <1>9. ~("output_text" \in DOMAIN q <=> "error" \in DOMAIN q)
    BY <1>4 DEF Faults
  <1>10. AnsweredTwice(Verdicts(q))
    BY <1>3, <1>6, <1>7, <1>8, <1>9 DEF Faults
  <1>11. "judge_verdicts" \in DOMAIN r /\ Verdicts(q) = q.judge_verdicts
         /\ DOMAIN q.judge_verdicts = DOMAIN r.judge_verdicts
    <2>1. "judge_verdicts" \notin DOMAIN q => Verdicts(q) = << >> /\ DOMAIN << >> = {}
      BY DEF Verdicts
    <2>2. "judge_verdicts" \in DOMAIN q
      BY <1>10, <2>1 DEF AnsweredTwice
    <2> QED BY <1>1, <2>2 DEF Fits, Verdicts
  <1>12. PICK i \in DOMAIN r.judge_verdicts, j \in DOMAIN r.judge_verdicts :
           i # j /\ q.judge_verdicts[i].criterion = q.judge_verdicts[j].criterion
    BY <1>10, <1>11 DEF AnsweredTwice
  <1>13. ASSUME NEW k \in DOMAIN r.judge_verdicts
         PROVE  LET a == r.judge_verdicts[k].criterion
                IN  /\ IsSeq(a) /\ q.judge_verdicts[k].criterion = RetoldBy(a, SpansBy(on, a), index)
                    /\ \A s \in SpansBy(on, a) : Key(s) \in DOMAIN index
    <2> DEFINE slot == [field |-> "judge_verdicts", at |-> k]
    <2>1. slot \in TextSlots(r)
      BY <1>11, SlotOf
    <2>2. slot.field = "judge_verdicts" /\ slot.at = k
      OBVIOUS
    <2> HIDE DEF slot
    <2>3. /\ TextAt(q, slot) = q.judge_verdicts[k].criterion
          /\ TextAt(r, slot) = r.judge_verdicts[k].criterion
      BY <2>2 DEF TextAt
    <2>4. IsSeq(r.judge_verdicts[k].criterion)
      BY <1>11 DEF Readable
    <2> QED BY <1>1, <2>1, <2>3, <2>4 DEF ToldAt
  <1> DEFINE a == r.judge_verdicts[i].criterion
             b == r.judge_verdicts[j].criterion
  <1>14. /\ IsSeq(a) /\ IsSeq(b)
         /\ RetoldBy(a, SpansBy(on, a), index) = RetoldBy(b, SpansBy(on, b), index)
         /\ \A s \in SpansBy(on, a) \cup SpansBy(on, b) : Key(s) \in DOMAIN index
    BY <1>12, <1>13
  <1>15. OneCriterion(r, on, index)
    BY <1>11, <1>12, <1>14 DEF OneCriterion
  <1> QED BY <1>15 DEF index

----------------------------------------------------------------------------
(***************************************************************************)
(* Why lines are failed.                                                   *)
(***************************************************************************)

\* A record that was made has no fault.
LEMMA MadeFaultless ==
    ASSUME NEW m, NEW row, NEW index, IsGood(BuildRecord(m, row, index))
    PROVE  ~Faults(BuildRecord(m, row, index).ok)
  <1> DEFINE values == Values(m, row, index)
             r == Cut(values.ok)
             x == BuildRecord(m, row, index)
  <1>1. x = IF ~IsGood(values) THEN values
            ELSE IF ~(ToSet(Required) \subseteq DOMAIN values.ok) THEN Bad("MissingFieldError")
            ELSE Validated(r)
    BY DEF BuildRecord, Assembled
  <1>2. \A e : ~IsGood(Bad(e))
    BY GoodOrBad
  <1> HIDE DEF x, r, values
  <1>3. IsGood(x)
    BY DEF x
  <1>4. x = Validated(r)
    BY <1>1, <1>2, <1>3
  <1>5. ~Faults(r)
    BY <1>2, <1>3, <1>4, FaultsAre
  <1>6. x = Good(r)
    BY <1>4, <1>5, FaultsAre
  <1>7. x.ok = r
    BY <1>6 DEF Good
  <1> QED BY <1>5, <1>7 DEF x

\* A line is failed with what was made of it, or because two criteria of its
\* record read as one once their values are replaced.
FailedWell(n) ==
    Is(outcomes[n], "bad") =>
        IF IsGood(made[n]) THEN OneCriterion(made[n].ok, redactor.enabled, redactor.index)
        ELSE /\ outcomes[n] = made[n]
             /\ IsGood(ReadLine(source.lines[n])) => made[n].bad \in RecordErrors

Failing ==
    /\ made # << >> => Usable /\ IsGood(Loaded)
    /\ \A n \in 1 .. Len(outcomes) : FailedWell(n)

\* A step that reads no line changes nothing of it.
LEMMA NoneFails ==
    ASSUME Failing, UNCHANGED <<source, outcomes, made, redactor>>
    PROVE  Failing'
  <1>1. (Usable' <=> Usable) /\ Loaded' = Loaded
    BY DEF Usable, Loaded, file, Format
  <1>2. \A k : ReadLine(source.lines[k])' = ReadLine(source.lines[k])
    BY DEF ReadLine
  <1>3. ASSUME NEW n \in 1 .. Len(outcomes) PROVE FailedWell(n)'
    BY <1>2 DEF Failing, FailedWell
  <1> QED BY <1>1, <1>3 DEF Failing

\* One more line, the Redactor's numbers kept.
LEMMA OneMoreFails ==
    ASSUME RowsInv, Failing, pc \in {"read", "built"}, source' = source,
           redactor'.enabled = redactor.enabled, Extends(redactor'.index, redactor.index),
           NEW n, n = Len(outcomes), NEW x, outcomes' = Append(outcomes, x),
           \A k \in 1 .. n : made'[k] = made[k],
           Is(x, "bad") =>
             IF IsGood(made'[n + 1]) THEN OneCriterion(made'[n + 1].ok, redactor.enabled, redactor'.index)
             ELSE /\ x = made'[n + 1]
                  /\ IsGood(ReadLine(source.lines[n + 1])) => made'[n + 1].bad \in RecordErrors
    PROVE  Failing'
  <1>1. IsSeq(outcomes) /\ n \in Nat
    BY OneMore DEF RowsInv, Counting
  <1>2. /\ Len(outcomes') = n + 1 /\ outcomes'[n + 1] = x
        /\ \A k \in 1 .. n : outcomes'[k] = outcomes[k]
    BY <1>1, OneMore
  <1>3. Usable' /\ IsGood(Loaded)'
    <2>1. (Usable' <=> Usable) /\ Loaded' = Loaded
      BY DEF Usable, Loaded, file, Format
    <2> QED BY <2>1 DEF RowsInv, Given
  <1>4. \A k : ReadLine(source.lines[k])' = ReadLine(source.lines[k])
    BY DEF ReadLine
  <1>5. ASSUME NEW k \in 1 .. n PROVE FailedWell(k)'
    <2>1. FailedWell(k)
      BY DEF Failing
    <2>2. outcomes'[k] = outcomes[k] /\ made'[k] = made[k]
      BY <1>2
    <2>3. CASE ~Is(outcomes[k], "bad")
      BY <2>2, <2>3 DEF FailedWell
    <2>4. CASE Is(outcomes[k], "bad") /\ IsGood(made[k])
      <3>1. OneCriterion(made[k].ok, redactor.enabled, redactor.index)
        BY <2>1, <2>4 DEF FailedWell
      <3>2. OneCriterion(made[k].ok, redactor.enabled, redactor'.index)
        BY <3>1, OneCriterionStays
      <3> QED BY <2>2, <2>4, <3>2 DEF FailedWell
    <2>5. CASE Is(outcomes[k], "bad") /\ ~IsGood(made[k])
      BY <1>4, <2>1, <2>2, <2>5 DEF FailedWell
    <2> QED BY <2>3, <2>4, <2>5
  <1>6. FailedWell(n + 1)'
    BY <1>2, <1>4 DEF FailedWell
  <1>7. \A k \in 1 .. n + 1 : k \in 1 .. n \/ k = n + 1
    BY <1>1
  <1> QED BY <1>2, <1>3, <1>5, <1>6, <1>7 DEF Failing

\* A record through the Redactor fails only for two criteria become one.
LEMMA RedactFails ==
    ASSUME TokensPrint, RowsInv, FromLines, Failing, RedactRow
    PROVE  Failing'
  <1>0. PICK n : n = Len(outcomes)
    OBVIOUS
  <1> DEFINE on == redactor.enabled
             r == Built.ok
             read == ReadBy(on, made, n)
             done == Redacted(r, redactor)
             x == Validated(done.record)
  <1>1. /\ pc = "built" /\ IsGood(Built)
        /\ source' = source /\ made' = made /\ redactor' = done.redactor
        /\ outcomes' = Append(outcomes, x)
    BY DEF RedactRow
  <1>2. n \in Nat /\ Len(made) = n + 1
    BY <1>0, <1>1, OneMore DEF RowsInv, Counting
  <1>3. Built = made[n + 1]
    BY <1>2 DEF Built, Last
  <1>4. Readable(r) /\ ToSet(Required) \subseteq DOMAIN r
    BY <1>1, <1>2, <1>3 DEF RowsInv, Made
  <1>5. Telling(redactor, read) /\ on \in BOOLEAN
    BY <1>0, LinesAre DEF RowsInv, Given, TokensGiven
  <1>6. ~Faults(r)
    <2>1. IsGood(ReadLine(source.lines[n + 1])) /\ MadeOf(n + 1)
      BY <1>1, <1>2 DEF FromLines
    <2>2. Built = BuildRecord(file, ReadLine(source.lines[n + 1]).ok, Loaded.ok)
      BY <1>3, <2>1 DEF MadeOf
    <2> QED BY <1>1, <2>2, MadeFaultless
  <1>7. done = Redacted(r, redactor)
    OBVIOUS
  <1> HIDE DEF r, read, done
  <1>8. done.redactor.enabled = on /\ Extends(done.redactor.index, redactor.index)
    BY <1>4, <1>5, <1>7, RedactedTold
  <1>9. Is(x, "bad") => OneCriterion(r, on, done.redactor.index)
    <2> SUFFICES ASSUME Is(x, "bad") PROVE OneCriterion(r, on, done.redactor.index)
      OBVIOUS
    <2>1. ~(x = Good(done.record))
      BY DEF Is, Good
    <2>2. Faults(done.record)
      BY <2>1, FaultsAre
    <2> HIDE DEF on, x
    <2> QED BY <1>4, <1>5, <1>6, <1>7, <2>2, FaultsOfRedacted DEF on
  <1> HIDE DEF x
  <1>10. /\ redactor'.enabled = redactor.enabled /\ Extends(redactor'.index, redactor.index)
         /\ \A k \in 1 .. n : made'[k] = made[k]
         /\ Is(x, "bad") => OneCriterion(made'[n + 1].ok, redactor.enabled, redactor'.index)
         /\ IsGood(made'[n + 1])
    BY <1>1, <1>3, <1>8, <1>9 DEF r
  <1> QED BY <1>0, <1>1, <1>10, OneMoreFails

\* A line fails with what was made of it, or because two of its criteria read as
\* one, at every step.
THEOREM RowsFailing == ASSUME TokensPrint PROVE Spec => []Failing
  <1>1. Init => Failing
    <2> SUFFICES ASSUME Init PROVE Failing
      OBVIOUS
    <2>1. made = << >> /\ Len(outcomes) = 0
      BY DEF Init
    <2> QED BY <2>1 DEF Failing
  <1>2. RowsInv /\ FromLines /\ Failing /\ [Next]_vars => Failing'
    <2> SUFFICES ASSUME RowsInv, FromLines, Failing, [Next]_vars PROVE Failing'
      OBVIOUS
    <2>0. PICK n : n = Len(outcomes)
      OBVIOUS
    <2>1. CASE PassLine
      <3> DEFINE x == Line
      <3>1. /\ AtLine /\ ~IsGood(x) /\ pc = "read" /\ x = ReadLine(source.lines[n + 1])
            /\ source' = source /\ redactor' = redactor
            /\ outcomes' = Append(outcomes, x) /\ made' = Append(made, x)
        BY <2>0, <2>1 DEF PassLine, AtLine, Line
      <3>2. IsSeq(made) /\ Len(made) = n /\ n \in Nat
        BY <2>0, <3>1, OneMore DEF RowsInv, Counting
      <3> HIDE DEF x
      <3>3. made'[n + 1] = x /\ \A k \in 1 .. n : made'[k] = made[k]
        BY <3>1, <3>2, OneMore
      <3>4. Extends(redactor'.index, redactor.index)
        BY <3>1 DEF Extends
      <3> QED BY <2>0, <3>1, <3>3, <3>4, OneMoreFails
    <2>2. CASE BuildRow
      <3> DEFINE x == BuildRecord(file, Row, Loaded.ok)
      <3>1. /\ pc = "read" /\ source' = source /\ redactor' = redactor /\ outcomes' = outcomes
            /\ made' = Append(made, x)
        BY <2>2 DEF BuildRow, AtLine
      <3>2. IsSeq(made) /\ Len(made) = n /\ n \in Nat
        BY <2>0, <3>1, OneMore DEF RowsInv, Counting
      <3> HIDE DEF x
      <3>3. \A k \in 1 .. n : made'[k] = made[k]
        BY <3>1, <3>2, OneMore
      <3>4. \A k : ReadLine(source.lines[k])' = ReadLine(source.lines[k])
        BY <3>1 DEF ReadLine
      <3>5. \A k \in 1 .. n : FailedWell(k)'
        BY <2>0, <3>1, <3>3, <3>4 DEF Failing, FailedWell
      <3>6. (Usable' <=> Usable) /\ Loaded' = Loaded
        BY <3>1 DEF Usable, Loaded, file, Format
      <3>7. Usable /\ IsGood(Loaded)
        BY <3>1 DEF RowsInv, Given
      <3> QED BY <2>0, <3>1, <3>5, <3>6, <3>7 DEF Failing
    <2>3. CASE FailRow
      <3> DEFINE x == Built
      <3>1. /\ pc = "built" /\ ~IsGood(x) /\ x.bad \in RecordErrors
            /\ source' = source /\ made' = made /\ redactor' = redactor
            /\ outcomes' = Append(outcomes, x)
        BY <2>3 DEF FailRow, Failed
      <3>2. Len(made) = n + 1 /\ n \in Nat
        BY <2>0, <3>1, OneMore DEF RowsInv, Counting
      <3>3. x = made'[n + 1]
        BY <3>1, <3>2 DEF Built, Last
      <3> HIDE DEF x
      <3>4. Extends(redactor'.index, redactor.index) /\ \A k \in 1 .. n : made'[k] = made[k]
        BY <3>1 DEF Extends
      <3> QED BY <2>0, <3>1, <3>3, <3>4, OneMoreFails
    <2>4. CASE RedactRow
      BY <2>4, RedactFails
    <2>5. CASE RefuseMapping \/ RefuseSidecar \/ RefuseHeader \/ StopAtRow \/ Start \/ Finish \/ UNCHANGED vars
      <3>1. UNCHANGED <<source, outcomes, made, redactor>>
        BY <2>5 DEF RefuseMapping, RefuseSidecar, RefuseHeader, StopAtRow, Stop, Start, Finish, vars
      <3> QED BY <3>1, NoneFails
    <2> QED BY <2>1, <2>2, <2>3, <2>4, <2>5 DEF Next
  <1> QED BY <1>1, <1>2, RowsInvariant, RowsFromLines, PTL DEF Spec

\* What is lost is hopeless.
LEMMA LostIsHopeless == \A row : Lost(row) => Hopeless(row)
  <1> SUFFICES ASSUME NEW row, Lost(row) PROVE Hopeless(row)
    OBVIOUS
  <1> DEFINE offered == OfferedFields(row)
             criteria == Criteria(row)
  <1>1. CASE "judge_verdicts" \in offered /\ \E i, j \in DOMAIN criteria : i # j /\ criteria[i] = criteria[j]
    <2>1. AskedTwice(criteria)
      BY <1>1 DEF AskedTwice
    <2> QED BY <1>1, <2>1 DEF Hopeless
  <1>2. CASE ~("judge_verdicts" \in offered /\ \E i, j \in DOMAIN criteria : i # j /\ criteria[i] = criteria[j])
    BY <1>2 DEF Lost, Hopeless
  <1> QED BY <1>1, <1>2

\* Two criteria that read as one are asked twice.
LEMMA OneCriterionIsHopeless ==
    ASSUME NEW row, NEW r, SaysRow(row, r), OneCriterion(r, redactor.enabled, redactor.index)
    PROVE  Hopeless(row)
  <1>1. "judge_verdicts" \in DOMAIN r /\ "judge_verdicts" \in OfferedFields(row)
    BY DEF OneCriterion, SaysRow
  <1> DEFINE on == redactor.enabled
             index == redactor.index
             criteria == Criteria(row)
  <1>2. PICK i \in DOMAIN r.judge_verdicts, j \in DOMAIN r.judge_verdicts :
         /\ i # j
         /\ LET a == r.judge_verdicts[i].criterion
                b == r.judge_verdicts[j].criterion
            IN  /\ IsSeq(a) /\ IsSeq(b)
                /\ RetoldBy(a, SpansBy(on, a), index) = RetoldBy(b, SpansBy(on, b), index)
    BY DEF OneCriterion
  <1>3. /\ i \in DOMAIN criteria /\ j \in DOMAIN criteria
        /\ r.judge_verdicts[i].criterion = criteria[i] /\ r.judge_verdicts[j].criterion = criteria[j]
    BY <1>1 DEF SaysRow
  <1>4. ASSUME NEW text, IsSeq(text) PROVE Retold(text) = RetoldBy(text, SpansBy(on, text), index)
    <2>1. Dominant(text) = SpansBy(on, text)
      BY <1>4, DominantIs DEF IsSeq, SpansBy
    <2>2. Retold(text) = RetoldBy(text, Dominant(text), index)
      BY DEF Retold, RetoldBy, PieceAt, TokenOf
    <2> QED BY <2>1, <2>2
  <1> HIDE DEF on, index, criteria
  <1>5. Retold(criteria[i]) = Retold(criteria[j])
    BY <1>2, <1>3, <1>4
  <1>6. AskedTwice(criteria)
    BY <1>2, <1>3, <1>5 DEF AskedTwice
  <1> QED BY <1>1, <1>6 DEF Hopeless, criteria

\* A record carries the fields its row, the sidecar or a default offers, each with
\* a meaning of what was offered, and a line is failed only when it is no row or no
\* record can be made of the row: for a mapped field it needs, a field with no fit
\* meaning, an answer and an error that are not one or the other, or two criteria
\* that are one, as they stand or as a reader of the window finds them.
THEOREM RowsReadsAsMapped == ASSUME TokensPrint PROVE Spec => []ReadsAsMapped
  <1>1. RowsInv /\ FromLines /\ Failing => ReadsAsMapped
    <2> SUFFICES ASSUME RowsInv, FromLines, Failing, Format = "jsonl" \/ ~RowIsVerdicts
                 PROVE  ReadsAsMapped
      BY DEF ReadsAsMapped
    <2>1. /\ source \in Sources /\ Len(outcomes) \in Nat /\ DOMAIN outcomes = 1 .. Len(outcomes)
          /\ Len(source.lines) \in Nat /\ Len(outcomes) <= Len(source.lines)
          /\ Len(made) = Len(outcomes) \/ Len(made) = Len(outcomes) + 1
      BY OneMore, LinesAre DEF RowsInv, Given, Counting
    <2>2. ASSUME NEW n \in 1 .. Len(made), n \in 1 .. Len(source.lines) PROVE MadeMeant(n)
      <3>1. Usable /\ IsGood(Loaded)
        <4>1. ASSUME made = << >> PROVE FALSE
          <5>1. Len(made) = 0
            BY <4>1
          <5> QED BY <5>1
        <4> QED BY <4>1 DEF Failing
      <3> QED BY <2>1, <2>2, <3>1, MadeIsMeant
    <2>3. ASSUME pc = "built", IsGood(Built)
          PROVE  LET row == Cells(source.lines[Len(made)])
                 IN  /\ DOMAIN Built.ok = OfferedFields(row)
                     /\ \A f \in DOMAIN Built.ok : \E m \in Meanings(row, f) : Carries(Built.ok[f], f, m)
      <3> DEFINE n == Len(made)
      <3>1. n \in 1 .. Len(made) /\ n \in 1 .. Len(source.lines)
        <4>1. n = Len(outcomes) + 1 /\ Len(outcomes) < Len(source.lines)
          BY <2>3 DEF RowsInv, Counting
        <4> QED BY <2>1, <4>1
      <3>2. Built = made[n] /\ IsGood(ReadLine(source.lines[n]))
        BY <2>3 DEF Built, Last, FromLines
      <3> HIDE DEF n
      <3>3. MadeMeant(n)
        BY <2>2, <3>1
      <3>4. SaysRow(Cells(source.lines[n]), Built.ok)
        BY <2>3, <3>2, <3>3 DEF MadeMeant
      <3> QED BY <3>4 DEF SaysRow, n
    <2>4. ASSUME NEW n \in DOMAIN outcomes, Is(outcomes[n], "bad")
          PROVE  Unreadable(source.lines[n]) \/ Hopeless(Cells(source.lines[n]))
      <3> DEFINE line == source.lines[n]
                 row == Cells(line)
      <3>1. n \in 1 .. Len(outcomes) /\ n \in 1 .. Len(made) /\ n \in 1 .. Len(source.lines)
        BY <2>1
      <3>2. MadeMeant(n) /\ FailedWell(n)
        BY <2>2, <3>1 DEF Failing
      <3>3. CASE ~IsGood(ReadLine(line))
        <4>1. ~IsGood(made[n]) /\ (Is(made[n], "bad") => Unreadable(line))
          BY <3>2, <3>3 DEF MadeMeant
        <4>2. outcomes[n] = made[n]
          BY <2>4, <3>2, <4>1 DEF FailedWell
        <4> QED BY <2>4, <4>1, <4>2
      <3>4. CASE IsGood(ReadLine(line)) /\ IsGood(made[n])
        <4>1. SaysRow(row, made[n].ok)
          BY <3>2, <3>4 DEF MadeMeant
        <4>2. OneCriterion(made[n].ok, redactor.enabled, redactor.index)
          BY <2>4, <3>2, <3>4 DEF FailedWell
        <4> QED BY <4>1, <4>2, OneCriterionIsHopeless
      <3>5. CASE IsGood(ReadLine(line)) /\ ~IsGood(made[n])
        <4>1. made[n].bad \in RecordErrors
          BY <2>4, <3>2, <3>5 DEF FailedWell
        <4>2. Lost(row)
          BY <3>2, <3>5, <4>1 DEF MadeMeant
        <4> QED BY <4>2, LostIsHopeless
      <3> QED BY <3>3, <3>4, <3>5
    <2> QED BY <2>3, <2>4 DEF ReadsAsMapped
  <1>2. Spec => []Failing
    BY RowsFailing
  <1> QED BY <1>1, <1>2, RowsInvariant, RowsFromLines, PTL
=============================================================================
