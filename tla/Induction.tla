----------------------------- MODULE Induction -----------------------------
(***************************************************************************)
(* Induction over the numbers and over the finite sets, stated of sets     *)
(* rather than of predicates, so that a proof can use it of a set it       *)
(* writes down.  All of it comes from one fact: the finite subsets of a    *)
(* set are well founded under strict inclusion.                            *)
(***************************************************************************)
EXTENDS FiniteSetTheorems, TLAPS

\* Of any family of finite sets some member has no other member inside it.
LEMMA MinimalSet ==
    ASSUME NEW Base, NEW Fam, Fam # {}, \A V \in Fam : V \subseteq Base /\ IsFiniteSet(V)
    PROVE  \E V \in Fam : \A U \in Fam : U \subseteq V => U = V
  <1>1. Fam \subseteq FiniteSubsetsOf(Base)
    BY DEF FiniteSubsetsOf
  <1>2. PICK V \in Fam : \A U \in Fam : <<U, V>> \notin StrictSubsetOrdering(Base)
    BY <1>1, FS_StrictSubsetOrderingWellFounded, WFMin
  <1> QED BY <1>1, <1>2 DEF StrictSubsetOrdering

\* A set of numbers has a least one.
THEOREM LeastNumber ==
    ASSUME NEW T \in SUBSET Nat, T # {}
    PROVE  \E m \in T : \A n \in T : m <= n
  <1> DEFINE F == {{n \in T : n <= k} : k \in T}
  <1>1. \A V \in F : IsFiniteSet(V)
    <2> SUFFICES ASSUME NEW k \in T PROVE IsFiniteSet({n \in T : n <= k})
      OBVIOUS
    <2>1. IsFiniteSet(0..k)
      BY FS_Interval
    <2>2. {n \in T : n <= k} \subseteq 0..k
      <3> SUFFICES ASSUME NEW n \in T, n <= k PROVE n \in 0..k
        BY Zenon
      <3> QED OBVIOUS
    <2> QED BY <2>1, <2>2, FS_Subset
  <1>2. F # {} /\ \A V \in F : V \subseteq T /\ IsFiniteSet(V)
    BY <1>1
  <1>3. PICK V \in F : \A U \in F : U \subseteq V => U = V
    <2> HIDE DEF F
    <2>1. \E W \in F : \A U \in F : U \subseteq W => U = W
      BY <1>2, MinimalSet
    <2> QED BY <2>1
  <1>4. PICK k \in T : V = {n \in T : n <= k}
    OBVIOUS
  <1>5. ASSUME NEW m \in T, m < k PROVE FALSE
    <2> DEFINE U == {n \in T : n <= m}
    <2>1. U \in F
      OBVIOUS
    <2>2. \A n \in U : n \in V
      <3> SUFFICES ASSUME NEW n \in T, n <= m PROVE n <= k
        BY <1>4, Zenon
      <3> QED BY <1>5
    <2>3. k \in V /\ k \notin U
      BY <1>4, <1>5
    <2> QED
      <3> HIDE DEF U, F
      <3> QED BY <1>3, <2>1, <2>2, <2>3, Zenon
  <1> QED BY <1>5

\* A function into the numbers takes a least value.
LEMMA LeastValue ==
    ASSUME NEW S, S # {}, NEW f \in [S -> Nat]
    PROVE  \E x \in S : \A y \in S : f[x] <= f[y]
  <1> DEFINE R == {f[x] : x \in S}
  <1>1. R \in SUBSET Nat /\ R # {}
    OBVIOUS
  <1>2. \E m \in R : \A n \in R : m <= n
    <2> HIDE DEF R
    <2> QED BY <1>1, LeastNumber
  <1> QED BY <1>2

\* A set that holds 0 and with each number the next one holds every number.
THEOREM NumberInduction ==
    ASSUME NEW S, 0 \in S, \A n \in Nat : n \in S => n + 1 \in S
    PROVE  \A n \in Nat : n \in S
  <1> SUFFICES ASSUME Nat \ S # {} PROVE FALSE
    OBVIOUS
  <1>1. PICK m \in Nat \ S : \A n \in Nat \ S : m <= n
    BY LeastNumber
  <1>2. m - 1 \in Nat /\ m - 1 \in S
    BY <1>1
  <1> QED BY <1>1, <1>2

\* One element more, one element fewer.
LEMMA CardAdd ==
    ASSUME NEW S, IsFiniteSet(S), NEW x, x \notin S
    PROVE  /\ IsFiniteSet(S \cup {x})
           /\ Cardinality(S) \in Nat
           /\ Cardinality(S \cup {x}) = Cardinality(S) + 1
  BY FS_AddElement, FS_CardinalityType

\* One element fewer.
LEMMA CardRemove ==
    ASSUME NEW S, IsFiniteSet(S), NEW x \in S
    PROVE  /\ IsFiniteSet(S \ {x})
           /\ Cardinality(S) \in Nat \ {0}
           /\ Cardinality(S \ {x}) = Cardinality(S) - 1
  BY FS_RemoveElement, FS_CardinalityType, FS_EmptySet

\* Of a finite set: a family that holds the empty set, and with each set the one
\* that has one element more, holds it.
THEOREM SetInduction ==
    ASSUME NEW S, IsFiniteSet(S), NEW F, {} \in F,
           \A T \in SUBSET S : \A x \in S \ T : T \in F => T \cup {x} \in F
    PROVE  S \in F
  <1> DEFINE G == {n \in Nat : \A T \in SUBSET S : Cardinality(T) = n => T \in F}
  <1>1. 0 \in G
    BY FS_Subset, FS_EmptySet
  <1>2. ASSUME NEW n \in Nat, n \in G PROVE n + 1 \in G
    <2> SUFFICES ASSUME NEW T \in SUBSET S, Cardinality(T) = n + 1 PROVE T \in F
      OBVIOUS
    <2>1. IsFiniteSet(T)
      BY FS_Subset
    <2>2. PICK x \in T : TRUE
      BY <2>1, FS_EmptySet
    <2>3. Cardinality(T \ {x}) = n
      <3>1. Cardinality(T \ {x}) = Cardinality(T) - 1
        BY <2>1, <2>2, CardRemove, Zenon
      <3> QED BY <3>1
    <2>4. T \ {x} \in F
      BY <1>2, <2>3
    <2>5. (T \ {x}) \cup {x} \in F
      BY <2>4
    <2>6. (T \ {x}) \cup {x} = T
      BY <2>2
    <2> QED BY <2>5, <2>6, Zenon
  <1>3. \A n \in Nat : n \in G
    <2> HIDE DEF G
    <2> QED BY <1>1, <1>2, NumberInduction
  <1> QED BY <1>3, FS_CardinalityType

\* A finite set with a strict order on it has a first element: one that no
\* other is before.
THEOREM FirstElement ==
    ASSUME NEW S, IsFiniteSet(S), S # {}, NEW L,
           \A x \in S : <<x, x>> \notin L,
           \A x, y, z \in S : <<x, y>> \in L /\ <<y, z>> \in L => <<x, z>> \in L
    PROVE  \E x \in S : \A y \in S : <<y, x>> \notin L
  <1> DEFINE before(x) == {y \in S : <<y, x>> \in L}
             size == [x \in S |-> Cardinality(before(x))]
  <1>1. \A x \in S : IsFiniteSet(before(x)) /\ Cardinality(before(x)) \in Nat
    BY FS_Subset, FS_CardinalityType
  <1>2. size \in [S -> Nat]
    BY <1>1
  <1>3. PICK x \in S : \A y \in S : Cardinality(before(x)) <= Cardinality(before(y))
    <2>1. PICK x \in S : \A y \in S : size[x] <= size[y]
      <3> HIDE DEF size
      <3> QED BY <1>2, LeastValue
    <2> HIDE DEF before
    <2> QED BY <2>1
  <1>4. ASSUME NEW y \in S, <<y, x>> \in L PROVE FALSE
    <2>1. before(y) \subseteq before(x)
      BY <1>4
    <2>2. y \in before(x) /\ y \notin before(y)
      BY <1>4
    <2> HIDE DEF before
    <2>3. before(y) \in SUBSET (before(x) \ {y})
      BY <2>1, <2>2
    <2>4. Cardinality(before(y)) <= Cardinality(before(x) \ {y})
      BY <1>1, <2>2, <2>3, CardRemove, FS_Subset
    <2>5. Cardinality(before(x) \ {y}) = Cardinality(before(x)) - 1
      BY <1>1, <2>2, CardRemove
    <2> QED BY <1>1, <1>3, <1>4, <2>4, <2>5
  <1> QED BY <1>4

\* The elements of S up to x in the order L.
UpTo(S, L, x) == {y \in S : y = x \/ <<y, x>> \in L}

\* A strict total order on a finite set numbers its elements from 1, in order.
THEOREM Numbering ==
    ASSUME NEW S, IsFiniteSet(S), NEW L,
           \A x \in S : <<x, x>> \notin L,
           \A x, y, z \in S : <<x, y>> \in L /\ <<y, z>> \in L => <<x, z>> \in L,
           \A x, y \in S : x = y \/ <<x, y>> \in L \/ <<y, x>> \in L
    PROVE  /\ \A x \in S : Cardinality(UpTo(S, L, x)) \in 1 .. Cardinality(S)
           /\ \A x, y \in S : <<x, y>> \in L =>
                Cardinality(UpTo(S, L, x)) < Cardinality(UpTo(S, L, y))
           /\ \A k \in 1 .. Cardinality(S) : \E x \in S : Cardinality(UpTo(S, L, x)) = k
  <1> DEFINE place == [x \in S |-> Cardinality(UpTo(S, L, x))]
             n == Cardinality(S)
  <1>1. ASSUME NEW x \in S
        PROVE  /\ IsFiniteSet(UpTo(S, L, x)) /\ UpTo(S, L, x) \subseteq S
               /\ Cardinality(UpTo(S, L, x)) \in 1 .. n
    <2>1. UpTo(S, L, x) \in SUBSET S /\ x \in UpTo(S, L, x)
      BY DEF UpTo
    <2>2. /\ IsFiniteSet(UpTo(S, L, x)) /\ Cardinality(UpTo(S, L, x)) \in Nat
          /\ Cardinality(UpTo(S, L, x)) <= n /\ n \in Nat
      BY <2>1, FS_Subset, FS_CardinalityType
    <2>3. Cardinality(UpTo(S, L, x)) # 0
      BY <2>1, <2>2, FS_EmptySet
    <2> QED BY <2>1, <2>2, <2>3
  <1>2. ASSUME NEW x \in S, NEW y \in S, <<x, y>> \in L
        PROVE  Cardinality(UpTo(S, L, x)) < Cardinality(UpTo(S, L, y))
    <2> DEFINE A == UpTo(S, L, x)
               B == UpTo(S, L, y)
    <2>1. y \notin A
      BY <1>2 DEF UpTo
    <2>2. y \in B /\ A \subseteq B
      BY <1>2 DEF UpTo
    <2>3. IsFiniteSet(A) /\ IsFiniteSet(B) /\ Cardinality(A) \in Nat /\ Cardinality(B) \in Nat
      BY <1>1
    <2> HIDE DEF A, B
    <2>4. A \in SUBSET (B \ {y})
      BY <2>1, <2>2
    <2>5. IsFiniteSet(B \ {y}) /\ Cardinality(B \ {y}) = Cardinality(B) - 1
      BY <2>2, <2>3, CardRemove
    <2>6. Cardinality(A) <= Cardinality(B \ {y})
      BY <2>4, <2>5, FS_Subset
    <2>7. Cardinality(A) < Cardinality(B)
      BY <2>3, <2>5, <2>6
    <2> QED BY <2>7 DEF A, B
  <1>3. place \in [S -> 1 .. n]
    BY <1>1
  <1>4. ASSUME NEW x \in S, NEW y \in S, place[x] = place[y] PROVE x = y
    <2>1. Cardinality(UpTo(S, L, x)) = Cardinality(UpTo(S, L, y))
      BY <1>4
    <2>2. Cardinality(UpTo(S, L, x)) \in Nat
      BY <1>1
    <2>3. <<x, y>> \notin L
      BY <1>2, <2>1, <2>2
    <2>4. <<y, x>> \notin L
      BY <1>2, <2>1, <2>2
    <2> QED BY <2>3, <2>4
  <1>5. n \in Nat /\ IsFiniteSet(1 .. n) /\ Cardinality(1 .. n) = n
    <2>1. n \in Nat
      BY FS_CardinalityType
    <2>2. IsFiniteSet(1 .. n) /\ Cardinality(1 .. n) = IF 1 > n THEN 0 ELSE n - 1 + 1
      BY <2>1, FS_Interval
    <2> QED BY <2>1, <2>2
  <1>6. \A k \in 1 .. n : \E x \in S : place[x] = k
    <2> HIDE DEF place
    <2>1. place \in Injection(S, 1 .. n)
      BY <1>3, <1>4 DEF Injection, IsInjective
    <2>2. place \in Surjection(S, 1 .. n)
      BY <1>5, <2>1, FS_Injection
    <2> QED BY <2>2 DEF Surjection
  <1> QED BY <1>1, <1>2, <1>6

\* f begins with a, and h gives its next value from each.
Continues(f, a, h) == f[0] = a /\ \A n \in Nat : f[n + 1] = h[<<n, f[n]>>]

\* A value for 0 and a table of the next value from each make a function: what
\* a recursive definition over the numbers rests on.
THEOREM Recursion ==
    ASSUME NEW S, NEW a \in S, NEW h \in [Nat \X S -> S]
    PROVE  \E f \in [Nat -> S] : Continues(f, a, h)
  <1> DEFINE Closed(X) == /\ <<0, a>> \in X
                          /\ \A n \in Nat, s \in S :
                               <<n, s>> \in X => <<n + 1, h[<<n, s>>]>> \in X
             R == {d \in Nat \X S : \A X \in SUBSET (Nat \X S) : Closed(X) => d \in X}
             One(n) == \E s \in S : <<n, s>> \in R /\ \A t \in S : <<n, t>> \in R => t = s
             G == {n \in Nat : One(n)}
             f == [n \in Nat |-> CHOOSE s \in S : <<n, s>> \in R]
  <1>1. \A n \in Nat, s \in S : h[<<n, s>>] \in S /\ n + 1 \in Nat
    OBVIOUS
  <1>2. Closed(R)
    <2>1. <<0, a>> \in R
      OBVIOUS
    <2>2. ASSUME NEW n \in Nat, NEW s \in S, <<n, s>> \in R
          PROVE  <<n + 1, h[<<n, s>>]>> \in R
      <3>1. ASSUME NEW X \in SUBSET (Nat \X S), Closed(X) PROVE <<n + 1, h[<<n, s>>]>> \in X
        <4>1. <<n, s>> \in X
          BY <2>2, <3>1
        <4> QED BY <3>1, <4>1
      <3> HIDE DEF Closed
      <3>2. <<n + 1, h[<<n, s>>]>> \in Nat \X S
        BY <1>1
      <3> QED BY <3>1, <3>2
    <2> HIDE DEF R
    <2> QED BY <2>1, <2>2
  <1>3. ASSUME NEW d, Closed(R \ {d}) PROVE d \notin R
    <2> SUFFICES ASSUME d \in R PROVE FALSE
      OBVIOUS
    <2>1. R \ {d} \in SUBSET (Nat \X S)
      OBVIOUS
    <2>2. d \in R \ {d}
      <3> HIDE DEF Closed
      <3> QED BY <1>3, <2>1
    <2> QED BY <2>2
  <1> HIDE DEF R
  <1>4. 0 \in G
    <2>1. ASSUME NEW t \in S, <<0, t>> \in R, t # a PROVE FALSE
      <3>1. Closed(R \ {<<0, t>>})
        BY <1>2, <2>1
      <3> QED BY <1>3, <2>1, <3>1
    <2> QED BY <1>2, <2>1
  <1>5. ASSUME NEW n \in Nat, n \in G PROVE n + 1 \in G
    <2>1. PICK s \in S : <<n, s>> \in R /\ \A t \in S : <<n, t>> \in R => t = s
      BY <1>5
    <2>2. <<n + 1, h[<<n, s>>]>> \in R /\ h[<<n, s>>] \in S
      BY <1>1, <1>2, <2>1
    <2>3. ASSUME NEW t \in S, <<n + 1, t>> \in R, t # h[<<n, s>>] PROVE FALSE
      <3> DEFINE d == <<n + 1, t>>
      <3>1. <<0, a>> \in R \ {d}
        BY <1>2
      <3>2. ASSUME NEW m \in Nat, NEW r \in S, <<m, r>> \in R \ {d}
            PROVE  <<m + 1, h[<<m, r>>]>> \in R \ {d}
        <4>1. <<m + 1, h[<<m, r>>]>> \in R
          BY <1>2, <3>2
        <4>2. CASE <<m + 1, h[<<m, r>>]>> = d
          <5>1. m = n /\ h[<<m, r>>] = t
            BY <4>2
          <5>2. r = s
            BY <2>1, <3>2, <5>1
          <5> QED BY <2>3, <5>1, <5>2
        <4> QED BY <4>1, <4>2
      <3> HIDE DEF d
      <3>3. Closed(R \ {d})
        BY <3>1, <3>2
      <3>4. d \notin R
        BY <1>3, <3>3
      <3> QED BY <2>3, <3>4 DEF d
    <2>4. One(n + 1)
      BY <2>2, <2>3
    <2> HIDE DEF One
    <2> QED BY <2>4
  <1>6. \A n \in Nat : One(n)
    <2>1. \A n \in Nat : n \in G
      <3> HIDE DEF G
      <3> QED BY <1>4, <1>5, NumberInduction
    <2> QED BY <2>1
  <1>7. ASSUME NEW n \in Nat
        PROVE  /\ f[n] \in S /\ <<n, f[n]>> \in R
               /\ \A t \in S : <<n, t>> \in R => t = f[n]
    BY <1>6
  <1>8. f \in [Nat -> S]
    BY <1>7
  <1> HIDE DEF f, One, G
  <1>9. f[0] = a
    BY <1>2, <1>7
  <1>10. ASSUME NEW n \in Nat PROVE f[n + 1] = h[<<n, f[n]>>]
    <2>1. f[n] \in S /\ <<n, f[n]>> \in R
      BY <1>7
    <2>2. <<n + 1, h[<<n, f[n]>>]>> \in R /\ h[<<n, f[n]>>] \in S /\ n + 1 \in Nat
      BY <1>1, <1>2, <2>1
    <2> QED BY <1>7, <2>2
  <1> QED BY <1>8, <1>9, <1>10 DEF Continues

=============================================================================
