---------------------------- MODULE ClusterProofs ----------------------------
(***************************************************************************)
(* Proofs about Cluster, for every window of records, every family of      *)
(* permutations and bands, every threshold and every score: union-find     *)
(* ends, and the partition it comes to is the one NearDuplicates speaks    *)
(* of.                                                                     *)
(***************************************************************************)
EXTENDS Cluster, Induction

----------------------------------------------------------------------------
(***************************************************************************)
(* Union-find.  A forest whose parents are never larger than their         *)
(* children: that is what makes find end.                                  *)
(***************************************************************************)
Forest(p, M) == M \subseteq Nat /\ p \in [M -> M] /\ \A x \in M : p[x] <= x

\* What holds of the roots, and of each element whose parent it holds of, holds
\* of all.
LEMMA DescentInduction ==
    ASSUME NEW M, NEW p, Forest(p, M), NEW G,
           \A x \in M : (p[x] = x \/ p[x] \in G) => x \in G
    PROVE  M \subseteq G
  <1>1. SUFFICES ASSUME M \ G # {} PROVE FALSE
    OBVIOUS
  <1>2. PICK x \in M \ G : \A y \in M \ G : x <= y
    <2>1. M \ G \in SUBSET Nat
      BY DEF Forest
    <2> QED BY <1>1, <2>1, LeastNumber
  <1>3. p[x] \in M /\ p[x] <= x /\ p[x] \in Nat /\ x \in Nat
    BY <1>2 DEF Forest
  <1>4. p[x] # x /\ p[x] \notin G
    BY <1>2
  <1> QED BY <1>2, <1>3, <1>4

\* The path of x is x and, unless x is a root, the path of its parent: a set
\* with this property exists, the one every closed set through x holds.
LEMMA PathUnfolds ==
    ASSUME NEW M, NEW p, Forest(p, M), NEW x \in M
    PROVE  Path(p, x) = IF p[x] = x THEN {x} ELSE {x} \cup Path(p, p[x])
  <1> DEFINE closed(S) == \A w \in S : p[w] \in S
             up(y) == {z \in M : \A S \in SUBSET M : y \in S /\ closed(S) => z \in S}
             Unfolds(f) == f = [y \in M |-> IF p[y] = y THEN {y} ELSE {y} \cup f[p[y]]]
             g == [y \in M |-> up(y)]
  <1> p \in [M -> M]
    BY DEF Forest
  <1>1. ASSUME NEW y \in M
        PROVE  up(y) = IF p[y] = y THEN {y} ELSE {y} \cup up(p[y])
    <2>1. y \in up(y) /\ p[y] \in M
      OBVIOUS
    <2>2. CASE p[y] = y
      <3>1. {y} \in SUBSET M /\ closed({y})
        BY <2>2
      <3> QED BY <2>1, <2>2, <3>1
    <2>3. CASE p[y] # y
      <3>1. ASSUME NEW z \in up(p[y]) PROVE z \in up(y)
        OBVIOUS
      <3>2. closed(up(p[y]))
        OBVIOUS
      <3>3. p[y] \in up(p[y])
        BY <2>1
      <3>4. {y} \cup up(p[y]) \in SUBSET M /\ closed({y} \cup up(p[y]))
        BY <3>2, <3>3
      <3>5. ASSUME NEW z \in up(y) PROVE z \in {y} \cup up(p[y])
        BY <3>4
      <3> HIDE DEF up
      <3> QED BY <2>1, <2>3, <3>1, <3>5
    <2> QED BY <2>2, <2>3
  <1>2. Unfolds(g)
    <2>1. \A y \in M : g[y] = up(y)
      OBVIOUS
    <2> HIDE DEF up
    <2>2. \A y \in M : g[y] = IF p[y] = y THEN {y} ELSE {y} \cup g[p[y]]
      BY <1>1, <2>1
    <2> QED BY <2>2
  <1> DEFINE f == CHOOSE h : Unfolds(h)
  <1>3. Unfolds(f)
    <2> HIDE DEF Unfolds
    <2> QED BY <1>2
  <1>4. DOMAIN p = M
    OBVIOUS
  <1>5. \A y : Path(p, y) = f[y]
    BY <1>4 DEF Path
  <1> HIDE DEF f
  <1> QED BY <1>3, <1>5

\* Each path ends in one root, and in no second one.
LEMMA PathEndsInOneRoot ==
    ASSUME NEW M, NEW p, Forest(p, M)
    PROVE  \A x \in M :
             /\ Path(p, x) \subseteq M /\ x \in Path(p, x)
             /\ \E r \in Path(p, x) : /\ p[r] = r /\ r <= x
                                      /\ \A s \in Path(p, x) : p[s] = s => s = r
  <1> DEFINE Ends(x, r) == /\ r \in Path(p, x) /\ p[r] = r /\ r <= x
                           /\ \A s \in Path(p, x) : p[s] = s => s = r
             G == {x \in M : Path(p, x) \subseteq M /\ x \in Path(p, x) /\ \E r : Ends(x, r)}
  <1>1. ASSUME NEW x \in M, p[x] = x \/ p[x] \in G PROVE x \in G
    <2>1. p \in [M -> M] /\ x \in Nat /\ p[x] \in Nat /\ p[x] <= x /\ p[x] \in M
      BY DEF Forest
    <2>2. Path(p, x) = IF p[x] = x THEN {x} ELSE {x} \cup Path(p, p[x])
      BY PathUnfolds
    <2>3. CASE p[x] = x
      <3>1. Ends(x, x)
        BY <2>1, <2>2, <2>3
      <3> QED BY <2>2, <2>3, <3>1
    <2>4. CASE p[x] # x
      <3>1. Path(p, p[x]) \subseteq M /\ \E r : Ends(p[x], r)
        BY <1>1, <2>4
      <3>2. PICK r : Ends(p[x], r)
        BY <3>1
      <3>3. r \in Nat /\ r <= x
        <4>1. r \in Path(p, p[x]) /\ r <= p[x]
          BY <3>2
        <4>2. r \in Nat
          BY <3>1, <4>1 DEF Forest
        <4> QED BY <2>1, <4>1, <4>2
      <3>4. Ends(x, r)
        BY <2>2, <2>4, <3>2, <3>3
      <3> QED BY <2>2, <2>4, <3>1, <3>4
    <2> QED BY <2>3, <2>4
  <1>2. M \subseteq G
    <2> HIDE DEF G
    <2> QED BY <1>1, DescentInduction
  <1> QED BY <1>2

\* What the proofs use of Root.
LEMMA RootFacts ==
    ASSUME NEW M, NEW p, Forest(p, M), NEW x \in M
    PROVE  /\ Root(p, x) \in M /\ Root(p, x) \in Path(p, x)
           /\ p[Root(p, x)] = Root(p, x) /\ Root(p, x) <= x
           /\ \A s \in Path(p, x) : p[s] = s => s = Root(p, x)
  <1>1. PICK r \in Path(p, x) : /\ p[r] = r /\ r <= x
                                /\ \A s \in Path(p, x) : p[s] = s => s = r
    BY PathEndsInOneRoot
  <1>2. Root(p, x) = r
    BY <1>1 DEF Root
  <1> QED BY <1>1, <1>2, PathEndsInOneRoot

\* A root is its own; every other element has the root of its parent.
LEMMA RootUnfolds ==
    ASSUME NEW M, NEW p, Forest(p, M), NEW x \in M
    PROVE  /\ p[x] = x => Root(p, x) = x
           /\ Root(p, p[x]) = Root(p, x)
           /\ Root(p, Root(p, x)) = Root(p, x)
  <1>1. ASSUME NEW y \in M, p[y] = y PROVE Root(p, y) = y
    BY <1>1, RootFacts, PathEndsInOneRoot
  <1>2. p[x] \in M /\ Path(p, x) = IF p[x] = x THEN {x} ELSE {x} \cup Path(p, p[x])
    <2>1. p[x] \in M
      BY DEF Forest
    <2> QED BY <2>1, PathUnfolds
  <1>3. Root(p, p[x]) = Root(p, x)
    <2>1. CASE p[x] = x
      BY <2>1
    <2>2. CASE p[x] # x
      <3>1. Root(p, p[x]) \in Path(p, x) /\ p[Root(p, p[x])] = Root(p, p[x])
        BY <1>2, <2>2, RootFacts
      <3> QED BY <3>1, RootFacts
    <2> QED BY <2>1, <2>2
  <1> QED BY <1>1, <1>3, RootFacts

\* All of a path has one root.
LEMMA PathSharesRoot ==
    ASSUME NEW M, NEW p, Forest(p, M), NEW x \in M, NEW y \in Path(p, x)
    PROVE  y \in M /\ Root(p, y) = Root(p, x)
  <1> DEFINE G == {z \in M : \A w \in Path(p, z) : Root(p, w) = Root(p, z)}
  <1>1. ASSUME NEW z \in M, p[z] = z \/ p[z] \in G PROVE z \in G
    <2>1. Path(p, z) = IF p[z] = z THEN {z} ELSE {z} \cup Path(p, p[z])
      BY PathUnfolds
    <2>2. Root(p, p[z]) = Root(p, z)
      BY RootUnfolds
    <2> QED BY <1>1, <2>1, <2>2
  <1>2. M \subseteq G
    <2> HIDE DEF G
    <2> QED BY <1>1, DescentInduction
  <1> QED BY <1>2, PathEndsInOneRoot

\* A map that is constant along parents and keeps the roots is Root.
LEMMA RootIsTheOne ==
    ASSUME NEW M, NEW p, Forest(p, M), NEW h,
           \A x \in M : h[p[x]] = h[x] /\ (p[x] = x => h[x] = x)
    PROVE  \A x \in M : Root(p, x) = h[x]
  <1> DEFINE G == {x \in M : Root(p, x) = h[x]}
  <1>1. ASSUME NEW x \in M, p[x] = x \/ p[x] \in G PROVE x \in G
    <2>1. CASE p[x] = x
      <3>1. Root(p, x) = x
        BY <2>1, RootUnfolds
      <3> QED BY <2>1, <3>1
    <2>2. CASE p[x] \in G
      <3>1. Root(p, p[x]) = h[p[x]] /\ h[p[x]] = h[x]
        BY <2>2
      <3>2. Root(p, p[x]) = Root(p, x)
        BY RootUnfolds
      <3> QED BY <3>1, <3>2
    <2> QED BY <1>1, <2>1, <2>2
  <1>2. M \subseteq G
    <2> HIDE DEF G
    <2> QED BY <1>1, DescentInduction
  <1> QED BY <1>2

\* Path compression moves no element to another root.
LEMMA CompressedKeepsRoots ==
    ASSUME NEW M, NEW p, Forest(p, M), NEW x \in M
    PROVE  /\ Forest(Compressed(p, x), M)
           /\ \A y \in M : Root(Compressed(p, x), y) = Root(p, y)
  <1> DEFINE q == Compressed(p, x)
             h == [y \in M |-> Root(p, y)]
  <1>1. p \in [M -> M] /\ M \subseteq Nat /\ \A y \in M : p[y] \in M /\ p[y] <= y
    BY DEF Forest
  <1>2. \A y \in M : q[y] = IF y \in Path(p, x) THEN Root(p, x) ELSE p[y]
    BY <1>1 DEF Compressed
  <1>3. Root(p, x) \in M /\ p[Root(p, x)] = Root(p, x) /\ Root(p, Root(p, x)) = Root(p, x)
    BY RootFacts, RootUnfolds
  <1>4. \A y \in M : y \in Path(p, x) => Root(p, y) = Root(p, x) /\ Root(p, x) <= y
    <2> TAKE y \in M
    <2> HAVE y \in Path(p, x)
    <2>1. Root(p, y) = Root(p, x)
      BY PathSharesRoot
    <2> QED BY <2>1, RootFacts
  <1>5. DOMAIN q = M
    BY <1>1 DEF Compressed
  <1> HIDE DEF q
  <1>6. Forest(q, M)
    <2>1. \A y \in M : q[y] \in M /\ q[y] <= y
      BY <1>1, <1>2, <1>3, <1>4
    <2>2. q \in [M -> M]
      <3>1. q = [y \in M |-> IF y \in Path(p, x) THEN Root(p, x) ELSE p[y]]
        BY <1>1 DEF q, Compressed
      <3> QED BY <1>1, <1>3, <3>1
    <2> QED BY <1>1, <2>1, <2>2 DEF Forest
  <1>7. \A y \in M : h[q[y]] = h[y] /\ (q[y] = y => h[y] = y)
    <2> TAKE y \in M
    <2>1. CASE y \in Path(p, x)
      BY <1>2, <1>3, <1>4, <2>1
    <2>2. CASE y \notin Path(p, x)
      <3>1. q[y] = p[y] /\ p[y] \in M
        BY <1>1, <1>2, <2>2
      <3>2. Root(p, p[y]) = Root(p, y) /\ (p[y] = y => Root(p, y) = y)
        BY RootUnfolds
      <3> QED BY <3>1, <3>2
    <2> QED BY <2>1, <2>2
  <1>8. \A y \in M : Root(q, y) = h[y]
    <2> HIDE DEF h
    <2> QED BY <1>6, <1>7, RootIsTheOne
  <1> QED BY <1>6, <1>8 DEF q

\* A union joins the two sets, under the smaller of the two roots, and moves no
\* element of any other.
LEMMA UnionJoins ==
    ASSUME NEW M, NEW p, Forest(p, M), NEW l \in M, NEW r \in M
    PROVE  LET a == Root(p, l)
               b == Root(p, r)
               low == IF a < b THEN a ELSE b
           IN  /\ Forest(Union(p, l, r), M)
               /\ \A y \in M : Root(Union(p, l, r), y) =
                               IF Root(p, y) \in {a, b} THEN low ELSE Root(p, y)
  <1> DEFINE q == Compressed(Compressed(p, l), r)
             a == Root(p, l)
             b == Root(p, r)
             low == IF a < b THEN a ELSE b
             high == IF a < b THEN b ELSE a
             t == [q EXCEPT ![high] = low]
             h == [y \in M |-> IF Root(p, y) \in {a, b} THEN low ELSE Root(p, y)]
  <1>1. Forest(q, M) /\ \A y \in M : Root(q, y) = Root(p, y)
    BY CompressedKeepsRoots
  <1>2. /\ a \in M /\ b \in M /\ a \in Nat /\ b \in Nat
        /\ Root(q, l) = a /\ Root(q, r) = b
    BY <1>1, RootFacts DEF Forest
  <1>3. Union(p, l, r) = IF a = b THEN q ELSE t
    <2>1. Union(p, l, r) = CASE a = b -> q
                             [] a < b -> [q EXCEPT ![b] = a]
                             [] b < a -> [q EXCEPT ![a] = b]
      <3> HIDE DEF a, b
      <3> QED BY <1>2 DEF Union
    <2>2. \/ a = b
          \/ a < b /\ a # b /\ ~(b < a) /\ low = a /\ high = b
          \/ b < a /\ a # b /\ ~(a < b) /\ low = b /\ high = a
      <3> HIDE DEF a, b
      <3> QED BY <1>2
    <2> HIDE DEF a, b, q, low, high
    <2>3. CASE a = b
      <3>1. ~(a < b) /\ ~(b < a)
        BY <1>2, <2>3
      <3> QED BY <2>1, <2>3, <3>1
    <2>4. CASE a < b /\ a # b /\ ~(b < a) /\ low = a /\ high = b
      BY <2>1, <2>4
    <2>5. CASE b < a /\ a # b /\ ~(a < b) /\ low = b /\ high = a
      BY <2>1, <2>5
    <2> QED BY <2>2, <2>3, <2>4, <2>5
  <1>4. CASE a = b
    BY <1>1, <1>3, <1>4, RootFacts
  <1>5. CASE a # b
    <2>1. /\ low \in M /\ high \in M /\ low < high /\ {a, b} = {low, high}
          /\ Root(p, low) = low /\ Root(p, high) = high
      BY <1>2, <1>5, RootUnfolds
    <2>2. q[high] = high
      <3>1. Root(q, high) = high
        BY <1>1, <2>1
      <3> QED BY <1>1, <2>1, <3>1, RootFacts
    <2>3. q \in [M -> M] /\ M \subseteq Nat /\ \A y \in M : q[y] \in M /\ q[y] <= y
      BY <1>1 DEF Forest
    <2>4. t \in [M -> M] /\ \A y \in M : t[y] = IF y = high THEN low ELSE q[y]
      <3> HIDE DEF q, low, high
      <3> QED BY <2>1, <2>3
    <2> HIDE DEF q, low, high, a, b, t
    <2>5. Forest(t, M)
      BY <2>1, <2>3, <2>4 DEF Forest
    <2>6. \A y \in M : h[y] = IF Root(p, y) \in {low, high} THEN low ELSE Root(p, y)
      BY <2>1
    <2> HIDE DEF h
    <2>7. ASSUME NEW y \in M PROVE h[t[y]] = h[y] /\ (t[y] = y => h[y] = y)
      <3>1. CASE y = high
        BY <2>1, <2>4, <2>6, <3>1
      <3>2. CASE y # high
        <4>1. t[y] = q[y] /\ q[y] \in M
          BY <2>3, <2>4, <3>2
        <4>2. Root(p, q[y]) = Root(p, y)
          BY <1>1, <4>1, RootUnfolds
        <4>3. q[y] = y => Root(p, y) = y
          BY <1>1, RootUnfolds
        <4> QED BY <2>1, <2>6, <3>2, <4>1, <4>2, <4>3
      <3> QED BY <3>1, <3>2
    <2>8. \A y \in M : Root(t, y) = h[y]
      BY <2>5, <2>7, RootIsTheOne
    <2>9. Union(p, l, r) = t
      BY <1>3, <1>5
    <2> QED BY <2>5, <2>8, <2>9 DEF h, low, a, b
  <1> QED BY <1>4, <1>5

----------------------------------------------------------------------------
(***************************************************************************)
(* The groups of a forest.                                                 *)
(***************************************************************************)
Block(p, x) == {y \in DOMAIN p : Root(p, y) = Root(p, x)}

\* The groups are the blocks of the elements, and share no element.
LEMMA GroupsAreBlocks ==
    ASSUME NEW M, NEW p, Forest(p, M)
    PROVE  /\ DOMAIN p = M
           /\ Groups(p) = {Block(p, x) : x \in M}
           /\ \A x \in M : x \in Block(p, x) /\ Block(p, x) \subseteq M
           /\ \A x, y \in M : Block(p, x) = Block(p, y) <=> Root(p, x) = Root(p, y)
           /\ \A g \in Groups(p) : g \subseteq M /\ g # {} /\ \A x \in g : g = Block(p, x)
  <1>1. DOMAIN p = M
    BY DEF Forest
  <1>2. Groups(p) = {Block(p, x) : x \in M}
    BY <1>1 DEF Groups, Block
  <1>3. \A x \in M : x \in Block(p, x) /\ Block(p, x) \subseteq M
    BY <1>1 DEF Block
  <1>4. ASSUME NEW x \in M, NEW y \in M
        PROVE  Block(p, x) = Block(p, y) <=> Root(p, x) = Root(p, y)
    BY <1>1 DEF Block
  <1>5. ASSUME NEW g \in Groups(p)
        PROVE  g \subseteq M /\ g # {} /\ \A x \in g : g = Block(p, x)
    <2>1. PICK z \in M : g = Block(p, z)
      BY <1>2, <1>5
    <2>2. \A x \in g : Root(p, x) = Root(p, z) /\ x \in M
      BY <1>1, <2>1 DEF Block
    <2> QED BY <1>3, <1>4, <2>1, <2>2
  <1> QED BY <1>1, <1>2, <1>3, <1>4, <1>5

\* A union makes one block of two, or changes none.
LEMMA UnionOfGroups ==
    ASSUME NEW M, NEW p, Forest(p, M), NEW l \in M, NEW r \in M
    PROVE  IF Root(p, l) = Root(p, r) THEN Groups(Union(p, l, r)) = Groups(p)
           ELSE /\ Block(p, l) # Block(p, r)
                /\ Groups(Union(p, l, r)) =
                     (Groups(p) \ {Block(p, l), Block(p, r)}) \cup {Block(p, l) \cup Block(p, r)}
  <1> DEFINE a == Root(p, l)
             b == Root(p, r)
             low == IF a < b THEN a ELSE b
             q == Union(p, l, r)
             both == Block(p, l) \cup Block(p, r)
  <1>1. /\ Forest(q, M)
        /\ \A y \in M : Root(q, y) = IF Root(p, y) \in {a, b} THEN low ELSE Root(p, y)
    BY UnionJoins
  <1>2. /\ DOMAIN p = M /\ Groups(p) = {Block(p, x) : x \in M}
        /\ \A x, y \in M : Block(p, x) = Block(p, y) <=> Root(p, x) = Root(p, y)
    BY GroupsAreBlocks
  <1>3. DOMAIN q = M /\ Groups(q) = {Block(q, x) : x \in M}
    BY <1>1, GroupsAreBlocks
  <1>4. low \in {a, b}
    OBVIOUS
  <1> HIDE DEF q, low
  <1>5. CASE a = b
    <2>1. \A y \in M : Root(q, y) = Root(p, y)
      BY <1>1, <1>4, <1>5
    <2>2. \A x \in M : Block(q, x) = Block(p, x)
      BY <1>2, <1>3, <2>1 DEF Block
    <2> QED BY <1>2, <1>3, <1>5, <2>2 DEF q
  <1>6. CASE a # b
    <2>1. ASSUME NEW x \in M
          PROVE  Block(q, x) = IF Root(p, x) \in {a, b} THEN both ELSE Block(p, x)
      <3>1. CASE Root(p, x) \in {a, b}
        <4>1. \A y \in M : Root(q, y) = Root(q, x) <=> Root(p, y) \in {a, b}
          BY <1>1, <1>4, <3>1
        <4>2. both = {y \in M : Root(p, y) \in {a, b}}
          BY <1>2 DEF Block
        <4>3. Block(q, x) = {y \in M : Root(p, y) \in {a, b}}
          BY <1>3, <4>1 DEF Block
        <4> QED BY <3>1, <4>2, <4>3
      <3>2. CASE Root(p, x) \notin {a, b}
        <4>1. \A y \in M : Root(q, y) = Root(q, x) <=> Root(p, y) = Root(p, x)
          BY <1>1, <1>4, <3>2
        <4>2. Block(q, x) = Block(p, x)
          BY <1>2, <1>3, <4>1 DEF Block
        <4> QED BY <3>2, <4>2
      <3> QED BY <3>1, <3>2
    <2>2. Block(p, l) # Block(p, r)
      BY <1>2, <1>6
    <2>3. \A x \in M : Root(p, x) \in {a, b} <=> Block(p, x) \in {Block(p, l), Block(p, r)}
      BY <1>2
    <2>4. ASSUME NEW g \in Groups(q)
          PROVE  g \in (Groups(p) \ {Block(p, l), Block(p, r)}) \cup {both}
      <3>1. PICK x \in M : g = Block(q, x)
        BY <1>3, <2>4
      <3> QED BY <1>2, <2>1, <2>3, <3>1
    <2>5. ASSUME NEW g \in (Groups(p) \ {Block(p, l), Block(p, r)}) \cup {both}
          PROVE  g \in Groups(q)
      <3>1. CASE g = both
        <4>1. Block(q, l) = both
          BY <2>1
        <4> QED BY <1>3, <3>1, <4>1
      <3>2. CASE g # both
        <4>1. PICK x \in M : g = Block(p, x)
          BY <1>2, <2>5, <3>2
        <4>2. Root(p, x) \notin {a, b}
          BY <2>3, <2>5, <3>2, <4>1
        <4>3. Block(q, x) = g
          BY <2>1, <4>1, <4>2
        <4> QED BY <1>3, <4>3
      <3> QED BY <3>1, <3>2
    <2>6. Groups(q) = (Groups(p) \ {Block(p, l), Block(p, r)}) \cup {both}
      <3> HIDE DEF both
      <3> QED BY <2>4, <2>5
    <2> QED BY <1>6, <2>2, <2>6 DEF q
  <1> QED BY <1>5, <1>6

\* Each element alone: the forest the merges start from.
LEMMA ForestOfRoots ==
    ASSUME NEW M, M \subseteq Nat
    PROVE  LET p == [x \in M |-> x]
           IN  Forest(p, M) /\ Groups(p) = {{x} : x \in M}
  <1> DEFINE p == [x \in M |-> x]
  <1>1. Forest(p, M)
    BY DEF Forest
  <1>2. \A x \in M : Root(p, x) = x
    BY <1>1, RootUnfolds
  <1>3. \A x \in M : Block(p, x) = {x}
    BY <1>2 DEF Block
  <1> HIDE DEF p
  <1>4. Groups(p) = {{x} : x \in M}
    <2>1. Groups(p) = {Block(p, x) : x \in M}
      BY <1>1, GroupsAreBlocks
    <2>2. ASSUME NEW g \in Groups(p) PROVE g \in {{x} : x \in M}
      BY <1>3, <2>1
    <2>3. ASSUME NEW x \in M PROVE {x} \in Groups(p)
      BY <1>3, <2>1
    <2> QED BY <2>2, <2>3
  <1> QED BY <1>1, <1>4 DEF p

----------------------------------------------------------------------------
(***************************************************************************)
(* The inductive invariant.                                                *)
(***************************************************************************)
\* The pairs to merge: proposed by banding and kept by verification.
Chosen == {e \in Candidates : Similar(e)}

Merging == pc \in {"merge", "done"}

\* What there is at each point of the run.
Phases ==
    /\ ~Merging => proposed = {} /\ merged = {} /\ parent = << >>
    /\ pc # "done" => clusters = << >>
    /\ pc = "done" => proposed = {} /\ clusters = Labelled

\* While it merges: a forest over the members, and each chosen pair either to
\* come or merged, which is to say in one group.
MergeInv ==
    Merging =>
        /\ Forest(parent, Members)
        /\ proposed \cup merged = Chosen
        /\ \A e \in merged : Root(parent, e[1]) = Root(parent, e[2])

\* No group is larger than the merged pairs make it.
GroupsAreLinked ==
    Merging =>
        \A x, y \in Members :
            Root(parent, x) = Root(parent, y) => <<x, y>> \in Linked(merged)

ClusterInv == TypeOK /\ Phases /\ MergeInv /\ GroupsAreLinked

----------------------------------------------------------------------------
(***************************************************************************)
(* The window, and the pairs of it.                                        *)
(***************************************************************************)
LEMMA WindowFacts ==
    ASSUME window \in Seq(Record)
    PROVE  /\ Members \subseteq Ids /\ Members \subseteq Nat /\ IsFiniteSet(Members)
           /\ \A x \in Members : Text(x) \subseteq Phrases /\ IsFiniteSet(Text(x))
  <1>1. \A k \in DOMAIN window : window[k] \in Record
    OBVIOUS
  <1>2. Members \subseteq Ids
    BY <1>1 DEF Members, Record
  <1>3. Members \subseteq Nat /\ IsFiniteSet(Members)
    BY <1>2, IdsAssumption, FS_Subset
  <1>4. ASSUME NEW x \in Members
        PROVE  Text(x) \subseteq Phrases /\ IsFiniteSet(Text(x))
    <2> DEFINE k == CHOOSE k \in DOMAIN window : window[k].id = x
    <2>1. k \in DOMAIN window
      BY <1>4 DEF Members
    <2>2. window[k].phrases \in {t \in SUBSET Phrases : IsFiniteSet(t)}
      BY <1>1, <2>1 DEF Record
    <2> QED BY <2>2 DEF Text
  <1> QED BY <1>2, <1>3, <1>4

\* Two records with the same words fall into one bucket and are verified,
\* whatever the permutations, the bands and the threshold.
LEMMA TwinsAreChosen ==
    ASSUME window \in Seq(Record), threshold \in Thresholds
    PROVE  /\ {e \in Pairs : Text(e[1]) = Text(e[2]) /\ Text(e[1]) # {}} \subseteq Chosen
           /\ Chosen \subseteq Alike
           /\ Chosen \subseteq Pairs
  <1>1. ASSUME NEW e \in Pairs, Text(e[1]) = Text(e[2]), Text(e[1]) # {}
        PROVE  e \in Chosen
    <2> DEFINE t == Text(e[1])
    <2>1. IsFiniteSet(t) /\ t # {}
      BY <1>1, WindowFacts DEF Pairs
    <2>2. SameBucket(t, t)
      BY BandsAssumption DEF SameBucket
    <2>3. Similar(e)
      <3>1. Jaccard(t, t) = <<Cardinality(t), Cardinality(t)>>
        <4>1. t \cap t = t /\ t \cup t = t
          OBVIOUS
        <4> HIDE DEF t
        <4> QED BY <2>1, <4>1 DEF Jaccard
      <3>2. Cardinality(t) \in Nat
        BY <2>1, FS_CardinalityType
      <3>3. PICK a \in Nat \ {0}, b \in Nat \ {0} : threshold = <<a, b>> /\ a <= b
        BY ThresholdsAssumption
      <3>4. \A n \in Nat : n * b >= a * n
        BY <3>3
      <3>5. AtLeast(<<Cardinality(t), Cardinality(t)>>, threshold)
        <4> HIDE DEF t
        <4> QED BY <3>2, <3>3, <3>4 DEF AtLeast
      <3> QED BY <1>1, <3>1, <3>5 DEF Similar
    <2> QED BY <1>1, <2>2, <2>3 DEF Chosen, Candidates
  <1> QED BY <1>1 DEF Chosen, Candidates, Alike, Similar

\* Of some pairs one comes first.
LEMMA FirstPair ==
    ASSUME window \in Seq(Record), NEW S \in SUBSET Pairs, S # {}
    PROVE  First(S) \in S
  <1> DEFINE less(e, f) == e[1] < f[1] \/ (e[1] = f[1] /\ e[2] < f[2])
             L == {d \in S \X S : less(d[1], d[2])}
  <1>1. \A e \in S : e[1] \in Nat /\ e[2] \in Nat /\ e = <<e[1], e[2]>>
    BY WindowFacts DEF Pairs
  <1>2. \A e, f \in S : <<e, f>> \in L <=> less(e, f)
    OBVIOUS
  <1>3. IsFiniteSet(S)
    <2>1. IsFiniteSet(Members \X Members)
      BY WindowFacts, FS_Product
    <2>2. S \in SUBSET (Members \X Members)
      BY DEF Pairs
    <2> QED BY <2>1, <2>2, FS_Subset
  <1>4. \A e \in S : <<e, e>> \notin L
    BY <1>1, <1>2
  <1>5. ASSUME NEW d \in S, NEW e \in S, NEW f \in S, less(d, e), less(e, f)
        PROVE  less(d, f)
    BY <1>1, <1>5
  <1> HIDE DEF L, less
  <1>6. PICK e \in S : \A f \in S : <<f, e>> \notin L
    BY <1>2, <1>3, <1>4, <1>5, FirstElement
  <1>7. \A f \in S : e[1] < f[1] \/ (e[1] = f[1] /\ e[2] <= f[2])
    <2> TAKE f \in S
    <2>1. ~less(f, e)
      BY <1>2, <1>6
    <2>2. e[1] \in Nat /\ e[2] \in Nat /\ f[1] \in Nat /\ f[2] \in Nat
      BY <1>1
    <2> QED BY <2>1, <2>2 DEF less
  <1> QED BY <1>7 DEF First

\* What the run is given does not change, nor what is read from it.
LEMMA GivenStays ==
    ASSUME [Next]_vars
    PROVE  /\ window' = window /\ scores' = scores /\ threshold' = threshold
           /\ Members' = Members /\ Pairs' = Pairs /\ Alike' = Alike /\ Chosen' = Chosen
           /\ \A x : Text(x)' = Text(x)
           /\ {e \in Pairs : Text(e[1]) = Text(e[2]) /\ Text(e[1]) # {}}'
                = {e \in Pairs : Text(e[1]) = Text(e[2]) /\ Text(e[1]) # {}}
  <1>1. window' = window /\ scores' = scores /\ threshold' = threshold
    BY DEF Next, Refuse, Propose, Merge, Label, Ended, vars, given
  <1>2. Members' = Members
    BY <1>1 DEF Members
  <1>3. Pairs' = Pairs
    BY <1>2 DEF Pairs
  <1>4. \A x : Text(x)' = Text(x)
    BY <1>1 DEF Text
  <1>5. {e \in Pairs : Text(e[1]) = Text(e[2]) /\ Text(e[1]) # {}}'
          = {e \in Pairs : Text(e[1]) = Text(e[2]) /\ Text(e[1]) # {}}
    BY <1>3, <1>4
  <1>6. Alike' = Alike
    BY <1>1, <1>3, <1>4 DEF Alike
  <1>7. Candidates' = Candidates
    BY <1>3, <1>4 DEF Candidates
  <1>8. Chosen' = Chosen
    BY <1>1, <1>4, <1>7 DEF Chosen, Similar
  <1> QED BY <1>1, <1>2, <1>3, <1>4, <1>5, <1>6, <1>8

----------------------------------------------------------------------------
(***************************************************************************)
(* The labels.                                                             *)
(***************************************************************************)
\* The best-scored member of a group, by name among equals.
LEMMA RepresentativeIsBest ==
    ASSUME scores \in [Ids -> Nat], NEW g, g \subseteq Ids, IsFiniteSet(g), g # {}
    PROVE  /\ Representative(g) \in g
           /\ \A y \in g : \/ scores[Representative(g)] > scores[y]
                          \/ /\ scores[Representative(g)] = scores[y]
                             /\ Representative(g) <= y
  <1> DEFINE better(x, y) == scores[x] > scores[y] \/ (scores[x] = scores[y] /\ x < y)
             L == {d \in g \X g : better(d[1], d[2])}
  <1>1. \A x \in g : x \in Nat /\ scores[x] \in Nat
    BY IdsAssumption
  <1>2. \A x, y \in g : <<x, y>> \in L <=> better(x, y)
    OBVIOUS
  <1>3. \A x \in g : <<x, x>> \notin L
    BY <1>1, <1>2
  <1>4. ASSUME NEW x \in g, NEW y \in g, NEW z \in g, better(x, y), better(y, z)
        PROVE  better(x, z)
    BY <1>1, <1>4
  <1> HIDE DEF L, better
  <1>5. PICK x \in g : \A y \in g : <<y, x>> \notin L
    BY <1>2, <1>3, <1>4, FirstElement
  <1>6. \A y \in g : scores[x] > scores[y] \/ (scores[x] = scores[y] /\ x <= y)
    <2> TAKE y \in g
    <2>1. ~better(y, x)
      BY <1>2, <1>5
    <2>2. x \in Nat /\ scores[x] \in Nat /\ y \in Nat /\ scores[y] \in Nat
      BY <1>1
    <2> QED BY <2>1, <2>2 DEF better
  <1> QED BY <1>6 DEF Representative

\* Before puts the groups in one order.
LEMMA BeforeIsAnOrder ==
    ASSUME window \in Seq(Record), scores \in [Ids -> Nat], Forest(parent, Members)
    PROVE  /\ IsFiniteSet(Groups(parent))
           /\ \A g \in Groups(parent) : /\ g \subseteq Members /\ g # {} /\ IsFiniteSet(g)
                                        /\ Representative(g) \in g
           /\ \A g \in Groups(parent) : ~Before(g, g)
           /\ \A g, h, i \in Groups(parent) : Before(g, h) /\ Before(h, i) => Before(g, i)
           /\ \A g, h \in Groups(parent) : g = h \/ Before(g, h) \/ Before(h, g)
  <1> DEFINE Gs == Groups(parent)
  <1>1. \A g \in Gs : g \subseteq Members /\ g # {} /\ \A x \in g : g = Block(parent, x)
    BY GroupsAreBlocks
  <1>2. IsFiniteSet(Gs)
    <2>1. Gs \in SUBSET (SUBSET Members)
      BY <1>1
    <2>2. IsFiniteSet(SUBSET Members)
      BY WindowFacts, FS_SUBSET
    <2> QED BY <2>1, <2>2, FS_Subset
  <1>3. \A g \in Gs : /\ IsFiniteSet(g) /\ Cardinality(g) \in Nat
                     /\ Representative(g) \in g /\ Representative(g) \in Nat
    <2> TAKE g \in Gs
    <2>1. IsFiniteSet(g) /\ Cardinality(g) \in Nat /\ g \subseteq Ids /\ g \subseteq Nat
      BY <1>1, WindowFacts, FS_Subset, FS_CardinalityType
    <2>2. Representative(g) \in g
      BY <1>1, <2>1, RepresentativeIsBest
    <2> QED BY <2>1, <2>2
  <1>4. \A g, h \in Gs : Representative(g) = Representative(h) => g = h
    BY <1>1, <1>3
  <1> DEFINE c(g) == Cardinality(g)
             r(g) == Representative(g)
  <1>5. \A g, h : Before(g, h) <=> c(g) > c(h) \/ (c(g) = c(h) /\ r(g) < r(h))
    BY DEF Before
  <1>6. \A g \in Gs : c(g) \in Nat /\ r(g) \in Nat
    BY <1>3
  <1>7. \A g, h \in Gs : r(g) = r(h) => g = h
    BY <1>4
  <1> HIDE DEF c, r, Gs
  <1>8. \A g \in Gs : ~Before(g, g)
    BY <1>5, <1>6
  <1>9. ASSUME NEW g \in Gs, NEW h \in Gs, NEW i \in Gs, Before(g, h), Before(h, i)
        PROVE  Before(g, i)
    BY <1>5, <1>6, <1>9
  <1>10. \A g, h \in Gs : g = h \/ Before(g, h) \/ Before(h, g)
    BY <1>5, <1>6, <1>7
  <1> QED BY <1>1, <1>2, <1>3, <1>8, <1>9, <1>10 DEF Gs

\* The clusters are the groups, each of them once, in that order.
LEMMA LabelledGroups ==
    ASSUME window \in Seq(Record), scores \in [Ids -> Nat], Forest(parent, Members)
    PROVE  LET L == Labelled
           IN  /\ DOMAIN L \subseteq Nat
               /\ {L[k].members : k \in DOMAIN L} = Groups(parent)
               /\ \A k \in DOMAIN L : /\ L[k].members \in Groups(parent)
                                      /\ L[k].representative = Representative(L[k].members)
                                      /\ L[k].weakest = WeakestLink(L[k].members)
               /\ \A k, m \in DOMAIN L : k < m => Before(L[k].members, L[m].members)
  <1> DEFINE G == Groups(parent)
             B == {d \in G \X G : Before(d[1], d[2])}
             place(g) == Cardinality({h \in G : h = g \/ Before(h, g)})
             at(k) == CHOOSE g \in G : place(g) = k
             n == Cardinality(G)
             L == Labelled
  <1>1. \A g, h \in G : <<g, h>> \in B <=> Before(g, h)
    OBVIOUS
  <1>2. \A g \in G : place(g) = Cardinality(UpTo(G, B, g))
    <2> TAKE g \in G
    <2>1. {h \in G : h = g \/ Before(h, g)} = UpTo(G, B, g)
      BY <1>1 DEF UpTo
    <2> QED BY <2>1
  <1>3. L = [k \in 1 .. n |-> [ representative |-> Representative(at(k)),
                               members |-> at(k), weakest |-> WeakestLink(at(k)) ]]
    BY DEF Labelled
  <1> HIDE DEF B, place, G, L
  <1>4. /\ \A g \in G : place(g) \in 1 .. n
        /\ \A g, h \in G : Before(g, h) => place(g) < place(h)
        /\ \A k \in 1 .. n : \E g \in G : place(g) = k
    <2>1. /\ IsFiniteSet(G)
          /\ \A g \in G : <<g, g>> \notin B
          /\ \A g, h, i \in G : <<g, h>> \in B /\ <<h, i>> \in B => <<g, i>> \in B
          /\ \A g, h \in G : g = h \/ <<g, h>> \in B \/ <<h, g>> \in B
      BY <1>1, BeforeIsAnOrder DEF G
    <2>2. /\ \A g \in G : Cardinality(UpTo(G, B, g)) \in 1 .. n
          /\ \A g, h \in G : <<g, h>> \in B =>
                Cardinality(UpTo(G, B, g)) < Cardinality(UpTo(G, B, h))
          /\ \A k \in 1 .. n : \E g \in G : Cardinality(UpTo(G, B, g)) = k
      BY <2>1, Numbering
    <2> QED BY <1>1, <1>2, <2>2
  <1>5. \A k \in 1 .. n : at(k) \in G /\ place(at(k)) = k
    BY <1>4
  <1>6. n \in Nat
    BY BeforeIsAnOrder, FS_CardinalityType DEF G
  <1>7. \A g \in G : at(place(g)) = g
    <2> TAKE g \in G
    <2>1. at(place(g)) \in G /\ place(at(place(g))) = place(g) /\ place(g) \in Nat
      BY <1>4, <1>5, <1>6
    <2> HIDE DEF at
    <2>2. ~Before(g, at(place(g))) /\ ~Before(at(place(g)), g)
      BY <1>4, <2>1
    <2> QED BY <2>1, <2>2, BeforeIsAnOrder DEF G
  <1> HIDE DEF at, n
  <1>8. /\ DOMAIN L = 1 .. n
        /\ \A k \in 1 .. n : /\ L[k].members = at(k)
                            /\ L[k].representative = Representative(at(k))
                            /\ L[k].weakest = WeakestLink(at(k))
    BY <1>3
  <1>9. {L[k].members : k \in DOMAIN L} = G
    <2>1. ASSUME NEW k \in DOMAIN L PROVE L[k].members \in G
      BY <1>5, <1>8
    <2>2. ASSUME NEW g \in G PROVE \E k \in DOMAIN L : L[k].members = g
      <3>1. place(g) \in DOMAIN L
        BY <1>4, <1>8
      <3> QED BY <1>7, <1>8, <3>1
    <2> QED BY <2>1, <2>2
  <1>10. ASSUME NEW k \in 1 .. n, NEW m \in 1 .. n, k < m PROVE Before(at(k), at(m))
    <2>1. at(k) \in G /\ at(m) \in G /\ place(at(k)) = k /\ place(at(m)) = m
      BY <1>5
    <2>2. at(k) # at(m) /\ ~Before(at(m), at(k))
      BY <1>4, <1>6, <1>10, <2>1
    <2> QED BY <2>1, <2>2, BeforeIsAnOrder DEF G
  <1>11. DOMAIN L \subseteq Nat
    BY <1>6, <1>8
  <1>12. \A k \in DOMAIN L : /\ L[k].members \in G
                             /\ L[k].representative = Representative(L[k].members)
                             /\ L[k].weakest = WeakestLink(L[k].members)
    BY <1>5, <1>8
  <1>13. \A k, m \in DOMAIN L : k < m => Before(L[k].members, L[m].members)
    BY <1>8, <1>10
  <1> QED BY <1>9, <1>11, <1>12, <1>13 DEF L, G

----------------------------------------------------------------------------
(***************************************************************************)
(* The invariant holds at the start and at every step.                     *)
(***************************************************************************)
LEMMA ClusterStarts == Init => ClusterInv
  <1> SUFFICES ASSUME Init PROVE ClusterInv
    OBVIOUS
  <1>1. ~Merging /\ pc # "done"
    BY DEF Init, Merging
  <1>2. TypeOK
    BY <1>1, WindowsAssumption, ScoresAssumption DEF Init, TypeOK, ParentsDescend, Merging
  <1> QED BY <1>1, <1>2 DEF Init, ClusterInv, Phases, MergeInv, GroupsAreLinked, Linked

\* The labels are read from the window, the scores, the forest and the merges.
LEMMA LabelsStay ==
    ASSUME [Next]_vars, merged' = merged, parent' = parent
    PROVE  Labelled' = Labelled
  <1>1. scores' = scores /\ \A x : Text(x)' = Text(x)
    BY GivenStays
  <1>2. \A g : Inside(g)' = Inside(g)
    BY <1>1 DEF Inside
  <1>3. \A g : Representative(g)' = Representative(g)
    BY <1>1 DEF Representative
  <1>4. ASSUME NEW g PROVE WeakestLink(g)' = WeakestLink(g)
    <2>1. Inside(g)' = Inside(g)
      BY <1>2
    <2> QED BY <2>1 DEF WeakestLink, AtLeast, NoLink
  <1>5. \A g, h : Before(g, h)' = Before(g, h)
    BY <1>3 DEF Before
  <1> QED BY <1>3, <1>4, <1>5 DEF Labelled

\* Banding starts from each record alone.
LEMMA ProposeKeeps == ASSUME ClusterInv, Propose PROVE ClusterInv'
  <1>1. /\ window \in Seq(Record) /\ threshold \in Thresholds /\ scores \in [Ids -> Nat]
        /\ merged = {} /\ clusters = << >>
    BY DEF ClusterInv, TypeOK, Phases, Propose, Merging
  <1>2. /\ window' = window /\ scores' = scores /\ threshold' = threshold
        /\ pc' = "merge" /\ proposed' = Chosen /\ merged' = {} /\ clusters' = << >>
        /\ parent' = [x \in Members |-> x]
    BY <1>1 DEF Propose, given, Chosen
  <1>3. Members' = Members /\ Pairs' = Pairs /\ Chosen' = Chosen
    BY GivenStays DEF Next
  <1>4. Members \subseteq Nat /\ Chosen \subseteq Pairs
    BY <1>1, WindowFacts, TwinsAreChosen
  <1>5. Forest(parent', Members) /\ \A x \in Members : Root(parent', x) = x
    <2>1. Forest(parent', Members)
      BY <1>2, <1>4, ForestOfRoots
    <2> QED BY <1>2, <2>1, RootUnfolds
  <1>6. TypeOK'
    <2>1. parent' \in [Members -> Members] /\ \A x \in DOMAIN parent' : parent'[x] <= x
      BY <1>2, <1>4
    <2> QED BY <1>1, <1>2, <1>3, <1>4, <2>1 DEF TypeOK, ParentsDescend
  <1>7. Phases'
    BY <1>2 DEF Phases, Merging
  <1>8. MergeInv'
    BY <1>2, <1>3, <1>5 DEF MergeInv
  <1>9. GroupsAreLinked'
    BY <1>3, <1>5 DEF GroupsAreLinked, Linked
  <1> QED BY <1>6, <1>7, <1>8, <1>9 DEF ClusterInv

\* A merge joins two groups by a chosen pair.
LEMMA MergeKeeps == ASSUME ClusterInv, Merge PROVE ClusterInv'
  <1> DEFINE e == First(proposed)
             a == Root(parent, e[1])
             b == Root(parent, e[2])
             low == IF a < b THEN a ELSE b
  <1>1. /\ window \in Seq(Record) /\ threshold \in Thresholds /\ scores \in [Ids -> Nat]
        /\ Merging /\ clusters = << >> /\ pc = "merge"
        /\ proposed \subseteq Pairs /\ merged \subseteq Pairs
        /\ Forest(parent, Members) /\ proposed \cup merged = Chosen
        /\ \A f \in merged : Root(parent, f[1]) = Root(parent, f[2])
    BY DEF ClusterInv, TypeOK, Phases, MergeInv, Merge, Merging
  <1>2. /\ window' = window /\ scores' = scores /\ threshold' = threshold
        /\ pc' = "merge" /\ clusters' = << >>
        /\ parent' = Union(parent, e[1], e[2])
        /\ proposed' = proposed \ {e} /\ merged' = merged \cup {e}
    BY <1>1 DEF Merge, given
  <1>3. Members' = Members /\ Pairs' = Pairs /\ Chosen' = Chosen
    BY GivenStays DEF Next
  <1>4. e \in proposed /\ e \in Pairs /\ e[1] \in Members /\ e[2] \in Members
    <2>1. proposed \in SUBSET Pairs /\ proposed # {}
      BY <1>1 DEF Merge
    <2>2. e \in proposed
      BY <1>1, <2>1, FirstPair
    <2> QED BY <2>1, <2>2 DEF Pairs
  <1>5. \A f \in merged : f[1] \in Members /\ f[2] \in Members
    BY <1>1 DEF Pairs
  <1> HIDE DEF e
  <1>6. /\ Forest(parent', Members)
        /\ \A y \in Members : Root(parent', y) =
                              IF Root(parent, y) \in {a, b} THEN low ELSE Root(parent, y)
    BY <1>1, <1>2, <1>4, UnionJoins
  <1>7. TypeOK'
    <2>1. parent' \in [Members -> Members] /\ \A x \in DOMAIN parent' : parent'[x] <= x
      BY <1>6 DEF Forest
    <2>2. proposed' \subseteq Pairs /\ merged' \subseteq Pairs
      BY <1>1, <1>2, <1>4
    <2> QED BY <1>1, <1>2, <1>3, <2>1, <2>2 DEF TypeOK, ParentsDescend
  <1>8. Phases'
    BY <1>2 DEF Phases, Merging
  <1>9. MergeInv'
    <2>1. proposed' \cup merged' = Chosen
      BY <1>1, <1>2, <1>4
    <2>2. \A f \in merged' : Root(parent', f[1]) = Root(parent', f[2])
      <3> TAKE f \in merged'
      <3>1. CASE f \in merged
        BY <1>1, <1>5, <1>6, <3>1
      <3>2. CASE f = e
        BY <1>4, <1>6, <3>2
      <3> QED BY <1>2, <3>1, <3>2
    <2> QED BY <1>3, <1>6, <2>1, <2>2 DEF MergeInv
  <1>10. GroupsAreLinked'
    <2> SUFFICES ASSUME NEW S \in SUBSET Members,
                        \A f \in merged' : f[1] \in S <=> f[2] \in S,
                        NEW x \in Members, NEW y \in Members,
                        Root(parent', x) = Root(parent', y)
                 PROVE  x \in S <=> y \in S
      BY <1>3 DEF GroupsAreLinked, Linked
    <2>1. e[1] \in S <=> e[2] \in S
      BY <1>2
    <2>2. \A u, v \in Members : Root(parent, u) = Root(parent, v) => (u \in S <=> v \in S)
      BY <1>1, <1>2 DEF ClusterInv, GroupsAreLinked, Linked
    <2>3. \A u \in Members : Root(parent, u) \in {a, b} => (u \in S <=> e[1] \in S)
      BY <1>4, <2>1, <2>2
    <2>4. low \in {a, b}
      OBVIOUS
    <2>5. \/ Root(parent, x) \in {a, b} /\ Root(parent, y) \in {a, b}
          \/ Root(parent, x) = Root(parent, y)
      <3> HIDE DEF a, b, low
      <3> QED BY <1>6, <2>4
    <2> QED BY <2>2, <2>3, <2>5
  <1> QED BY <1>7, <1>8, <1>9, <1>10 DEF ClusterInv

\* Labelling gives out the groups.
LEMMA LabelKeeps == ASSUME ClusterInv, Label PROVE ClusterInv'
  <1>1. /\ window \in Seq(Record) /\ threshold \in Thresholds /\ scores \in [Ids -> Nat]
        /\ Merging /\ pc = "merge" /\ Forest(parent, Members)
    BY DEF ClusterInv, TypeOK, MergeInv, Label, Merging
  <1>2. /\ window' = window /\ scores' = scores /\ threshold' = threshold
        /\ pc' = "done" /\ proposed = {} /\ clusters' = Labelled
        /\ proposed' = proposed /\ merged' = merged /\ parent' = parent
    BY DEF Label, given
  <1>3. Members' = Members /\ Pairs' = Pairs /\ Chosen' = Chosen
    BY GivenStays DEF Next
  <1>4. Labelled' = Labelled
    BY <1>2, LabelsStay DEF Next
  <1>5. TypeOK'
    <2>1. \A k \in DOMAIN clusters' : clusters'[k].members \subseteq Members
      <3>1. \A k \in DOMAIN clusters' : clusters'[k].members \in Groups(parent)
        BY <1>1, <1>2, LabelledGroups
      <3> QED BY <1>1, <3>1, GroupsAreBlocks
    <2> QED BY <1>1, <1>2, <1>3, <2>1 DEF ClusterInv, TypeOK, ParentsDescend
  <1>6. Phases'
    BY <1>2, <1>4 DEF Phases, Merging
  <1>7. MergeInv'
    BY <1>1, <1>2, <1>3 DEF ClusterInv, MergeInv
  <1>8. GroupsAreLinked'
    BY <1>1, <1>2, <1>3 DEF ClusterInv, GroupsAreLinked, Linked
  <1> QED BY <1>5, <1>6, <1>7, <1>8 DEF ClusterInv

\* A refusal and a stutter change nothing the invariant reads.
LEMMA OthersKeep == ASSUME ClusterInv, Refuse \/ UNCHANGED vars PROVE ClusterInv'
  <1>1. [Next]_vars
    BY DEF Next
  <1>2. /\ window' = window /\ scores' = scores /\ threshold' = threshold
        /\ proposed' = proposed /\ merged' = merged /\ parent' = parent /\ clusters' = clusters
        /\ (pc' = pc \/ (pc = "start" /\ pc' = "refused"))
    BY DEF Refuse, vars, given
  <1>3. Members' = Members /\ Pairs' = Pairs /\ Chosen' = Chosen
    BY <1>1, GivenStays
  <1>4. Labelled' = Labelled
    BY <1>1, <1>2, LabelsStay
  <1>5. Merging' => Merging
    BY <1>2 DEF Merging
  <1>6. TypeOK'
    BY <1>2, <1>3 DEF ClusterInv, TypeOK, ParentsDescend
  <1>7. Phases'
    BY <1>2, <1>4 DEF ClusterInv, Phases, Merging
  <1>8. MergeInv'
    BY <1>2, <1>3, <1>5 DEF ClusterInv, MergeInv
  <1>9. GroupsAreLinked'
    BY <1>2, <1>3, <1>5 DEF ClusterInv, GroupsAreLinked, Linked
  <1> QED BY <1>6, <1>7, <1>8, <1>9 DEF ClusterInv

\* ClusterInv holds of every state of the run.
THEOREM ClusterInvAlways == Spec => []ClusterInv
  <1>1. ASSUME ClusterInv, [Next]_vars PROVE ClusterInv'
    BY <1>1, ProposeKeeps, MergeKeeps, LabelKeeps, OthersKeep DEF Next, Ended
  <1> QED BY <1>1, ClusterStarts, PTL DEF Spec

\* The state has its shape: the forest, above all, has no cycle, so that find
\* ends (UnionFind.find).
THEOREM ClusterTypeCorrect == Spec => []TypeOK
  <1>1. ClusterInv => TypeOK
    BY DEF ClusterInv
  <1> QED BY <1>1, ClusterInvAlways, PTL

----------------------------------------------------------------------------
(***************************************************************************)
(* Cluster implements NearDuplicates: a merge joins two blocks or changes  *)
(* none, labelling closes, and the other steps change nothing it speaks    *)
(* of.                                                                     *)
(***************************************************************************)
Twins == {e \in Pairs : Text(e[1]) = Text(e[2]) /\ Text(e[1]) # {}}

State == CASE pc = "done" -> "closed" [] pc = "refused" -> "refused" [] OTHER -> "open"

\* Blocks and State at each point of the run.
LEMMA BlocksOfPhases ==
    /\ pc \in {"start", "refused"} => Blocks = {{x} : x \in Members}
    /\ pc = "merge" => Blocks = Groups(parent)
    /\ pc = "done" => Blocks = {clusters[k].members : k \in DOMAIN clusters}
    /\ pc \in {"start", "merge"} => State = "open"
    /\ pc = "done" => State = "closed"
    /\ pc = "refused" => State = "refused"
  BY DEF Blocks, State

\* The same in the next state.
LEMMA BlocksOfPhasesNext ==
    /\ pc' \in {"start", "refused"} => Blocks' = {{x} : x \in Members'}
    /\ pc' = "merge" => Blocks' = Groups(parent')
    /\ pc' = "done" => Blocks' = {clusters'[k].members : k \in DOMAIN clusters'}
    /\ pc' \in {"start", "merge"} => State' = "open"
    /\ pc' = "done" => State' = "closed"
    /\ pc' = "refused" => State' = "refused"
  BY DEF Blocks, State

\* What the blocks are made of does not change.
LEMMA AbstractGiven ==
    ASSUME [Next]_vars
    PROVE  Members' = Members /\ Alike' = Alike /\ Twins' = Twins /\ Chosen' = Chosen
  BY GivenStays DEF Twins

\* The run starts where NearDuplicates does.
LEMMA StartsAsPromised == Init => N!Init
  <1> SUFFICES ASSUME Init PROVE N!Init
    OBVIOUS
  <1>1. window \in Seq(Record) /\ threshold \in Thresholds /\ pc = "start"
    BY WindowsAssumption DEF Init
  <1>2. Twins \subseteq Chosen /\ Chosen \subseteq Alike
    BY <1>1, TwinsAreChosen DEF Twins
  <1>3. Blocks = {{x} : x \in Members} /\ State = "open"
    BY <1>1, BlocksOfPhases
  <1> QED BY <1>2, <1>3 DEF N!Init, N!Singletons, Twins, Chosen, State

\* A window that cannot be partitioned is refused before any block is joined.
LEMMA RefuseIsRefuse == ASSUME ClusterInv, Refuse PROVE N!Refuse
  <1>1. pc = "start" /\ pc' = "refused"
    BY DEF Refuse
  <1>2. Members' = Members /\ Alike' = Alike /\ Twins' = Twins /\ Chosen' = Chosen
    BY AbstractGiven DEF Next
  <1>3. /\ State = "open" /\ State' = "refused"
        /\ Blocks = {{x} : x \in Members} /\ Blocks' = Blocks
    BY <1>1, <1>2, BlocksOfPhases, BlocksOfPhasesNext
  <1> QED BY <1>2, <1>3 DEF N!Refuse, N!Singletons, Twins, Chosen, State

\* Banding joins nothing.
LEMMA ProposeStutters == ASSUME ClusterInv, Propose PROVE UNCHANGED N!vars
  <1>1. pc = "start" /\ pc' = "merge" /\ parent' = [x \in Members |-> x]
    BY DEF Propose
  <1>2. Members' = Members /\ Alike' = Alike /\ Twins' = Twins /\ Chosen' = Chosen
    BY AbstractGiven DEF Next
  <1>3. Members \subseteq Nat
    BY WindowFacts DEF ClusterInv, TypeOK
  <1>4. Groups(parent') = {{x} : x \in Members}
    BY <1>1, <1>3, ForestOfRoots
  <1>5. State = "open" /\ State' = "open" /\ Blocks' = Blocks
    BY <1>1, <1>4, BlocksOfPhases, BlocksOfPhasesNext
  <1> QED BY <1>2, <1>5 DEF N!vars, Twins, Chosen, State

\* A merge joins the two blocks its pair lies across, if it does.
LEMMA MergeJoins == ASSUME ClusterInv, Merge PROVE N!Join \/ UNCHANGED N!vars
  <1> DEFINE e == First(proposed)
  <1>1. /\ pc = "merge" /\ pc' = "merge" /\ parent' = Union(parent, e[1], e[2])
        /\ Forest(parent, Members)
    BY DEF Merge, ClusterInv, MergeInv, Merging
  <1>2. e \in Chosen /\ e[1] \in Members /\ e[2] \in Members
    <2>1. window \in Seq(Record) /\ proposed \in SUBSET Pairs /\ proposed # {}
          /\ proposed \subseteq Chosen
      BY DEF ClusterInv, TypeOK, MergeInv, Merging, Merge
    <2>2. e \in proposed
      BY <2>1, FirstPair
    <2> QED BY <2>1, <2>2 DEF Pairs
  <1> HIDE DEF e
  <1>3. Members' = Members /\ Alike' = Alike /\ Twins' = Twins /\ Chosen' = Chosen
    BY AbstractGiven DEF Next
  <1>4. /\ State = "open" /\ State' = "open"
        /\ Blocks = Groups(parent) /\ Blocks' = Groups(Union(parent, e[1], e[2]))
    BY <1>1, BlocksOfPhases, BlocksOfPhasesNext
  <1>5. CASE Root(parent, e[1]) = Root(parent, e[2])
    <2>1. Blocks' = Blocks
      BY <1>1, <1>2, <1>4, <1>5, UnionOfGroups
    <2> QED BY <1>3, <1>4, <2>1 DEF N!vars, Twins, Chosen, State
  <1>6. CASE Root(parent, e[1]) # Root(parent, e[2])
    <2> DEFINE b == Block(parent, e[1])
               c == Block(parent, e[2])
    <2>1. b # c /\ Blocks' = (Blocks \ {b, c}) \cup {b \cup c}
      BY <1>1, <1>2, <1>4, <1>6, UnionOfGroups
    <2>2. b \in Blocks /\ c \in Blocks /\ e[1] \in b /\ e[2] \in c
      BY <1>1, <1>2, <1>4, GroupsAreBlocks
    <2> HIDE DEF b, c
    <2> QED BY <1>2, <1>3, <1>4, <2>1, <2>2 DEF N!Join, N!Across, Twins, Chosen, State
  <1> QED BY <1>5, <1>6

\* Labelling gives out the blocks, once no chosen pair lies across two of them.
LEMMA LabelCloses == ASSUME ClusterInv, Label PROVE N!Close
  <1>1. /\ pc = "merge" /\ pc' = "done" /\ clusters' = Labelled
        /\ window \in Seq(Record) /\ scores \in [Ids -> Nat] /\ Forest(parent, Members)
        /\ merged = Chosen /\ merged \subseteq Pairs
        /\ \A e \in merged : Root(parent, e[1]) = Root(parent, e[2])
    BY DEF Label, ClusterInv, TypeOK, MergeInv, Merging
  <1>2. Members' = Members /\ Alike' = Alike /\ Twins' = Twins /\ Chosen' = Chosen
    BY AbstractGiven DEF Next
  <1>3. State = "open" /\ State' = "closed" /\ Blocks = Groups(parent)
    BY <1>1, BlocksOfPhases, BlocksOfPhasesNext
  <1>4. Blocks' = Blocks
    <2>1. {Labelled[k].members : k \in DOMAIN Labelled} = Groups(parent)
      BY <1>1, LabelledGroups
    <2> QED BY <1>1, <1>3, <2>1, BlocksOfPhasesNext
  <1>5. ASSUME NEW e \in Chosen PROVE \E b \in Blocks : e[1] \in b /\ e[2] \in b
    <2> DEFINE b == Block(parent, e[1])
    <2>1. e[1] \in Members /\ e[2] \in Members /\ Root(parent, e[1]) = Root(parent, e[2])
      BY <1>1 DEF Pairs
    <2>2. b \in Groups(parent) /\ e[1] \in b
      BY <1>1, <2>1, GroupsAreBlocks
    <2>3. e[2] \in b
      <3>1. Block(parent, e[2]) = b /\ e[2] \in Block(parent, e[2])
        BY <1>1, <2>1, GroupsAreBlocks
      <3> QED BY <3>1
    <2> QED BY <1>3, <2>2, <2>3
  <1> QED BY <1>2, <1>3, <1>4, <1>5 DEF N!Close, N!Across, Twins, Chosen, State

\* A step that changes nothing changes none of it.
LEMMA StutterStutters == ASSUME UNCHANGED vars PROVE UNCHANGED N!vars
  <1>1. Members' = Members /\ Alike' = Alike /\ Twins' = Twins /\ Chosen' = Chosen
    BY AbstractGiven
  <1>2. State' = State
    BY DEF State, vars
  <1>3. Blocks' = Blocks
    <2>1. pc' = pc /\ parent' = parent /\ clusters' = clusters
      BY DEF vars
    <2>2. Groups(parent)' = Groups(parent)
      BY <2>1
    <2> QED BY <1>1, <2>1, <2>2 DEF Blocks
  <1> QED BY <1>1, <1>2, <1>3 DEF N!vars, Twins, Chosen, State

\* Banding, verification and union-find with path compression come to the
\* partition NearDuplicates speaks of, one join at a time.
THEOREM ClusterKeepsPartition == Spec => PartitionKept
  <1>1. Init => N!Init
    BY StartsAsPromised
  <1>2. ClusterInv /\ [Next]_vars => [N!Next]_N!vars
    <2>1. ASSUME ClusterInv, [Next]_vars PROVE N!Next \/ UNCHANGED N!vars
      BY <2>1, RefuseIsRefuse, ProposeStutters, MergeJoins, LabelCloses, StutterStutters
         DEF Next, Ended, N!Next
    <2> QED BY <2>1
  <1> QED BY <1>1, <1>2, ClusterInvAlways, PTL DEF Spec, PartitionKept, N!Spec

----------------------------------------------------------------------------
(***************************************************************************)
(* The weakest link of a group.                                            *)
(***************************************************************************)
\* A similarity is a fraction with a positive denominator.
LEMMA SimilarityType ==
    ASSUME window \in Seq(Record), NEW e \in Pairs
    PROVE  LET f == Jaccard(Text(e[1]), Text(e[2])) IN f[1] \in Nat /\ f[2] \in Nat \ {0}
  <1> DEFINE s == Text(e[1])
             t == Text(e[2])
  <1>1. IsFiniteSet(s) /\ IsFiniteSet(t)
    BY WindowFacts DEF Pairs
  <1> HIDE DEF s, t
  <1>2. CASE s = {} \/ t = {}
    BY <1>2 DEF Jaccard, s, t
  <1>3. CASE ~(s = {} \/ t = {})
    <2>1. IsFiniteSet(s \cap t) /\ IsFiniteSet(s \cup t) /\ s \cup t # {}
      BY <1>1, <1>3, FS_Intersection, FS_Union
    <2>2. Cardinality(s \cap t) \in Nat /\ Cardinality(s \cup t) \in Nat \ {0}
      BY <2>1, FS_CardinalityType, FS_EmptySet
    <2>3. Jaccard(s, t) = <<Cardinality(s \cap t), Cardinality(s \cup t)>>
      BY <1>3 DEF Jaccard
    <2> QED BY <2>2, <2>3 DEF s, t
  <1> QED BY <1>2, <1>3

\* Fractions with positive denominators are compared transitively.
LEMMA CrossProducts ==
    ASSUME NEW p, NEW q, NEW r,
           p[1] \in Nat, p[2] \in Nat \ {0}, q[1] \in Nat, q[2] \in Nat \ {0},
           r[1] \in Nat, r[2] \in Nat \ {0},
           p[1] * q[2] < q[1] * p[2], q[1] * r[2] < r[1] * q[2]
    PROVE  p[1] * r[2] < r[1] * p[2]
  <1> DEFINE a == p[1]
             b == p[2]
             c == q[1]
             e == q[2]
             d == r[1]
             f == r[2]
  <1>0. /\ a \in Nat /\ c \in Nat /\ d \in Nat
        /\ b \in Nat \ {0} /\ e \in Nat \ {0} /\ f \in Nat \ {0}
        /\ a * e < c * b /\ c * f < d * e
    OBVIOUS
  <1> HIDE DEF a, b, c, d, e, f
  <1>1. \A x, y, z \in Nat : x < y /\ z # 0 => x * z < y * z
    OBVIOUS
  <1>2. (a * e) * f < (c * b) * f /\ (c * f) * b < (d * e) * b
    <2>1. a * e \in Nat /\ c * b \in Nat /\ c * f \in Nat /\ d * e \in Nat
      BY <1>0
    <2> QED BY <1>0, <1>1, <2>1
  <1>3. (a * f) * e < (d * b) * e
    <2>1. (a * e) * f = (a * f) * e /\ (c * b) * f = (c * f) * b /\ (d * e) * b = (d * b) * e
      BY <1>0
    <2>2. (a * f) * e \in Nat /\ (c * f) * b \in Nat /\ (d * b) * e \in Nat
      BY <1>0
    <2> QED BY <1>2, <2>1, <2>2
  <1>4. \A x, y, z \in Nat : x <= y => x * z <= y * z
    OBVIOUS
  <1>5. a * f \in Nat /\ d * b \in Nat
    BY <1>0
  <1>6. ASSUME a * f >= d * b PROVE FALSE
    <2>1. (d * b) * e <= (a * f) * e
      BY <1>0, <1>4, <1>5, <1>6
    <2>2. (a * f) * e \in Nat /\ (d * b) * e \in Nat
      BY <1>0
    <2> QED BY <1>3, <2>1, <2>2
  <1>7. a * f < d * b
    BY <1>5, <1>6
  <1> QED BY <1>7 DEF a, b, d, f

\* The links inside a group have a weakest, and it is one that was merged.
LEMMA WeakestIsWeakest ==
    ASSUME window \in Seq(Record), merged \subseteq Pairs,
           NEW g, \E e \in merged : e[1] \in g /\ e[2] \in g
    PROVE  /\ \E e \in merged : WeakestLink(g) = Jaccard(Text(e[1]), Text(e[2]))
           /\ \A e \in merged : e[1] \in g /\ e[2] \in g =>
                AtLeast(Jaccard(Text(e[1]), Text(e[2])), WeakestLink(g))
  <1> DEFINE S == {e \in merged : e[1] \in g /\ e[2] \in g}
             J(e) == Jaccard(Text(e[1]), Text(e[2]))
             weaker(d, e) == J(d)[1] * J(e)[2] < J(e)[1] * J(d)[2]
             L == {d \in S \X S : weaker(d[1], d[2])}
  <1>1. \A e \in S : J(e)[1] \in Nat /\ J(e)[2] \in Nat \ {0}
    BY SimilarityType
  <1>2. \A d, e \in S : <<d, e>> \in L <=> weaker(d, e)
    OBVIOUS
  <1>3. IsFiniteSet(S) /\ S # {}
    <2>1. IsFiniteSet(Members \X Members)
      BY WindowFacts, FS_Product
    <2>2. S \in SUBSET (Members \X Members)
      BY DEF Pairs
    <2> QED BY <2>1, <2>2, FS_Subset
  <1>4. Inside(g) = {J(e) : e \in S}
    BY DEF Inside
  <1> HIDE DEF S, J, L
  <1>5. \A e \in S : <<e, e>> \notin L
    BY <1>1, <1>2
  <1>6. ASSUME NEW d \in S, NEW e \in S, NEW f \in S, weaker(d, e), weaker(e, f)
        PROVE  weaker(d, f)
    <2>1. /\ J(d)[1] \in Nat /\ J(e)[1] \in Nat /\ J(f)[1] \in Nat
          /\ J(d)[2] \in Nat \ {0} /\ J(e)[2] \in Nat \ {0} /\ J(f)[2] \in Nat \ {0}
      BY <1>1
    <2>2. /\ J(d)[1] * J(e)[2] < J(e)[1] * J(d)[2]
          /\ J(e)[1] * J(f)[2] < J(f)[1] * J(e)[2]
      BY <1>6
    <2> HIDE DEF weaker
    <2>3. J(d)[1] * J(f)[2] < J(f)[1] * J(d)[2]
      BY <2>1, <2>2, CrossProducts
    <2> QED BY <2>3 DEF weaker
  <1> HIDE DEF weaker
  <1>7. PICK e \in S : \A f \in S : <<f, e>> \notin L
    BY <1>2, <1>3, <1>5, <1>6, FirstElement
  <1>8. \A f \in S : AtLeast(J(f), J(e))
    <2> TAKE f \in S
    <2>1. ~weaker(f, e)
      BY <1>2, <1>7
    <2>2. /\ J(f)[1] * J(e)[2] \in Nat /\ J(e)[1] * J(f)[2] \in Nat
      BY <1>1, <1>7
    <2> QED BY <2>1, <2>2 DEF weaker, AtLeast
  <1>9. \E x \in Inside(g) : \A y \in Inside(g) : AtLeast(y, x)
    BY <1>4, <1>7, <1>8
  <1>10. WeakestLink(g) \in Inside(g) /\ \A y \in Inside(g) : AtLeast(y, WeakestLink(g))
    <2>1. Inside(g) # {}
      BY <1>9
    <2>2. WeakestLink(g) = CHOOSE x \in Inside(g) : \A y \in Inside(g) : AtLeast(y, x)
      BY <2>1 DEF WeakestLink
    <2> QED BY <1>9, <2>2
  <1> QED BY <1>4, <1>10 DEF S, J

\* A group of more than one holds a merged pair: else its members would not be
\* linked.
LEMMA LinksInside ==
    ASSUME ClusterInv, Merging, NEW g \in Groups(parent)
    PROVE  /\ \A e \in merged : e[1] \in g <=> e[2] \in g
           /\ Cardinality(g) = 1 <=> ~\E e \in merged : e[1] \in g /\ e[2] \in g
  <1>1. /\ window \in Seq(Record) /\ Forest(parent, Members) /\ merged \subseteq Pairs
        /\ \A e \in merged : Root(parent, e[1]) = Root(parent, e[2])
    BY DEF ClusterInv, TypeOK, MergeInv
  <1>2. /\ g \subseteq Members /\ g # {} /\ \A x \in g : g = Block(parent, x)
        /\ \A x, y \in Members : Block(parent, x) = Block(parent, y) <=> Root(parent, x) = Root(parent, y)
        /\ \A x \in Members : x \in Block(parent, x)
    BY <1>1, GroupsAreBlocks
  <1>3. \A e \in merged : /\ e[1] \in Members /\ e[2] \in Members
                          /\ e[1] \in Nat /\ e[2] \in Nat /\ e[1] < e[2]
    BY <1>1, WindowFacts DEF Pairs
  <1>4. \A x, y \in Members : Root(parent, x) = Root(parent, y) /\ x \in g => y \in g
    BY <1>2
  <1>5. \A e \in merged : e[1] \in g <=> e[2] \in g
    BY <1>1, <1>3, <1>4
  <1>6. IsFiniteSet(g) /\ Cardinality(g) \in Nat
    BY <1>1, <1>2, WindowFacts, FS_Subset, FS_CardinalityType
  <1>7. ASSUME Cardinality(g) = 1, NEW e \in merged, e[1] \in g, e[2] \in g PROVE FALSE
    <2>1. PICK x : g = {x}
      BY <1>6, <1>7, FS_Singleton
    <2> QED BY <1>3, <1>7, <2>1
  <1>8. ASSUME Cardinality(g) # 1 PROVE \E e \in merged : e[1] \in g /\ e[2] \in g
    <2>1. PICK x \in g : TRUE
      BY <1>2
    <2>2. g # {x}
      BY <1>8, FS_Singleton
    <2>3. PICK y \in g : y # x
      BY <2>1, <2>2
    <2>4. x \in Members /\ y \in Members /\ Root(parent, x) = Root(parent, y)
      BY <1>2, <2>1, <2>3
    <2>5. <<x, y>> \in Linked(merged)
      BY <2>4 DEF ClusterInv, GroupsAreLinked
    <2>6. {x} \in SUBSET Members /\ x \in {x} /\ y \notin {x}
      BY <2>3, <2>4
    <2>7. ~\A f \in merged : f[1] \in {x} <=> f[2] \in {x}
      BY <2>5, <2>6 DEF Linked
    <2> QED BY <1>5, <2>1, <2>7
  <1> QED BY <1>5, <1>7, <1>8

\* min_link_jaccard is the weakest link that built the cluster.
THEOREM WeakestLinkBuiltIt == Spec => []WeakestBuiltIt
  <1>1. ASSUME ClusterInv, pc = "done", NEW k \in DOMAIN clusters
        PROVE  LET c == clusters[k]
                   strong == {e \in merged : AtLeast(Jaccard(Text(e[1]), Text(e[2])), c.weakest)}
               IN  IF Cardinality(c.members) = 1 THEN c.weakest = NoLink
                   ELSE /\ AtLeast(c.weakest, threshold)
                        /\ c.members \X c.members \subseteq Linked(strong)
    <2> DEFINE g == clusters[k].members
               w == clusters[k].weakest
               strong == {e \in merged : AtLeast(Jaccard(Text(e[1]), Text(e[2])), w)}
    <2>1. /\ window \in Seq(Record) /\ scores \in [Ids -> Nat] /\ Merging
          /\ Forest(parent, Members) /\ clusters = Labelled
          /\ merged \subseteq Pairs /\ merged \subseteq Chosen
      BY <1>1 DEF ClusterInv, TypeOK, Phases, MergeInv, Merging
    <2>2. g \in Groups(parent) /\ w = WeakestLink(g)
      BY <2>1, LabelledGroups
    <2> HIDE DEF g, w
    <2>3. /\ \A e \in merged : e[1] \in g <=> e[2] \in g
          /\ Cardinality(g) = 1 <=> ~\E e \in merged : e[1] \in g /\ e[2] \in g
      BY <1>1, <2>1, <2>2, LinksInside
    <2>4. CASE Cardinality(g) = 1
      <3>1. Inside(g) = {}
        BY <2>3, <2>4 DEF Inside
      <3> QED BY <2>2, <2>4, <3>1 DEF WeakestLink, g, w
    <2>5. CASE Cardinality(g) # 1
      <3>1. /\ \E e \in merged : w = Jaccard(Text(e[1]), Text(e[2]))
            /\ \A e \in merged : e[1] \in g /\ e[2] \in g =>
                 AtLeast(Jaccard(Text(e[1]), Text(e[2])), w)
        <4>1. \E e \in merged : e[1] \in g /\ e[2] \in g
          BY <2>3, <2>5
        <4> QED BY <2>1, <2>2, <4>1, WeakestIsWeakest
      <3>2. AtLeast(w, threshold)
        BY <2>1, <3>1 DEF Chosen, Similar
      <3>3. ASSUME NEW x \in g, NEW y \in g PROVE <<x, y>> \in Linked(strong)
        <4>1. x \in Members /\ y \in Members /\ g \subseteq Members
          BY <2>1, <2>2, GroupsAreBlocks
        <4>2. <<x, y>> \in Linked(merged)
          <5>1. Root(parent, x) = Root(parent, y)
            BY <2>1, <2>2, <4>1, GroupsAreBlocks
          <5> QED BY <1>1, <2>1, <4>1, <5>1 DEF ClusterInv, GroupsAreLinked
        <4>3. ASSUME NEW S \in SUBSET Members, \A f \in strong : f[1] \in S <=> f[2] \in S
              PROVE  x \in S <=> y \in S
          <5> DEFINE T == S \cap g
          <5>1. T \in SUBSET Members /\ \A f \in merged : f[1] \in T <=> f[2] \in T
            BY <2>3, <3>1, <4>3
          <5>2. x \in T <=> y \in T
            <6> HIDE DEF T
            <6> QED BY <4>2, <5>1 DEF Linked
          <5> QED BY <3>3, <5>2
        <4> QED BY <4>1, <4>3 DEF Linked
      <3> QED BY <2>5, <3>2, <3>3 DEF g, w
    <2> QED BY <2>4, <2>5
  <1>2. ClusterInv => WeakestBuiltIt
    BY <1>1 DEF WeakestBuiltIt
  <1> QED BY <1>2, ClusterInvAlways, PTL
=============================================================================
