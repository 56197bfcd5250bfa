--------------------------- MODULE PlvMirrorProofs ---------------------------
(***************************************************************************)
(* Lemmas about PlvMirror.                                                 *)
(***************************************************************************)
EXTENDS PlvMirror, PlvStoreProofs

-----------------------------------------------------------------------------
(* Induction.  The library's induction theorems take an operator; stated   *)
(* of a set of numbers, the principle can be cited.                        *)

LEMMA NatSetInduction ==
  ASSUME NEW T, 0 \in T, \A n \in Nat : n \in T => n + 1 \in T
  PROVE  Nat \subseteq T
<1> DEFINE D == {0 .. m : m \in Nat \ T}
           R == StrictSubsetOrdering(Nat)
<1> SUFFICES ASSUME NEW c \in Nat, c \notin T PROVE FALSE
  OBVIOUS
<1>1. D \subseteq FiniteSubsetsOf(Nat) /\ D # {}
  <2>1. ASSUME NEW m \in Nat PROVE 0 .. m \in SUBSET Nat /\ IsFiniteSet(0 .. m)
    BY FS_Interval
  <2>2. D \subseteq FiniteSubsetsOf(Nat)
    BY <2>1 DEF FiniteSubsetsOf
  <2>3. 0 .. c \in D
    OBVIOUS
  <2> QED  BY <2>2, <2>3
<1>2. IsWellFoundedOn(R, FiniteSubsetsOf(Nat))
  BY FS_StrictSubsetOrderingWellFounded
<1>3. PICK d \in D : \A e \in D : ~(<<e, d>> \in R)
  <2> HIDE DEF D, R
  <2> QED  BY <1>1, <1>2, WFMin
<1>4. PICK m \in Nat \ T : d = 0 .. m
  OBVIOUS
<1>5. m # 0 /\ m - 1 \in Nat /\ m - 1 \notin T
  <2>1. m # 0
    OBVIOUS
  <2>2. m - 1 \in Nat /\ (m - 1) + 1 = m
    BY <2>1
  <2> QED  BY <2>1, <2>2
<1>6. 0 .. (m - 1) \in D
  BY <1>5
<1>7. 0 .. (m - 1) \subseteq d /\ m \in d /\ m \notin 0 .. (m - 1)
  BY <1>4, <1>5
<1>8. <<0 .. (m - 1), d>> \in R
  <2>1. 0 .. (m - 1) \in SUBSET Nat /\ d \in SUBSET Nat
    BY <1>4, <1>5
  <2> QED  BY <1>7, <2>1 DEF StrictSubsetOrdering
<1> QED  BY <1>3, <1>6, <1>8

\* The last element of a set of positions, as the folds choose it.
LEMMA LastIsMax ==
  ASSUME NEW n \in Nat, NEW S \in SUBSET (1 .. n), S # {}
  PROVE  /\ Max(S) \in S
         /\ \A x \in S : x <= Max(S)
<1>1. \E x \in S : \A y \in S : y <= x
  BY LastExists
<1> QED  BY <1>1 DEF Max

\* g has the partial results of folding step over the positions 1 .. n.
PartialFolds(g, X, base, n, step) ==
  /\ g \in [SUBSET (1 .. n) -> X]
  /\ \A S \in SUBSET (1 .. n) :
       g[S] = IF S = {} THEN base ELSE step[<<g[S \ {Max(S)}], Max(S)>>]

\* A table of all partial results of a fold exists.
LEMMA FoldTable ==
  ASSUME NEW X, NEW base \in X, NEW n \in Nat,
         NEW step \in [X \X (1 .. n) -> X]
  PROVE  \E g : PartialFolds(g, X, base, n, step)
<1> DEFINE Good(m, g) == /\ g \in [SUBSET (1 .. m) -> X]
                         /\ \A S \in SUBSET (1 .. m) :
                              g[S] = IF S = {} THEN base
                                     ELSE step[<<g[S \ {Max(S)}], Max(S)>>]
           T == {m \in Nat : m <= n => \E g : Good(m, g)}
<1>1. 0 \in T
  <2> DEFINE g == [S \in SUBSET (1 .. 0) |-> base]
  <2>1. \A S \in SUBSET (1 .. 0) : S = {}
    OBVIOUS
  <2>2. Good(0, g)
    BY <2>1
  <2> QED  BY <2>2
<1>2. ASSUME NEW m \in Nat, m \in T, m + 1 <= n PROVE \E g : Good(m + 1, g)
  <2>1. PICK g : Good(m, g)
    <3>1. m <= n
      BY <1>2
    <3> HIDE DEF Good
    <3> QED  BY <1>2, <3>1
  <2> DEFINE h == [S \in SUBSET (1 .. m + 1) |->
                     IF m + 1 \in S THEN step[<<g[S \ {m + 1}], m + 1>>] ELSE g[S]]
  <2>2. ASSUME NEW S \in SUBSET (1 .. m + 1)
        PROVE  /\ S \ {m + 1} \in SUBSET (1 .. m)
               /\ m + 1 \notin S => S \in SUBSET (1 .. m)
    <3>1. 1 .. m + 1 = (1 .. m) \cup {m + 1}
      OBVIOUS
    <3> QED  BY <3>1
  <2>3. h \in [SUBSET (1 .. m + 1) -> X]
    <3>1. ASSUME NEW S \in SUBSET (1 .. m + 1) PROVE h[S] \in X
      <4>1. m + 1 \in 1 .. n
        BY <1>2
      <4> QED  BY <2>1, <2>2, <4>1
    <3> QED  BY <3>1
  <2>4. ASSUME NEW S \in SUBSET (1 .. m + 1)
        PROVE  h[S] = IF S = {} THEN base ELSE step[<<h[S \ {Max(S)}], Max(S)>>]
    <3>1. CASE m + 1 \in S
      <4>1. Max(S) = m + 1
        <5>1. Max(S) \in S /\ m + 1 <= Max(S)
          <6>1. m + 1 \in Nat /\ S # {}
            BY <3>1
          <6> QED  BY <3>1, <6>1, LastIsMax
        <5>2. Max(S) \in 1 .. m + 1
          BY <5>1
        <5> QED  BY <5>1, <5>2
      <4>2. S \ {m + 1} \in SUBSET (1 .. m + 1)
        OBVIOUS
      <4>3. h[S \ {m + 1}] = g[S \ {m + 1}]
        BY <4>2
      <4>4. h[S] = step[<<g[S \ {m + 1}], m + 1>>]
        BY <3>1
      <4> QED  BY <3>1, <4>1, <4>3, <4>4
    <3>2. CASE m + 1 \notin S /\ S # {}
      <4>1. S \in SUBSET (1 .. m)
        BY <2>2, <3>2
      <4>2. h[S] = g[S]
        BY <3>2
      <4>3. g[S] = step[<<g[S \ {Max(S)}], Max(S)>>]
        BY <2>1, <3>2, <4>1
      <4>4. S \ {Max(S)} \in SUBSET (1 .. m + 1) /\ m + 1 \notin S \ {Max(S)}
        BY <3>2
      <4>5. h[S \ {Max(S)}] = g[S \ {Max(S)}]
        BY <4>4
      <4> QED  BY <3>2, <4>2, <4>3, <4>5
    <3>3. CASE S = {}
      <4>1. g[S] = base
        <5>1. S \in SUBSET (1 .. m)
          BY <3>3
        <5> QED  BY <2>1, <3>3, <5>1
      <4> QED  BY <3>3, <4>1
    <3> QED  BY <3>1, <3>2, <3>3
  <2> HIDE DEF h
  <2>5. Good(m + 1, h)
    BY <2>3, <2>4
  <2> QED  BY <2>5
<1>3. \A m \in Nat : m \in T => m + 1 \in T
  <2> SUFFICES ASSUME NEW m \in Nat, m \in T PROVE m + 1 \in T
    OBVIOUS
  <2>1. m + 1 <= n => \E g : Good(m + 1, g)
    BY <1>2
  <2> HIDE DEF Good
  <2> QED  BY <2>1
<1>4. n \in T
  <2> HIDE DEF T
  <2> QED  BY <1>1, <1>3, NatSetInduction
<1>5. \E g : Good(n, g)
  <2> HIDE DEF Good
  <2> QED  BY <1>4
<1> QED  BY <1>5 DEF PartialFolds

\* The folds take the prefixes of the positions, one position at a time.
LEMMA PrefixOfPositions ==
  ASSUME NEW n \in Nat, NEW m \in 1 .. n
  PROVE  /\ 1 .. m \in SUBSET (1 .. n) /\ 1 .. m # {}
         /\ Max(1 .. m) = m
         /\ (1 .. m) \ {m} = 1 .. (m - 1)
<1>1. 1 .. m \in SUBSET (1 .. n) /\ m \in 1 .. m
  OBVIOUS
<1>2. Max(1 .. m) \in 1 .. m /\ m <= Max(1 .. m)
  BY <1>1, LastIsMax
<1>3. Max(1 .. m) = m
  BY <1>2
<1>4. (1 .. m) \ {m} = 1 .. (m - 1)
  OBVIOUS
<1>5. 1 .. m # {}
  BY <1>1
<1> QED  BY <1>1, <1>3, <1>4, <1>5, Zenon

\* What holds at first and over each position holds of all prefixes.
LEMMA PrefixInduction ==
  ASSUME NEW X, NEW n \in Nat, NEW run, run[0] \in X,
         \A m \in 1 .. n : run[m - 1] \in X => run[m] \in X
  PROVE  \A m \in 0 .. n : run[m] \in X
<1> DEFINE T == {m \in Nat : m <= n => run[m] \in X}
<1>1. 0 \in T
  OBVIOUS
<1>2. ASSUME NEW m \in Nat, m \in T PROVE m + 1 \in T
  <2>1. CASE m + 1 <= n
    <3>1. m + 1 \in 1 .. n /\ (m + 1) - 1 = m /\ m <= n
      BY <2>1
    <3>2. run[m] \in X
      BY <1>2, <3>1
    <3> QED  BY <3>1, <3>2
  <2>2. CASE ~(m + 1 <= n)
    BY <2>2
  <2> QED  BY <2>1, <2>2
<1>3. Nat \subseteq T
  <2> HIDE DEF T
  <2> QED  BY <1>1, <1>2, NatSetInduction
<1> QED  BY <1>3

LEMMA PositionInduction ==
  ASSUME NEW T, NEW n \in Nat, 0 \in T, \A m \in 1 .. n : m - 1 \in T => m \in T
  PROVE  \A m \in 0 .. n : m \in T
<1> DEFINE run == [m \in 0 .. n |-> m]
<1>1. \A m \in 0 .. n : run[m] = m
  OBVIOUS
<1>2. run[0] \in T /\ \A m \in 1 .. n : run[m - 1] \in T => run[m] \in T
  BY <1>1
<1> HIDE DEF run
<1>3. \A m \in 0 .. n : run[m] \in T
  BY <1>2, PrefixInduction
<1> QED  BY <1>1, <1>3

Ingesting(X, base, rows, n) ==
  \E run \in [0 .. n -> X] :
    /\ run[0] = base
    /\ \A m \in 1 .. n : run[m] = IngestOne(run[m - 1], rows[m])
    /\ run[n] = FoldLeft(IngestOne, base, rows)

\* IngestSnapshots goes through its rows one by one, ...
LEMMA IngestRun ==
  ASSUME NEW X, NEW base \in X, NEW rows, NEW n \in Nat, DOMAIN rows = 1 .. n,
         \A x \in X : \A m \in 1 .. n : IngestOne(x, rows[m]) \in X
  PROVE  Ingesting(X, base, rows, n)
<1> DEFINE D == 1 .. n
           Eq(g) == g = [S \in SUBSET D |->
                           IF S = {} THEN base
                           ELSE IngestOne(g[S \ {Max(S)}], rows[Max(S)])]
           iter == CHOOSE g : Eq(g)
           step == [x \in X \X D |-> IngestOne(x[1], rows[x[2]])]
           run == [m \in 0 .. n |-> iter[1 .. m]]
<1>1. step \in [X \X D -> X]
  OBVIOUS
<1>2. PICK g : PartialFolds(g, X, base, n, step)
  <2> HIDE DEF step
  <2> QED  BY <1>1, FoldTable
<1>3. Eq(g)
  <2>1. /\ g \in [SUBSET D -> X]
        /\ \A S \in SUBSET D :
             g[S] = IF S = {} THEN base ELSE step[<<g[S \ {Max(S)}], Max(S)>>]
    <3> HIDE DEF step
    <3> QED  BY <1>2 DEF PartialFolds
  <2>2. ASSUME NEW S \in SUBSET D
        PROVE  g[S] = IF S = {} THEN base
                      ELSE IngestOne(g[S \ {Max(S)}], rows[Max(S)])
    <3>1. CASE S = {}
      BY <2>1, <3>1
    <3>2. CASE S # {}
      <4>1. Max(S) \in D /\ S \ {Max(S)} \in SUBSET D
        BY <3>2, LastIsMax
      <4>2. <<g[S \ {Max(S)}], Max(S)>> \in X \X D
        BY <2>1, <4>1
      <4>3. g[S] = step[<<g[S \ {Max(S)}], Max(S)>>]
        BY <2>1, <3>2
      <4> QED  BY <3>2, <4>2, <4>3
    <3> QED  BY <3>1, <3>2
  <2> QED  BY <2>1, <2>2
<1>4. Eq(iter)
  BY <1>3
<1>5. FoldLeft(IngestOne, base, rows) = iter[D]
  BY DEF FoldLeft, MapThenFoldSet
<1>6. \A S \in SUBSET D :
        iter[S] = IF S = {} THEN base
                  ELSE IngestOne(iter[S \ {Max(S)}], rows[Max(S)])
  <2> HIDE DEF iter
  <2> QED  BY <1>4
<1> HIDE DEF iter
<1>7. run[0] = base
  <2>1. 1 .. 0 = {} /\ {} \in SUBSET D /\ 0 \in 0 .. n
    OBVIOUS
  <2>2. iter[{}] = base
    BY <1>6, <2>1
  <2>3. run[0] = iter[1 .. 0]
    BY <2>1
  <2> HIDE DEF run
  <2> QED  BY <2>1, <2>2, <2>3
<1>8. ASSUME NEW m \in 1 .. n PROVE run[m] = IngestOne(run[m - 1], rows[m])
  <2>1. iter[1 .. m] = IngestOne(iter[1 .. (m - 1)], rows[m])
    <3>1. /\ 1 .. m \in SUBSET D /\ 1 .. m # {}
          /\ Max(1 .. m) = m /\ (1 .. m) \ {m} = 1 .. (m - 1)
      BY PrefixOfPositions
    <3> HIDE DEF D
    <3> QED  BY <1>6, <3>1
  <2> QED  BY <2>1
<1>9. \A m \in 0 .. n : run[m] \in X
  <2> HIDE DEF run
  <2> QED  BY <1>7, <1>8, PrefixInduction
<1>10. run \in [0 .. n -> X] /\ run[n] = iter[D]
  BY <1>9
<1> HIDE DEF run
<1> QED  BY <1>5, <1>7, <1>8, <1>10 DEF Ingesting

Loading(X, base, rows, n) ==
  \E run \in [0 .. n -> X] :
    /\ run[0] = base
    /\ \A m \in 1 .. n : run[m] = LoadRow(run[m - 1], rows[m])
    /\ run[n] = FoldLeft(LoadRow, base, rows)

\* ... so does LoadFromDB ...
LEMMA LoadRun ==
  ASSUME NEW X, NEW base \in X, NEW rows, NEW n \in Nat, DOMAIN rows = 1 .. n,
         \A x \in X : \A m \in 1 .. n : LoadRow(x, rows[m]) \in X
  PROVE  Loading(X, base, rows, n)
<1> DEFINE D == 1 .. n
           Eq(g) == g = [S \in SUBSET D |->
                           IF S = {} THEN base
                           ELSE LoadRow(g[S \ {Max(S)}], rows[Max(S)])]
           iter == CHOOSE g : Eq(g)
           step == [x \in X \X D |-> LoadRow(x[1], rows[x[2]])]
           run == [m \in 0 .. n |-> iter[1 .. m]]
<1>1. step \in [X \X D -> X]
  OBVIOUS
<1>2. PICK g : PartialFolds(g, X, base, n, step)
  <2> HIDE DEF step
  <2> QED  BY <1>1, FoldTable
<1>3. Eq(g)
  <2>1. /\ g \in [SUBSET D -> X]
        /\ \A S \in SUBSET D :
             g[S] = IF S = {} THEN base ELSE step[<<g[S \ {Max(S)}], Max(S)>>]
    <3> HIDE DEF step
    <3> QED  BY <1>2 DEF PartialFolds
  <2>2. ASSUME NEW S \in SUBSET D
        PROVE  g[S] = IF S = {} THEN base
                      ELSE LoadRow(g[S \ {Max(S)}], rows[Max(S)])
    <3>1. CASE S = {}
      BY <2>1, <3>1
    <3>2. CASE S # {}
      <4>1. Max(S) \in D /\ S \ {Max(S)} \in SUBSET D
        BY <3>2, LastIsMax
      <4>2. <<g[S \ {Max(S)}], Max(S)>> \in X \X D
        BY <2>1, <4>1
      <4>3. g[S] = step[<<g[S \ {Max(S)}], Max(S)>>]
        BY <2>1, <3>2
      <4> QED  BY <3>2, <4>2, <4>3
    <3> QED  BY <3>1, <3>2
  <2> QED  BY <2>1, <2>2
<1>4. Eq(iter)
  BY <1>3
<1>5. FoldLeft(LoadRow, base, rows) = iter[D]
  BY DEF FoldLeft, MapThenFoldSet
<1>6. \A S \in SUBSET D :
        iter[S] = IF S = {} THEN base
                  ELSE LoadRow(iter[S \ {Max(S)}], rows[Max(S)])
  <2> HIDE DEF iter
  <2> QED  BY <1>4
<1> HIDE DEF iter
<1>7. run[0] = base
  <2>1. 1 .. 0 = {} /\ {} \in SUBSET D /\ 0 \in 0 .. n
    OBVIOUS
  <2>2. iter[{}] = base
    BY <1>6, <2>1
  <2>3. run[0] = iter[1 .. 0]
    BY <2>1
  <2> HIDE DEF run
  <2> QED  BY <2>1, <2>2, <2>3
<1>8. ASSUME NEW m \in 1 .. n PROVE run[m] = LoadRow(run[m - 1], rows[m])
  <2>1. iter[1 .. m] = LoadRow(iter[1 .. (m - 1)], rows[m])
    <3>1. /\ 1 .. m \in SUBSET D /\ 1 .. m # {}
          /\ Max(1 .. m) = m /\ (1 .. m) \ {m} = 1 .. (m - 1)
      BY PrefixOfPositions
    <3> HIDE DEF D
    <3> QED  BY <1>6, <3>1
  <2> QED  BY <2>1
<1>9. \A m \in 0 .. n : run[m] \in X
  <2> HIDE DEF run
  <2> QED  BY <1>7, <1>8, PrefixInduction
<1>10. run \in [0 .. n -> X] /\ run[n] = iter[D]
  BY <1>9
<1> HIDE DEF run
<1> QED  BY <1>5, <1>7, <1>8, <1>10 DEF Loading

Upserting(X, base, rows, n) ==
  \E run \in [0 .. n -> X] :
    /\ run[0] = base
    /\ \A m \in 1 .. n : run[m] = Upsert(run[m - 1], rows[m])
    /\ run[n] = FoldLeft(Upsert, base, rows)

\* ... and so does UpsertRecords.
LEMMA UpsertRun ==
  ASSUME NEW X, NEW base \in X, NEW rows, NEW n \in Nat, DOMAIN rows = 1 .. n,
         \A x \in X : \A m \in 1 .. n : Upsert(x, rows[m]) \in X
  PROVE  Upserting(X, base, rows, n)
<1> DEFINE D == 1 .. n
           Eq(g) == g = [S \in SUBSET D |->
                           IF S = {} THEN base
                           ELSE Upsert(g[S \ {Max(S)}], rows[Max(S)])]
           iter == CHOOSE g : Eq(g)
           step == [x \in X \X D |-> Upsert(x[1], rows[x[2]])]
           run == [m \in 0 .. n |-> iter[1 .. m]]
<1>1. step \in [X \X D -> X]
  OBVIOUS
<1>2. PICK g : PartialFolds(g, X, base, n, step)
  <2> HIDE DEF step
  <2> QED  BY <1>1, FoldTable
<1>3. Eq(g)
  <2>1. /\ g \in [SUBSET D -> X]
        /\ \A S \in SUBSET D :
             g[S] = IF S = {} THEN base ELSE step[<<g[S \ {Max(S)}], Max(S)>>]
    <3> HIDE DEF step
    <3> QED  BY <1>2 DEF PartialFolds
  <2>2. ASSUME NEW S \in SUBSET D
        PROVE  g[S] = IF S = {} THEN base
                      ELSE Upsert(g[S \ {Max(S)}], rows[Max(S)])
    <3>1. CASE S = {}
      BY <2>1, <3>1
    <3>2. CASE S # {}
      <4>1. Max(S) \in D /\ S \ {Max(S)} \in SUBSET D
        BY <3>2, LastIsMax
      <4>2. <<g[S \ {Max(S)}], Max(S)>> \in X \X D
        BY <2>1, <4>1
      <4>3. g[S] = step[<<g[S \ {Max(S)}], Max(S)>>]
        BY <2>1, <3>2
      <4> QED  BY <3>2, <4>2, <4>3
    <3> QED  BY <3>1, <3>2
  <2> QED  BY <2>1, <2>2
<1>4. Eq(iter)
  BY <1>3
<1>5. FoldLeft(Upsert, base, rows) = iter[D]
  BY DEF FoldLeft, MapThenFoldSet
<1>6. \A S \in SUBSET D :
        iter[S] = IF S = {} THEN base
                  ELSE Upsert(iter[S \ {Max(S)}], rows[Max(S)])
  <2> HIDE DEF iter
  <2> QED  BY <1>4
<1> HIDE DEF iter
<1>7. run[0] = base
  <2>1. 1 .. 0 = {} /\ {} \in SUBSET D /\ 0 \in 0 .. n
    OBVIOUS
  <2>2. iter[{}] = base
    BY <1>6, <2>1
  <2>3. run[0] = iter[1 .. 0]
    BY <2>1
  <2> HIDE DEF run
  <2> QED  BY <2>1, <2>2, <2>3
<1>8. ASSUME NEW m \in 1 .. n PROVE run[m] = Upsert(run[m - 1], rows[m])
  <2>1. iter[1 .. m] = Upsert(iter[1 .. (m - 1)], rows[m])
    <3>1. /\ 1 .. m \in SUBSET D /\ 1 .. m # {}
          /\ Max(1 .. m) = m /\ (1 .. m) \ {m} = 1 .. (m - 1)
      BY PrefixOfPositions
    <3> HIDE DEF D
    <3> QED  BY <1>6, <3>1
  <2> QED  BY <2>1
<1>9. \A m \in 0 .. n : run[m] \in X
  <2> HIDE DEF run
  <2> QED  BY <1>7, <1>8, PrefixInduction
<1>10. run \in [0 .. n -> X] /\ run[n] = iter[D]
  BY <1>9
<1> HIDE DEF run
<1> QED  BY <1>5, <1>7, <1>8, <1>10 DEF Upserting

\* u is t after the n rows were upserted in their order.
Upserted(t, rows, n, u) ==
  \A k \in Key :
    \/ u[k] = t[k] /\ \A m \in 1 .. n : RecKey(rows[m]) # k
    \/ \E m \in 1 .. n : /\ RecKey(rows[m]) = k /\ u[k] = rows[m]
                         /\ \A l \in (m + 1) .. n : RecKey(rows[l]) # k

LEMMA UpsertEffect ==
  ASSUME NEW t \in [Key -> Record \cup {NoRow}], NEW rows, NEW n \in Nat,
         DOMAIN rows = 1 .. n, \A m \in 1 .. n : rows[m] \in Record
  PROVE  Upserted(t, rows, n, FoldLeft(Upsert, t, rows))
<1> DEFINE X == [Key -> Record \cup {NoRow}]
<1>1. ASSUME NEW x \in X, NEW m \in 1 .. n
      PROVE  Upsert(x, rows[m]) = [x EXCEPT ![RecKey(rows[m])] = rows[m]]
             /\ RecKey(rows[m]) \in Key
  <2>1. rows[m] \in Record
    OBVIOUS
  <2> QED  BY <2>1 DEF Upsert, RecKey, Record, Key
<1>2. ASSUME NEW x \in X, NEW m \in 1 .. n PROVE Upsert(x, rows[m]) \in X
  BY <1>1
<1>3. Upserting(X, t, rows, n)
  <2> HIDE DEF X
  <2> QED  BY <1>2, UpsertRun DEF X
<1>4. PICK run \in [0 .. n -> X] :
        /\ run[0] = t
        /\ \A m \in 1 .. n : run[m] = Upsert(run[m - 1], rows[m])
        /\ run[n] = FoldLeft(Upsert, t, rows)
  BY <1>3 DEF Upserting
<1> DEFINE T == {m \in 0 .. n : Upserted(t, rows, m, run[m])}
<1>5. 0 \in T
  BY <1>4 DEF Upserted
<1>6. ASSUME NEW m \in 1 .. n, m - 1 \in T PROVE m \in T
  <2> DEFINE h == RecKey(rows[m])
  <2>1. run[m - 1] \in X /\ m - 1 \in 0 .. n /\ (m - 1) + 1 = m
    OBVIOUS
  <2>2. run[m] = [run[m - 1] EXCEPT ![h] = rows[m]] /\ h \in Key
    BY <1>1, <1>4, <2>1
  <2>3. ASSUME NEW k \in Key
        PROVE  \/ run[m][k] = t[k] /\ \A l \in 1 .. m : RecKey(rows[l]) # k
               \/ \E l \in 1 .. m : /\ RecKey(rows[l]) = k /\ run[m][k] = rows[l]
                                    /\ \A j \in (l + 1) .. m : RecKey(rows[j]) # k
    <3>1. CASE k = h
      <4>1. run[m][k] = rows[m] /\ m \in 1 .. m /\ (m + 1) .. m = {}
        BY <2>1, <2>2, <3>1
      <4> QED  BY <3>1, <4>1
    <3>2. CASE k # h
      <4>1. run[m][k] = run[m - 1][k]
        BY <2>1, <2>2, <3>2
      <4>2. CASE run[m - 1][k] = t[k] /\ \A l \in 1 .. (m - 1) : RecKey(rows[l]) # k
        <5>1. \A l \in 1 .. m : l = m \/ l \in 1 .. (m - 1)
          OBVIOUS
        <5> QED  BY <3>2, <4>1, <4>2, <5>1
      <4>3. CASE \E l \in 1 .. (m - 1) :
                   /\ RecKey(rows[l]) = k /\ run[m - 1][k] = rows[l]
                   /\ \A j \in (l + 1) .. (m - 1) : RecKey(rows[j]) # k
        <5>1. PICK l \in 1 .. (m - 1) :
                   /\ RecKey(rows[l]) = k /\ run[m - 1][k] = rows[l]
                   /\ \A j \in (l + 1) .. (m - 1) : RecKey(rows[j]) # k
          BY <4>3
        <5>2. /\ l \in 1 .. m
              /\ \A j \in (l + 1) .. m : j = m \/ j \in (l + 1) .. (m - 1)
          OBVIOUS
        <5> QED  BY <3>2, <4>1, <5>1, <5>2
      <4> QED  BY <1>6, <4>2, <4>3 DEF Upserted
    <3> QED  BY <3>1, <3>2
  <2> QED  BY <2>3 DEF Upserted
<1>7. \A m \in 0 .. n : m \in T
  <2> HIDE DEF T
  <2> QED  BY <1>5, <1>6, PositionInduction
<1> QED  BY <1>4, <1>7

-----------------------------------------------------------------------------
(* Stores made of finished rows.                                           *)

\* A row that a store can have made of one message.
Clean(r) ==
  /\ r \in Record
  /\ r.dqid \in {NoQid, Leg[r.qid]}
  /\ \A l \in r.lines : l.q \in {r.qid, Leg[r.qid]}

\* Row i of a store built of finished rows from origin o.
RowFinished(s, o, i) ==
  LET r == s.recs[i]
  IN  Clean(r) /\ r.origin = o /\ ~r.subsumed /\ s.byQ[RecKey(r)] = i

\* Queue id q: the row its key may lead to.
KeyFinished(s, o, q) ==
  LET i == s.byQ[<<o, q>>]
  IN  i # 0 => q \in {s.recs[i].qid, Leg[s.recs[i].qid]}

Finished(s, o) ==
  /\ Sound(s)
  /\ \A i \in 1 .. Len(s.recs) : RowFinished(s, o, i)
  /\ \A q \in QIDs : KeyFinished(s, o, q)

LEMMA EmptyStoreFinished ==
  ASSUME NEW o \in Origins
  PROVE  Finished(EmptyStore, o)
<1>1. EmptyStore.recs = <<>> /\ <<>> \in Seq(Record) /\ Len(<<>>) = 0
  BY EmptySeq DEF EmptyStore
<1>2. Sound(EmptyStore)
  BY <1>1 DEF Sound, Store, EmptyStore
<1>3. \A q \in QIDs : EmptyStore.byQ[<<o, q>>] = 0
  BY DEF EmptyStore, Key
<1> QED  BY <1>1, <1>2, <1>3 DEF Finished, KeyFinished

\* The indexes of t are those of s with the onward id of row i resolved.
Relinked(s, o, i, t) ==
  \/ t.byQ = s.byQ /\ t.byD = s.byD /\ s.recs[i].dqid = NoQid
  \/ \E d \in Key :
       /\ s.recs[i].dqid = Leg[s.recs[i].qid] /\ s.recs[i].dqid \in QIDs
       /\ d = <<o, s.recs[i].dqid>>
       /\ t.byD = [s.byD EXCEPT ![d] = i]
       /\ t.byQ = [s.byQ EXCEPT ![d] = IF s.byQ[d] = 0 THEN i ELSE s.byQ[d]]

\* What changes when the onward id of row i is made to resolve.
LEMMA RestoreDeliveryLinkEffect ==
  ASSUME NEW s, NEW o \in Origins, Finished(s, o), NEW i \in 1 .. Len(s.recs),
         NEW t, t = RestoreDeliveryLink(s, i)
  PROVE  /\ Sound(t) /\ t.recs = s.recs
         /\ Relinked(s, o, i, t)
<1>1. /\ s = [recs |-> s.recs, byQ |-> s.byQ, byD |-> s.byD]
      /\ s.recs \in Seq(Record) /\ Len(s.recs) \in Nat
      /\ s.byQ \in [Key -> Nat] /\ s.byD \in [Key -> Nat]
      /\ \A k \in Key : s.byQ[k] \in 0 .. Len(s.recs)
      /\ s.recs[i] \in Record
  BY Parts DEF Finished
<1>2. Clean(s.recs[i]) /\ s.recs[i].origin = o
  BY DEF Finished, RowFinished
<1>3. CASE s.recs[i].dqid = NoQid
  BY <1>3 DEF RestoreDeliveryLink, Finished, Relinked
<1>4. CASE s.recs[i].dqid # NoQid
  <2> DEFINE d == OnwardKey(s.recs[i])
             q2 == [s.byQ EXCEPT ![d] = IF s.byQ[d] = 0 THEN i ELSE s.byQ[d]]
             d2 == [s.byD EXCEPT ![d] = i]
  <2>1. d \in Key /\ d = <<o, s.recs[i].dqid>>
    BY <1>1, <1>2, <1>4, RowsAreRecords, LegAssumption DEF OnwardKey, Record, Key
  <2>2. t = [recs |-> s.recs, byQ |-> q2, byD |-> d2]
    BY <1>1, <1>4 DEF RestoreDeliveryLink
  <2>3. s.recs[i].dqid = Leg[s.recs[i].qid] /\ s.recs[i].dqid \in QIDs
    BY <1>1, <1>2, <1>4 DEF Clean, Record
  <2> HIDE DEF d
  <2>4. q2 \in [Key -> Nat] /\ d2 \in [Key -> Nat]
    BY <1>1, <2>1
  <2>5. \A k \in Key : q2[k] <= Len(s.recs)
    BY <1>1, <2>1
  <2>6. t.recs = s.recs /\ t.byQ = q2 /\ t.byD = d2
    BY <2>2
  <2>7. Sound(t)
    <3> HIDE DEF q2, d2
    <3> QED  BY <1>1, <2>2, <2>4, <2>5, <2>6 DEF Sound, Store
  <2> QED  BY <2>1, <2>3, <2>6, <2>7 DEF Relinked
<1> QED  BY <1>3, <1>4

LEMMA RestoreDeliveryLinkFinished ==
  ASSUME NEW s, NEW o \in Origins, Finished(s, o), NEW i \in 1 .. Len(s.recs)
  PROVE  /\ Finished(RestoreDeliveryLink(s, i), o)
         /\ RestoreDeliveryLink(s, i).recs = s.recs
<1> DEFINE t == RestoreDeliveryLink(s, i)
<1>1. Sound(t) /\ t.recs = s.recs /\ Relinked(s, o, i, t)
  BY RestoreDeliveryLinkEffect
<1>2. /\ s.byQ \in [Key -> Nat] /\ Len(s.recs) \in Nat
      /\ \A j \in 1 .. Len(s.recs) : s.recs[j] \in Record /\ RowFinished(s, o, j)
      /\ \A q \in QIDs : KeyFinished(s, o, q) /\ <<o, q>> \in Key
  BY Parts DEF Finished, Key
<1> HIDE DEF t
<1>3. ASSUME t.byQ = s.byQ PROVE Finished(t, o)
  <2>1. \A j \in 1 .. Len(s.recs) : RowFinished(t, o, j)
    BY <1>1, <1>2, <1>3 DEF RowFinished
  <2>2. \A q \in QIDs : KeyFinished(t, o, q)
    BY <1>1, <1>2, <1>3 DEF KeyFinished
  <2> QED  BY <1>1, <2>1, <2>2 DEF Finished
<1>4. ASSUME NEW d \in Key, s.recs[i].dqid = Leg[s.recs[i].qid],
             s.recs[i].dqid \in QIDs, d = <<o, s.recs[i].dqid>>,
             t.byQ = [s.byQ EXCEPT ![d] = IF s.byQ[d] = 0 THEN i ELSE s.byQ[d]]
      PROVE  Finished(t, o)
  <2>1. ASSUME NEW j \in 1 .. Len(s.recs) PROVE RowFinished(t, o, j)
    <3>1. RowFinished(s, o, j) /\ RecKey(s.recs[j]) \in Key
      BY <1>2, RowsAreRecords DEF Record
    <3>2. s.byQ[RecKey(s.recs[j])] = j /\ j # 0
      BY <3>1 DEF RowFinished
    <3>3. t.byQ[RecKey(s.recs[j])] = j
      BY <1>2, <1>4, <3>1, <3>2
    <3> QED  BY <1>1, <3>1, <3>3 DEF RowFinished
  <2>2. ASSUME NEW q \in QIDs PROVE KeyFinished(t, o, q)
    <3>1. CASE <<o, q>> = d /\ s.byQ[d] = 0
      BY <1>1, <1>2, <1>4, <3>1 DEF KeyFinished
    <3>2. CASE ~(<<o, q>> = d /\ s.byQ[d] = 0)
      <4>1. t.byQ[<<o, q>>] = s.byQ[<<o, q>>]
        BY <1>2, <1>4, <3>2
      <4> QED  BY <1>1, <1>2, <4>1 DEF KeyFinished
    <3> QED  BY <3>1, <3>2
  <2> QED  BY <1>1, <2>1, <2>2 DEF Finished
<1>5. Finished(t, o)
  <2>1. \/ t.byQ = s.byQ
        \/ \E d \in Key :
             /\ s.recs[i].dqid = Leg[s.recs[i].qid] /\ s.recs[i].dqid \in QIDs
             /\ d = <<o, s.recs[i].dqid>>
             /\ t.byQ = [s.byQ EXCEPT ![d] = IF s.byQ[d] = 0 THEN i ELSE s.byQ[d]]
    BY <1>1, Zenon DEF Relinked
  <2> QED  BY <1>3, <1>4, <2>1, Zenon
<1> QED  BY <1>1, <1>5 DEF t

\* A row of an identity the store does not have yet.
LEMMA AddFinishedFinished ==
  ASSUME NEW s, NEW o \in Origins, Finished(s, o),
         NEW r, Clean(r), r.origin = o, ~r.subsumed,
         \A j \in 1 .. Len(s.recs) : RecKey(s.recs[j]) # RecKey(r)
  PROVE  /\ Finished(AddFinished(s, r), o)
         /\ AddFinished(s, r).recs = Append(s.recs, r)
         /\ \A h \in Key : AddFinished(s, r).byQ[h] # s.byQ[h] =>
              h \in {RecKey(r), <<o, r.dqid>>}
<1> DEFINE i == Len(s.recs) + 1
           k == RecKey(r)
           u == [recs |-> Append(s.recs, r), byQ |-> [s.byQ EXCEPT ![k] = i],
                 byD |-> s.byD]
<1>1. /\ s = [recs |-> s.recs, byQ |-> s.byQ, byD |-> s.byD]
      /\ s.recs \in Seq(Record) /\ Len(s.recs) \in Nat
      /\ s.byQ \in [Key -> Nat] /\ s.byD \in [Key -> Nat]
      /\ \A h \in Key : s.byQ[h] \in 0 .. Len(s.recs)
      /\ \A j \in 1 .. Len(s.recs) : s.recs[j] \in Record /\ RowFinished(s, o, j)
      /\ \A q \in QIDs : KeyFinished(s, o, q) /\ <<o, q>> \in Key
  BY Parts DEF Finished, Key
<1>2. r \in Record /\ r.qid \in QIDs /\ k \in Key /\ k = <<o, r.qid>>
  BY RowsAreRecords DEF Clean, Record, RecKey
<1>3. /\ u.recs \in Seq(Record) /\ Len(u.recs) = i /\ u.recs[i] = r
      /\ \A j \in 1 .. Len(s.recs) : u.recs[j] = s.recs[j]
  BY <1>1, <1>2, AppendProperties
<1>4. /\ u.byQ \in [Key -> Nat] /\ u.byQ[k] = i /\ i \in Nat
      /\ \A h \in Key : h # k => u.byQ[h] = s.byQ[h]
      /\ \A h \in Key : u.byQ[h] <= i
  BY <1>1, <1>2
<1>5. Sound(u)
  BY <1>1, <1>3, <1>4 DEF Sound, Store
<1>51. AddFinished(s, r) = RestoreDeliveryLink(u, i) /\ u.recs = Append(s.recs, r)
  BY DEF AddFinished
<1> HIDE DEF u, k
<1>6. RowFinished(u, o, i)
  BY <1>2, <1>3, <1>4 DEF RowFinished, k
<1>7. ASSUME NEW j \in 1 .. Len(s.recs) PROVE RowFinished(u, o, j)
  <2>1. RowFinished(s, o, j) /\ RecKey(s.recs[j]) \in Key
    BY <1>1, RowsAreRecords DEF Record
  <2>2. u.byQ[RecKey(s.recs[j])] = s.byQ[RecKey(s.recs[j])]
    BY <1>4, <2>1 DEF k
  <2> QED  BY <1>3, <2>1, <2>2 DEF RowFinished
<1>8. ASSUME NEW q \in QIDs PROVE KeyFinished(u, o, q)
  <2>1. CASE <<o, q>> = k
    <3>1. q = r.qid /\ u.byQ[<<o, q>>] = i /\ u.recs[i] = r
      BY <1>2, <1>3, <1>4, <2>1
    <3> QED  BY <3>1 DEF KeyFinished
  <2>2. CASE <<o, q>> # k
    <3>1. u.byQ[<<o, q>>] = s.byQ[<<o, q>>]
      BY <1>1, <1>4, <2>2
    <3>2. s.byQ[<<o, q>>] # 0 => s.byQ[<<o, q>>] \in 1 .. Len(s.recs)
      BY <1>1
    <3> QED  BY <1>1, <1>3, <3>1, <3>2 DEF KeyFinished
  <2> QED  BY <2>1, <2>2
<1>9. i \in 1 .. Len(u.recs) /\ \A j \in 1 .. Len(u.recs) : RowFinished(u, o, j)
  BY <1>1, <1>3, <1>6, <1>7
<1> HIDE DEF i
<1>10. Finished(u, o)
  BY <1>5, <1>8, <1>9 DEF Finished
<1>11. ASSUME NEW h \in Key, AddFinished(s, r).byQ[h] # s.byQ[h]
       PROVE  h \in {k, <<o, r.dqid>>}
  <2> DEFINE t == RestoreDeliveryLink(u, i)
  <2>1. Relinked(u, o, i, t)
    BY <1>9, <1>10, RestoreDeliveryLinkEffect
  <2>2. t.byQ[h] # s.byQ[h]
    BY <1>11, <1>51
  <2> HIDE DEF t
  <2>3. CASE t.byQ = u.byQ
    BY <1>4, <2>2, <2>3
  <2>4. CASE \E d \in Key : /\ d = <<o, u.recs[i].dqid>>
                            /\ t.byQ = [u.byQ EXCEPT ![d] =
                                          IF u.byQ[d] = 0 THEN i ELSE u.byQ[d]]
    <3>1. h # <<o, u.recs[i].dqid>> => t.byQ[h] = u.byQ[h]
      BY <1>4, <2>4
    <3>2. u.recs[i] = r
      BY <1>3
    <3> QED  BY <1>4, <2>2, <3>1, <3>2
  <2> QED  BY <2>1, <2>3, <2>4 DEF Relinked
<1> QED  BY <1>9, <1>10, <1>11, <1>51, RestoreDeliveryLinkFinished DEF k

\* Loading a row keeps the store finished.
LEMMA LoadRowFinished ==
  ASSUME NEW s, NEW o \in Origins, Finished(s, o), NEW r, Clean(r), r.origin = o
  PROVE  Finished(LoadRow(s, r), o)
<1>1. CASE r.subsumed \/ s.byQ[RecKey(r)] # 0
  BY <1>1 DEF LoadRow
<1>2. CASE ~r.subsumed /\ s.byQ[RecKey(r)] = 0
  <2>1. ASSUME NEW j \in 1 .. Len(s.recs), RecKey(s.recs[j]) = RecKey(r) PROVE FALSE
    BY <1>2, <2>1 DEF Finished, RowFinished
  <2>2. LoadRow(s, r) = AddFinished(s, r)
    BY <1>2 DEF LoadRow
  <2> QED  BY <1>2, <2>1, <2>2, AddFinishedFinished
<1> QED  BY <1>1, <1>2

\* t has row r in the place of the row of its queue id, or at the end.
RowReplaced(s, r, t) ==
  \/ \E i \in 1 .. Len(s.recs) : /\ s.recs[i].qid = r.qid
                                 /\ t.recs = [s.recs EXCEPT ![i] = r]
  \/ /\ \A j \in 1 .. Len(s.recs) : s.recs[j].qid # r.qid
     /\ t.recs = Append(s.recs, r)

\* So does a snapshot: it replaces the one row of its identity or is new.
LEMMA IngestOneFinished ==
  ASSUME NEW s, NEW o \in Origins, Finished(s, o), NEW r, Clean(r), r.origin = o
  PROVE  /\ Finished(IngestOne(s, r), o)
         /\ r.subsumed => IngestOne(s, r) = s
         /\ ~r.subsumed => RowReplaced(s, r, IngestOne(s, r))
<1> DEFINE i == s.byQ[RecKey(r)]
           own == /\ i \in DOMAIN s.recs
                  /\ RecKey(s.recs[i]) = RecKey(r)
                  /\ ~s.recs[i].subsumed
<1>1. /\ s = [recs |-> s.recs, byQ |-> s.byQ, byD |-> s.byD]
      /\ s.recs \in Seq(Record) /\ Len(s.recs) \in Nat
      /\ DOMAIN s.recs = 1 .. Len(s.recs)
      /\ s.byQ \in [Key -> Nat] /\ s.byD \in [Key -> Nat]
      /\ \A h \in Key : s.byQ[h] \in 0 .. Len(s.recs)
      /\ \A j \in 1 .. Len(s.recs) : s.recs[j] \in Record /\ RowFinished(s, o, j)
      /\ \A q \in QIDs : KeyFinished(s, o, q) /\ <<o, q>> \in Key
  BY Parts DEF Finished, Key
<1>2. r \in Record
  BY DEF Clean
<1>3. CASE r.subsumed
  BY <1>3 DEF IngestOne
<1>4. CASE ~r.subsumed /\ own
  <2> DEFINE u == [s EXCEPT !.recs[i] = r]
  <2>1. i \in 1 .. Len(s.recs) /\ s.recs[i].qid = r.qid
    BY <1>1, <1>4 DEF RecKey
  <2>2. IngestOne(s, r) = RestoreDeliveryLink(u, i)
    BY <1>4 DEF IngestOne
  <2>3. u = [recs |-> [s.recs EXCEPT ![i] = r], byQ |-> s.byQ, byD |-> s.byD]
    <3>1. s = [recs |-> s.recs, byQ |-> s.byQ, byD |-> s.byD]
      BY <1>1
    <3> HIDE DEF i
    <3> QED  BY <3>1
  <2> HIDE DEF u
  <2>4. /\ u.recs \in Seq(Record) /\ Len(u.recs) = Len(s.recs)
        /\ \A j \in 1 .. Len(s.recs) : u.recs[j] = IF j = i THEN r ELSE s.recs[j]
        /\ u.byQ = s.byQ /\ u.byD = s.byD
    <3> HIDE DEF i
    <3>1. u.recs = [s.recs EXCEPT ![i] = r] /\ u.byQ = s.byQ /\ u.byD = s.byD
      BY <2>3
    <3> QED  BY <1>1, <1>2, <2>1, <3>1, ExceptSeq
  <2>5. Sound(u)
    BY <1>1, <2>3, <2>4 DEF Sound, Store
  <2>6. ASSUME NEW j \in 1 .. Len(s.recs) PROVE RowFinished(u, o, j)
    BY <1>1, <1>4, <2>4 DEF RowFinished
  <2>7. ASSUME NEW q \in QIDs PROVE KeyFinished(u, o, q)
    <3> DEFINE h == s.byQ[<<o, q>>]
    <3>1. h # 0 => h \in 1 .. Len(s.recs)
      BY <1>1
    <3>2. h # 0 => q \in {s.recs[h].qid, Leg[s.recs[h].qid]}
      BY <1>1 DEF KeyFinished
    <3>3. u.byQ[<<o, q>>] = h
      BY <2>4
    <3> HIDE DEF h
    <3>4. h # 0 => u.recs[h].qid = s.recs[h].qid
      BY <2>1, <2>4, <3>1
    <3> QED  BY <3>2, <3>3, <3>4 DEF KeyFinished
  <2>8. Finished(u, o)
    BY <2>4, <2>5, <2>6, <2>7 DEF Finished
  <2>9. Finished(IngestOne(s, r), o) /\ IngestOne(s, r).recs = u.recs
    BY <2>1, <2>2, <2>4, <2>8, RestoreDeliveryLinkFinished
  <2>10. u.recs = [s.recs EXCEPT ![i] = r]
    BY <2>3
  <2> HIDE DEF i
  <2> QED  BY <1>4, <2>1, <2>9, <2>10 DEF RowReplaced
<1>5. CASE ~r.subsumed /\ ~own
  <2>1. ASSUME NEW j \in 1 .. Len(s.recs), RecKey(s.recs[j]) = RecKey(r) PROVE FALSE
    BY <1>1, <1>5, <2>1 DEF RowFinished
  <2>2. IngestOne(s, r) = AddFinished(s, r)
    BY <1>5 DEF IngestOne
  <2>3. Finished(IngestOne(s, r), o) /\ IngestOne(s, r).recs = Append(s.recs, r)
    BY <1>5, <2>1, <2>2, AddFinishedFinished
  <2>4. \A j \in 1 .. Len(s.recs) : s.recs[j].qid # r.qid
    BY <1>1, <2>1 DEF RowFinished, RecKey
  <2> QED  BY <1>5, <2>3, <2>4 DEF RowReplaced
<1> QED  BY <1>3, <1>4, <1>5

\* The rows of one queue id, one at most in a finished store.
OfId(s, q) == {s.recs[i] : i \in {j \in 1 .. Len(s.recs) : s.recs[j].qid = q}}

\* A snapshot is the row of its queue id afterwards, the other rows stay.
LEMMA IngestOneRow ==
  ASSUME NEW s, NEW o \in Origins, Finished(s, o), NEW r, Clean(r), r.origin = o,
         NEW q, NEW t, t = IngestOne(s, r)
  PROVE  OfId(t, q) = IF ~r.subsumed /\ r.qid = q THEN {r} ELSE OfId(s, q)
<1>1. /\ s.recs \in Seq(Record) /\ Len(s.recs) \in Nat
      /\ \A i, j \in 1 .. Len(s.recs) : s.recs[i].qid = s.recs[j].qid => i = j
  <2>1. \A i \in 1 .. Len(s.recs) : s.byQ[<<o, s.recs[i].qid>>] = i
    BY DEF Finished, RowFinished, RecKey
  <2> QED  BY <2>1, Parts DEF Finished
<1>2. CASE r.subsumed
  BY <1>2, IngestOneFinished
<1>3. CASE ~r.subsumed
  <2>1. RowReplaced(s, r, t) /\ r \in Record
    BY <1>3, IngestOneFinished DEF Clean
  <2>2. CASE \E i \in 1 .. Len(s.recs) : /\ s.recs[i].qid = r.qid
                                         /\ t.recs = [s.recs EXCEPT ![i] = r]
    <3>1. PICK i \in 1 .. Len(s.recs) : /\ s.recs[i].qid = r.qid
                                        /\ t.recs = [s.recs EXCEPT ![i] = r]
      BY <2>2
    <3>2. /\ Len(t.recs) = Len(s.recs)
          /\ \A j \in 1 .. Len(s.recs) : t.recs[j] = IF j = i THEN r ELSE s.recs[j]
      BY <1>1, <2>1, <3>1, ExceptSeq
    <3>3. CASE r.qid = q
      <4>1. \A j \in 1 .. Len(t.recs) : t.recs[j].qid = q => t.recs[j] = r
        BY <1>1, <3>1, <3>2, <3>3
      <4>2. t.recs[i] = r /\ i \in 1 .. Len(t.recs)
        BY <3>2
      <4> QED  BY <1>3, <3>3, <4>1, <4>2 DEF OfId
    <3>4. CASE r.qid # q
      <4>1. \A j \in 1 .. Len(s.recs) :
              /\ t.recs[j].qid = q <=> s.recs[j].qid = q
              /\ s.recs[j].qid = q => t.recs[j] = s.recs[j]
        BY <3>1, <3>2, <3>4
      <4> QED  BY <3>2, <3>4, <4>1 DEF OfId
    <3> QED  BY <3>3, <3>4
  <2>3. CASE /\ \A j \in 1 .. Len(s.recs) : s.recs[j].qid # r.qid
             /\ t.recs = Append(s.recs, r)
    <3> DEFINE n == Len(s.recs) + 1
    <3>1. /\ Len(t.recs) = n /\ t.recs[n] = r /\ n \in 1 .. n
          /\ \A j \in 1 .. n : j # n => j \in 1 .. Len(s.recs) /\ t.recs[j] = s.recs[j]
          /\ \A j \in 1 .. Len(s.recs) : j \in 1 .. n /\ t.recs[j] = s.recs[j]
      BY <1>1, <2>1, <2>3, AppendProperties
    <3> HIDE DEF n
    <3>2. CASE r.qid = q
      <4>1. \A j \in 1 .. n : t.recs[j].qid = q => t.recs[j] = r
        BY <2>3, <3>1, <3>2
      <4> QED  BY <1>3, <3>1, <3>2, <4>1 DEF OfId
    <3>3. CASE r.qid # q
      BY <3>1, <3>3 DEF OfId
    <3> QED  BY <3>2, <3>3
  <2> QED  BY <2>1, <2>2, <2>3 DEF RowReplaced
<1> QED  BY <1>2, <1>3

\* Rows that came from one store, each with its message's lines only.
CleanRows(rows) == rows \in Seq(Record) /\ \A m \in 1 .. Len(rows) : Clean(rows[m])

LEMMA FromOriginClean ==
  ASSUME NEW rows, CleanRows(rows), NEW o \in Origins
  PROVE  /\ DOMAIN FromOrigin(o, rows) = 1 .. Len(rows) /\ Len(rows) \in Nat
         /\ \A m \in 1 .. Len(rows) :
              Clean(FromOrigin(o, rows)[m]) /\ FromOrigin(o, rows)[m].origin = o
<1>1. DOMAIN rows = 1 .. Len(rows) /\ Len(rows) \in Nat
  BY LenProperties DEF CleanRows
<1>2. ASSUME NEW m \in 1 .. Len(rows)
      PROVE  LET r == [rows[m] EXCEPT !.origin = o] IN Clean(r) /\ r.origin = o
  <2>1. Clean(rows[m])
    BY DEF CleanRows
  <2> QED  BY <2>1 DEF Clean, Record
<1> QED  BY <1>1, <1>2 DEF FromOrigin

\* A batch keeps the receiver's store finished.
LEMMA IngestSnapshotsFinished ==
  ASSUME NEW s, NEW o \in Origins, Finished(s, o), NEW rows, CleanRows(rows)
  PROVE  Finished(IngestSnapshots(s, o, rows), o)
<1> DEFINE X == {t \in Store : Finished(t, o)}
           n == Len(rows)
           batch == FromOrigin(o, rows)
<1>1. /\ DOMAIN batch = 1 .. n /\ n \in Nat
      /\ \A m \in 1 .. n : Clean(batch[m]) /\ batch[m].origin = o
  BY FromOriginClean
<1>2. s \in X
  BY DEF Finished, Sound
<1> HIDE DEF batch, n
<1>3. ASSUME NEW t \in X, NEW m \in 1 .. n PROVE IngestOne(t, batch[m]) \in X
  <2>1. Finished(IngestOne(t, batch[m]), o)
    BY <1>1, IngestOneFinished
  <2> QED  BY <2>1 DEF Finished, Sound
<1> HIDE DEF X
<1>4. Ingesting(X, s, batch, n)
  BY <1>1, <1>2, <1>3, IngestRun
<1>5. IngestSnapshots(s, o, rows) \in X
  BY <1>1, <1>4 DEF Ingesting, IngestSnapshots, batch
<1> QED  BY <1>5 DEF X

\* What n snapshots make of the row of q: the last listed one of q replaces it.
Taken(s, rows, n, q, t) ==
  /\ (\A m \in 1 .. n : rows[m].qid = q => rows[m].subsumed) => OfId(t, q) = OfId(s, q)
  /\ \A m \in 1 .. n :
       /\ rows[m].qid = q /\ ~rows[m].subsumed
       /\ \A l \in (m + 1) .. n : rows[l].qid = q => rows[l].subsumed
       => OfId(t, q) = {rows[m]}

LEMMA IngestSnapshotsRows ==
  ASSUME NEW s, NEW o \in Origins, Finished(s, o), NEW rows, CleanRows(rows), NEW q
  PROVE  Taken(s, FromOrigin(o, rows), Len(rows), q, IngestSnapshots(s, o, rows))
<1> DEFINE X == {t \in Store : Finished(t, o)}
           n == Len(rows)
           b == FromOrigin(o, rows)
           t == IngestSnapshots(s, o, rows)
<1>1. /\ DOMAIN b = 1 .. n /\ n \in Nat
      /\ \A m \in 1 .. n : Clean(b[m]) /\ b[m].origin = o
  BY FromOriginClean
<1>2. s \in X /\ t = FoldLeft(IngestOne, s, b)
  BY DEF Finished, Sound, IngestSnapshots
<1> HIDE DEF b, n, t
<1>3. ASSUME NEW x \in X, NEW m \in 1 .. n PROVE IngestOne(x, b[m]) \in X
  <2>1. Finished(IngestOne(x, b[m]), o)
    BY <1>1, IngestOneFinished
  <2> QED  BY <2>1 DEF Finished, Sound
<1> HIDE DEF X
<1>4. Ingesting(X, s, b, n)
  BY <1>1, <1>2, <1>3, IngestRun
<1>5. PICK run \in [0 .. n -> X] :
        /\ run[0] = s
        /\ \A m \in 1 .. n : run[m] = IngestOne(run[m - 1], b[m])
        /\ run[n] = FoldLeft(IngestOne, s, b)
  BY <1>4 DEF Ingesting
<1> DEFINE T == {m \in 0 .. n : Taken(s, b, m, q, run[m])}
<1>6. 0 \in T
  BY <1>1, <1>5 DEF Taken
<1>7. ASSUME NEW m \in 1 .. n, m - 1 \in T PROVE m \in T
  <2> DEFINE u == run[m - 1]
             v == run[m]
             r == b[m]
  <2>1. m - 1 \in 0 .. n /\ m \in 0 .. n /\ Taken(s, b, m - 1, q, u)
    BY <1>1, <1>7
  <2>2. Finished(u, o) /\ v = IngestOne(u, r) /\ Clean(r) /\ r.origin = o
    BY <1>1, <1>5, <2>1 DEF X
  <2> HIDE DEF u, v
  <2>3. OfId(v, q) = IF ~r.subsumed /\ r.qid = q THEN {r} ELSE OfId(u, q)
    <3> HIDE DEF r
    <3> QED  BY <2>2, IngestOneRow
  <2>4. ASSUME \A k \in 1 .. m : b[k].qid = q => b[k].subsumed
        PROVE  OfId(v, q) = OfId(s, q)
    <3>1. \A k \in 1 .. m - 1 : b[k].qid = q => b[k].subsumed
      BY <1>1, <2>4
    <3>2. ~(~r.subsumed /\ r.qid = q)
      BY <1>1, <2>4
    <3> QED  BY <2>1, <2>3, <3>1, <3>2 DEF Taken
  <2>5. ASSUME NEW k \in 1 .. m, b[k].qid = q, ~b[k].subsumed,
               \A l \in (k + 1) .. m : b[l].qid = q => b[l].subsumed
        PROVE  OfId(v, q) = {b[k]}
    <3>1. CASE k = m
      BY <2>3, <2>5, <3>1
    <3>2. CASE k # m
      <4>1. k \in 1 .. m - 1 /\ m \in (k + 1) .. m
        BY <1>1, <3>2
      <4>2. \A l \in (k + 1) .. m - 1 : b[l].qid = q => b[l].subsumed
        BY <1>1, <2>5
      <4>3. ~(~r.subsumed /\ r.qid = q)
        BY <2>5, <4>1
      <4>4. OfId(u, q) = {b[k]}
        BY <2>1, <2>5, <4>1, <4>2 DEF Taken
      <4> QED  BY <2>3, <4>3, <4>4
    <3> QED  BY <3>1, <3>2
  <2>6. Taken(s, b, m, q, v)
    BY <2>4, <2>5 DEF Taken
  <2> QED  BY <2>1, <2>6 DEF v
<1>8. \A m \in 0 .. n : m \in T
  <2> HIDE DEF T
  <2> QED  BY <1>1, <1>6, <1>7, PositionInduction
<1>9. Taken(s, b, n, q, t)
  BY <1>1, <1>2, <1>5, <1>8
<1> QED  BY <1>9 DEF b, n, t

-----------------------------------------------------------------------------
(* The table.                                                              *)

\* Finitely many rows, each clean and under its own key.
CleanTable(table, o) ==
  /\ table \in [Key -> Record \cup {NoRow}]
  /\ IsFiniteSet({k \in Key : table[k] # NoRow})
  /\ \A k \in Key : table[k] # NoRow =>
       Clean(table[k]) /\ table[k].origin = o /\ RecKey(table[k]) = k

\* No row of a store is the missing row: it has an origin.
LEMMA NoRowIsNoRecord == NoRow \notin Record
<1> SUFFICES ASSUME NoRow \in Record PROVE FALSE
  OBVIOUS
<1>1. "qid" \in DOMAIN NoRow
  BY DEF Record
<1> QED  BY <1>1 DEF NoRow

LEMMA EmptyTableClean == ASSUME NEW o PROVE CleanTable(EmptyTable, o)
<1>1. {k \in Key : EmptyTable[k] # NoRow} = {}
  BY DEF EmptyTable
<1>2. IsFiniteSet({k \in Key : EmptyTable[k] # NoRow})
  BY <1>1, FS_EmptySet
<1> QED  BY <1>2 DEF CleanTable, EmptyTable

LEMMA UpsertClean ==
  ASSUME NEW o, NEW table, CleanTable(table, o), NEW r, Clean(r), r.origin = o
  PROVE  CleanTable(Upsert(table, r), o)
<1> DEFINE u == Upsert(table, r)
           k == RecKey(r)
           A == {h \in Key : table[h] # NoRow}
           B == {h \in Key : u[h] # NoRow}
<1>1. r \in Record /\ k \in Key /\ u = [table EXCEPT ![k] = r]
  BY RowsAreRecords DEF Clean, Record, Upsert
<1>2. table \in [Key -> Record \cup {NoRow}] /\ IsFiniteSet(A)
  BY DEF CleanTable
<1> HIDE DEF k, u
<1>3. u \in [Key -> Record \cup {NoRow}]
  BY <1>1, <1>2
<1>4. IsFiniteSet(B)
  <2>1. IsFiniteSet(A \cup {k})
    <3> HIDE DEF A
    <3> QED  BY <1>2, FS_AddElement
  <2>2. B \subseteq A \cup {k}
    BY <1>1, <1>2
  <2> HIDE DEF A, B
  <2> QED  BY <2>1, <2>2, FS_Subset
<1>5. ASSUME NEW h \in Key, u[h] # NoRow
      PROVE  Clean(u[h]) /\ u[h].origin = o /\ RecKey(u[h]) = h
  BY <1>1, <1>2, <1>5 DEF CleanTable, k
<1> QED  BY <1>3, <1>4, <1>5 DEF CleanTable, u

LEMMA UpsertRecordsClean ==
  ASSUME NEW o, NEW table, CleanTable(table, o), NEW rows, NEW n \in Nat,
         DOMAIN rows = 1 .. n,
         \A m \in 1 .. n : Clean(rows[m]) /\ rows[m].origin = o
  PROVE  CleanTable(FoldLeft(Upsert, table, rows), o)
<1> DEFINE X == {t \in [Key -> Record \cup {NoRow}] : CleanTable(t, o)}
<1>1. table \in X
  BY DEF CleanTable
<1>2. ASSUME NEW t \in X, NEW m \in 1 .. n PROVE Upsert(t, rows[m]) \in X
  <2>1. CleanTable(Upsert(t, rows[m]), o)
    BY UpsertClean
  <2> QED  BY <2>1 DEF CleanTable
<1> HIDE DEF X
<1>3. Upserting(X, table, rows, n)
  BY <1>1, <1>2, UpsertRun
<1>4. FoldLeft(Upsert, table, rows) \in X
  BY <1>3 DEF Upserting
<1> QED  BY <1>4 DEF X

\* rows has the n rows of the table, each once.
Enumerates(rows, n, table) ==
  /\ DOMAIN rows = 1 .. n
  /\ \A m \in 1 .. n : \E k \in Key : table[k] # NoRow /\ rows[m] = table[k]
  /\ \A k \in Key : table[k] # NoRow => \E m \in 1 .. n : rows[m] = table[k]
  /\ \A l, m \in 1 .. n : l # m => rows[l] # rows[m]

\* A start reads the rows of the table in some order.
LEMMA LoadedRows ==
  ASSUME NEW o, NEW table, CleanTable(table, o), NEW s \in LoadedFrom(table)
  PROVE  \E rows : \E n \in Nat : s = LoadFromDB(rows) /\ Enumerates(rows, n, table)
<1> DEFINE A == {k \in Key : table[k] # NoRow}
           S == {table[k] : k \in Key} \ {NoRow}
           n == Cardinality(S)
<1>1. PICK rows \in SetToSeqs(S) : s = LoadFromDB(rows)
  BY DEF LoadedFrom
<1>2. /\ rows \in [1 .. n -> S]
      /\ \A l, m \in 1 .. n : l # m => rows[l] # rows[m]
  BY DEF SetToSeqs
<1>3. S = {table[k] : k \in A}
  OBVIOUS
<1>4. IsFiniteSet(S) /\ n \in Nat
  <2>1. IsFiniteSet(A)
    BY DEF CleanTable
  <2>2. IsFiniteSet({table[k] : k \in A})
    <3> HIDE DEF A
    <3>1. [k \in A |-> table[k]] \in Surjection(A, {table[k] : k \in A})
      BY DEF Surjection
    <3> QED  BY <2>1, <3>1, FS_Surjection
  <2> HIDE DEF A
  <2>3. IsFiniteSet(S)
    BY <1>3, <2>2
  <2> HIDE DEF S
  <2> QED  BY <2>3, FS_CardinalityType
<1>5. \A r \in S : \E m \in 1 .. n : rows[m] = r
  <2>1. rows \in Injection(1 .. n, S)
    BY <1>2 DEF IsInjective, Injection
  <2>2. Cardinality(1 .. n) = n
    BY <1>4, FS_Interval
  <2> HIDE DEF S
  <2>3. rows \in Surjection(1 .. n, S)
    BY <1>4, <2>1, <2>2, FS_Injection
  <2> QED  BY <2>3 DEF Surjection
<1>6. /\ \A m \in 1 .. n : \E k \in Key : table[k] # NoRow /\ rows[m] = table[k]
      /\ \A k \in Key : table[k] # NoRow => \E m \in 1 .. n : rows[m] = table[k]
      /\ DOMAIN rows = 1 .. n
  <2>1. \A m \in 1 .. n : rows[m] \in S
    BY <1>2
  <2>2. \A k \in Key : table[k] # NoRow => table[k] \in S
    OBVIOUS
  <2> HIDE DEF n
  <2> QED  BY <1>2, <1>5, <2>1, <2>2
<1> HIDE DEF S, n
<1>7. Enumerates(rows, n, table)
  BY <1>2, <1>6 DEF Enumerates
<1> QED  BY <1>1, <1>4, <1>7

\* A start from a clean table comes up with a finished store.
LEMMA LoadedFinished ==
  ASSUME NEW o \in Origins, NEW table, CleanTable(table, o),
         NEW s \in LoadedFrom(table)
  PROVE  Finished(s, o)
<1> DEFINE X == {t \in Store : Finished(t, o)}
<1>1. PICK rows : \E n \in Nat : s = LoadFromDB(rows) /\ Enumerates(rows, n, table)
  BY LoadedRows
<1>11. PICK n \in Nat : s = LoadFromDB(rows) /\ Enumerates(rows, n, table)
  BY <1>1
<1>2. DOMAIN rows = 1 .. n /\ \A m \in 1 .. n : Clean(rows[m]) /\ rows[m].origin = o
  BY <1>11 DEF CleanTable, Enumerates
<1>3. EmptyStore \in X
  BY EmptyStoreFinished DEF Finished, Sound
<1>4. ASSUME NEW t \in X, NEW m \in 1 .. n PROVE LoadRow(t, rows[m]) \in X
  <2>1. Finished(LoadRow(t, rows[m]), o)
    BY <1>2, LoadRowFinished
  <2> QED  BY <2>1 DEF Finished, Sound
<1> HIDE DEF X
<1>5. Loading(X, EmptyStore, rows, n)
  BY <1>2, <1>3, <1>4, LoadRun
<1>6. s \in X
  BY <1>11, <1>5 DEF Loading, LoadFromDB
<1> QED  BY <1>6 DEF X

\* What a start has loaded when it has read the first m rows: those of them that
\* are listed; an index leads to a loaded row by its queue id or its onward id.
LoadedSoFar(s, o, rows, m) ==
  /\ \A l \in 1 .. m : ~rows[l].subsumed => \E i \in 1 .. Len(s.recs) : s.recs[i] = rows[l]
  /\ \A i \in 1 .. Len(s.recs) : \E l \in 1 .. m : ~rows[l].subsumed /\ s.recs[i] = rows[l]
  /\ \A k \in Key : s.byQ[k] # 0 =>
       \E i \in 1 .. Len(s.recs) : k \in {RecKey(s.recs[i]), <<o, s.recs[i].dqid>>}

LEMMA LoadRowLoads ==
  ASSUME NEW s, NEW o \in Origins, Finished(s, o), NEW rows, NEW m \in Nat \ {0},
         LoadedSoFar(s, o, rows, m - 1), NEW r, r = rows[m], Clean(r), r.origin = o,
         \A l \in 1 .. m - 1 : ~r.subsumed /\ ~rows[l].subsumed =>
           RecKey(rows[l]) # RecKey(r) /\ <<o, rows[l].dqid>> # RecKey(r)
  PROVE  LoadedSoFar(LoadRow(s, r), o, rows, m)
<1> DEFINE t == LoadRow(s, r)
<1>1. /\ \A l \in 1 .. m - 1 : l \in 1 .. m /\ (~rows[l].subsumed =>
           \E i \in 1 .. Len(s.recs) : s.recs[i] = rows[l])
      /\ \A i \in 1 .. Len(s.recs) : \E l \in 1 .. m - 1 :
           l \in 1 .. m /\ ~rows[l].subsumed /\ s.recs[i] = rows[l]
      /\ \A k \in Key : s.byQ[k] # 0 =>
           \E i \in 1 .. Len(s.recs) : k \in {RecKey(s.recs[i]), <<o, s.recs[i].dqid>>}
      /\ m \in 1 .. m /\ \A l \in 1 .. m : l # m => l \in 1 .. m - 1
  BY DEF LoadedSoFar
<1>2. CASE r.subsumed
  <2>1. t = s
    BY <1>2 DEF LoadRow
  <2> HIDE DEF t
  <2> QED  BY <1>1, <1>2, <2>1 DEF LoadedSoFar, t
<1>3. CASE ~r.subsumed
  <2>1. r \in Record /\ RecKey(r) \in Key
    BY RowsAreRecords DEF Clean, Record
  <2>2. s.byQ[RecKey(r)] = 0
    <3>1. SUFFICES ASSUME s.byQ[RecKey(r)] # 0 PROVE FALSE
      OBVIOUS
    <3>2. PICK i \in 1 .. Len(s.recs) :
            RecKey(r) \in {RecKey(s.recs[i]), <<o, s.recs[i].dqid>>}
      BY <1>1, <2>1, <3>1
    <3>3. PICK l \in 1 .. m - 1 : ~rows[l].subsumed /\ s.recs[i] = rows[l]
      BY <1>1
    <3> QED  BY <1>3, <3>2, <3>3
  <2>3. t = AddFinished(s, r)
    BY <1>3, <2>2 DEF LoadRow
  <2>4. \A j \in 1 .. Len(s.recs) : RecKey(s.recs[j]) # RecKey(r)
    BY <2>2 DEF Finished, RowFinished
  <2> HIDE DEF t
  <2>5. /\ t.recs = Append(s.recs, r)
        /\ \A h \in Key : t.byQ[h] # s.byQ[h] => h \in {RecKey(r), <<o, r.dqid>>}
    BY <1>3, <2>3, <2>4, AddFinishedFinished
  <2> DEFINE n == Len(s.recs) + 1
  <2>6. /\ Len(t.recs) = n /\ t.recs[n] = r /\ n \in 1 .. n
        /\ \A j \in 1 .. n : j # n => j \in 1 .. Len(s.recs)
        /\ \A j \in 1 .. Len(s.recs) : j \in 1 .. n /\ t.recs[j] = s.recs[j]
    <3>1. s.recs \in Seq(Record) /\ Len(s.recs) \in Nat
      BY Parts DEF Finished
    <3> QED  BY <2>1, <2>5, <3>1, AppendProperties
  <2> HIDE DEF n
  <2>7. ASSUME NEW l \in 1 .. m, ~rows[l].subsumed
        PROVE  \E i \in 1 .. Len(t.recs) : t.recs[i] = rows[l]
    <3>1. CASE l = m
      BY <2>6, <3>1
    <3>2. CASE l # m
      BY <1>1, <2>6, <2>7, <3>2
    <3> QED  BY <3>1, <3>2
  <2>8. ASSUME NEW i \in 1 .. Len(t.recs)
        PROVE  \E l \in 1 .. m : ~rows[l].subsumed /\ t.recs[i] = rows[l]
    <3>1. CASE i = n
      BY <1>1, <1>3, <2>6, <3>1
    <3>2. CASE i # n
      <4>1. i \in 1 .. Len(s.recs) /\ t.recs[i] = s.recs[i]
        BY <2>6, <3>2
      <4> QED  BY <1>1, <4>1
    <3> QED  BY <3>1, <3>2
  <2>9. ASSUME NEW k \in Key, t.byQ[k] # 0
        PROVE  \E i \in 1 .. Len(t.recs) : k \in {RecKey(t.recs[i]), <<o, t.recs[i].dqid>>}
    <3>1. CASE t.byQ[k] = s.byQ[k]
      BY <1>1, <2>6, <2>9, <3>1
    <3>2. CASE t.byQ[k] # s.byQ[k]
      BY <2>5, <2>6, <3>2
    <3> QED  BY <3>1, <3>2
  <2>10. LoadedSoFar(t, o, rows, m)
    BY <2>7, <2>8, <2>9 DEF LoadedSoFar
  <2> QED  BY <2>10 DEF t
<1> QED  BY <1>2, <1>3

\* No listed row of the table is the leg of another listed one.
LegsFolded(table, o) ==
  \A h, k \in Key : ~table[h].subsumed /\ ~table[k].subsumed => <<o, table[h].dqid>> # k

\* A start lists what the table lists.
LEMMA LoadedAreListed ==
  ASSUME NEW o \in Origins, NEW table, CleanTable(table, o), LegsFolded(table, o),
         NEW s \in LoadedFrom(table)
  PROVE  /\ \A k \in Key : ~table[k].subsumed =>
              \E i \in 1 .. Len(s.recs) : s.recs[i] = table[k]
         /\ \A i \in 1 .. Len(s.recs) :
              \E k \in Key : ~table[k].subsumed /\ s.recs[i] = table[k]
<1> DEFINE X == {t \in Store : Finished(t, o)}
<1>1. PICK rows : \E n \in Nat : s = LoadFromDB(rows) /\ Enumerates(rows, n, table)
  BY LoadedRows
<1>11. PICK n \in Nat : s = LoadFromDB(rows) /\ Enumerates(rows, n, table)
  BY <1>1
<1>2. /\ DOMAIN rows = 1 .. n
      /\ \A m \in 1 .. n : /\ Clean(rows[m]) /\ rows[m].origin = o
                           /\ RecKey(rows[m]) \in Key /\ rows[m] = table[RecKey(rows[m])]
  BY <1>11 DEF CleanTable, Enumerates
<1>3. EmptyStore \in X
  BY EmptyStoreFinished DEF Finished, Sound
<1>4. ASSUME NEW t \in X, NEW m \in 1 .. n PROVE LoadRow(t, rows[m]) \in X
  <2>1. Finished(LoadRow(t, rows[m]), o)
    BY <1>2, LoadRowFinished
  <2> QED  BY <2>1 DEF Finished, Sound
<1> HIDE DEF X
<1>5. Loading(X, EmptyStore, rows, n)
  BY <1>2, <1>3, <1>4, LoadRun
<1>6. PICK run \in [0 .. n -> X] :
        /\ run[0] = EmptyStore
        /\ \A m \in 1 .. n : run[m] = LoadRow(run[m - 1], rows[m])
        /\ run[n] = s
  BY <1>11, <1>5 DEF Loading, LoadFromDB
<1> DEFINE T == {m \in 0 .. n : LoadedSoFar(run[m], o, rows, m)}
<1>7. 0 \in T
  <2>1. /\ EmptyStore.recs = <<>> /\ Len(<<>>) = 0 /\ 1 .. 0 = {}
        /\ \A k \in Key : EmptyStore.byQ[k] = 0
    BY EmptySeq DEF EmptyStore
  <2>2. LoadedSoFar(EmptyStore, o, rows, 0)
    BY <2>1 DEF LoadedSoFar
  <2> QED  BY <1>6, <2>2
<1>8. ASSUME NEW m \in 1 .. n, m - 1 \in T PROVE m \in T
  <2>1. /\ m \in Nat \ {0} /\ m - 1 \in 0 .. n /\ m \in 0 .. n
        /\ \A l \in 1 .. m - 1 : l \in 1 .. n /\ l # m
    OBVIOUS
  <2>2. /\ Finished(run[m - 1], o) /\ run[m] = LoadRow(run[m - 1], rows[m])
        /\ LoadedSoFar(run[m - 1], o, rows, m - 1)
    BY <1>6, <1>8, <2>1 DEF X
  <2>3. ASSUME NEW l \in 1 .. m - 1, ~rows[m].subsumed, ~rows[l].subsumed
        PROVE  RecKey(rows[l]) # RecKey(rows[m]) /\ <<o, rows[l].dqid>> # RecKey(rows[m])
    <3>1. rows[l] # rows[m] /\ l \in 1 .. n
      BY <1>11, <2>1 DEF Enumerates
    <3>2. RecKey(rows[l]) # RecKey(rows[m])
      BY <1>2, <3>1
    <3>3. /\ RecKey(rows[l]) \in Key /\ rows[l] = table[RecKey(rows[l])]
          /\ RecKey(rows[m]) \in Key /\ rows[m] = table[RecKey(rows[m])]
      BY <1>2, <3>1
    <3> QED  BY <2>3, <3>2, <3>3 DEF LegsFolded
  <2>4. LoadedSoFar(run[m], o, rows, m)
    BY <1>2, <2>1, <2>2, <2>3, LoadRowLoads
  <2> QED  BY <2>1, <2>4
<1>9. n \in T
  <2> HIDE DEF T
  <2> QED  BY <1>7, <1>8, PositionInduction
<1>10. LoadedSoFar(s, o, rows, n)
  BY <1>6, <1>9
<1>12. ASSUME NEW k \in Key, ~table[k].subsumed
       PROVE  \E i \in 1 .. Len(s.recs) : s.recs[i] = table[k]
  <2>1. table[k] # NoRow
    BY <1>12 DEF NoRow
  <2>2. PICK m \in 1 .. n : rows[m] = table[k]
    BY <1>11, <2>1 DEF Enumerates
  <2> QED  BY <1>10, <1>12, <2>2 DEF LoadedSoFar
<1>13. ASSUME NEW i \in 1 .. Len(s.recs)
       PROVE  \E k \in Key : ~table[k].subsumed /\ s.recs[i] = table[k]
  <2>1. PICK l \in 1 .. n : ~rows[l].subsumed /\ s.recs[i] = rows[l]
    BY <1>10 DEF LoadedSoFar
  <2>2. RecKey(rows[l]) \in Key /\ rows[l] = table[RecKey(rows[l])]
    BY <1>2
  <2> QED  BY <2>1, <2>2
<1> QED  BY <1>12, <1>13

-----------------------------------------------------------------------------
(* What flush gets.                                                        *)

LEMMA SetToSeqType ==
  ASSUME NEW S, IsFiniteSet(S)
  PROVE  /\ SetToSeq(S) \in Seq(S)
         /\ \A x \in S : \E m \in 1 .. Len(SetToSeq(S)) : SetToSeq(S)[m] = x
<1> DEFINE n == Cardinality(S)
           f == SetToSeq(S)
           Good(g) == g \in [1 .. n -> S] /\ IsInjective(g)
<1>1. n \in Nat /\ ExistsBijection(1 .. n, S)
  BY FS_CardinalityType
<1>2. PICK g \in Bijection(1 .. n, S) : TRUE
  BY <1>1 DEF ExistsBijection
<1>3. Good(g)
  BY <1>2 DEF Bijection, Injection
<1>4. f = CHOOSE h \in [1 .. n -> S] : IsInjective(h)
  BY DEF SetToSeq
<1> HIDE DEF f
<1>5. f \in [1 .. n -> S] /\ IsInjective(f)
  BY <1>3, <1>4
<1>6. f \in Seq(S) /\ Len(f) = n
  BY <1>1, <1>5
<1>7. f \in Injection(1 .. n, S)
  BY <1>5 DEF Injection
<1>8. f \in Surjection(1 .. n, S)
  <2>1. Cardinality(1 .. n) = n
    BY <1>1, FS_Interval
  <2> HIDE DEF n
  <2>2. Cardinality(1 .. n) = Cardinality(S)
    BY <2>1 DEF n
  <2> QED  BY <1>7, <2>2, FS_Injection
<1>9. \A x \in S : \E m \in 1 .. n : f[m] = x
  BY <1>8 DEF Surjection
<1> QED  BY <1>6, <1>9 DEF f

LEMMA RowsClean ==
  ASSUME NEW s, Sound(s), Linked(s), NEW i \in 1 .. Len(s.recs)
  PROVE  Clean(s.recs[i]) /\ s.recs[i].origin = Local
<1>1. s.recs[i] \in Record /\ RowLinked(s, i)
  BY Parts DEF Linked
<1> QED  BY <1>1 DEF RowLinked, Clean

\* c has row i as it is after a step and, before it, the rows that the step
\* folded away, and no other.
Captures(c, recs, new, i) ==
  /\ c \in Seq(Record) /\ c # <<>> /\ c[Len(c)] = new[i]
  /\ \A m \in 1 .. Len(c) :
       \/ c[m] = new[i]
       \/ \E j \in 1 .. Len(recs) :
            ~recs[j].subsumed /\ new[j].subsumed /\ c[m] = new[j]
  /\ \A j \in 1 .. Len(recs) :
       ~recs[j].subsumed /\ new[j].subsumed => \E m \in 1 .. Len(c) : c[m] = new[j]

LEMMA CapturedRows ==
  ASSUME NEW s, Sound(s), s.recs = records', records \in Seq(Record),
         Len(records) <= Len(s.recs), NEW i \in 1 .. Len(s.recs)
  PROVE  Captures(Captured(i), records, s.recs, i)
<1> DEFINE folded == {j \in DOMAIN records : ~records[j].subsumed
                                             /\ records'[j].subsumed}
           S == {records'[j] : j \in folded}
           f == SetToSeq(S)
           c == f \o <<records'[i]>>
<1>1. /\ DOMAIN records = 1 .. Len(records) /\ Len(records) \in Nat
      /\ Len(s.recs) \in Nat /\ s.recs \in Seq(Record)
      /\ \A j \in 1 .. Len(s.recs) : s.recs[j] \in Record
  BY Parts, LenProperties
<1>2. /\ folded \subseteq 1 .. Len(records) /\ folded \subseteq 1 .. Len(s.recs)
      /\ \A j \in 1 .. Len(records) :
           j \in folded <=> ~records[j].subsumed /\ s.recs[j].subsumed
  BY <1>1
<1>3. IsFiniteSet(S)
  <2>1. IsFiniteSet(1 .. Len(records))
    BY <1>1, FS_Interval
  <2>2. IsFiniteSet(folded)
    BY <1>2, <2>1, FS_Subset
  <2>3. [j \in folded |-> records'[j]] \in Surjection(folded, S)
    BY DEF Surjection
  <2> HIDE DEF folded
  <2> QED  BY <2>2, <2>3, FS_Surjection
<1>4. /\ \A x \in S : \E j \in folded : x = s.recs[j]
      /\ \A j \in folded : s.recs[j] \in S
  OBVIOUS
<1>5. S \subseteq Record
  BY <1>1, <1>2, <1>4
<1>6. Captured(i) = c
  BY DEF Captured
<1> HIDE DEF S, folded
<1>7. f \in Seq(S) /\ f \in Seq(Record) /\ \A x \in S : \E m \in 1 .. Len(f) : f[m] = x
  BY <1>3, <1>5, SetToSeqType, SeqMonotonic
<1>8. \A m \in 1 .. Len(f) : f[m] \in S
  BY <1>7, ElementOfSeq
<1>9. <<records'[i]>> \in Seq(Record) /\ Len(<<records'[i]>>) = 1
  BY <1>1
<1> HIDE DEF f
<1>10. /\ c \in Seq(Record) /\ Len(c) = Len(f) + 1 /\ Len(f) \in Nat
       /\ \A m \in 1 .. Len(f) : c[m] = f[m]
       /\ c[Len(f) + 1] = s.recs[i]
  BY <1>7, <1>9, ConcatProperties, LenProperties
<1> HIDE DEF c
<1>11. ASSUME NEW m \in 1 .. Len(c), c[m] # s.recs[i]
       PROVE  \E j \in 1 .. Len(records) :
                ~records[j].subsumed /\ s.recs[j].subsumed /\ c[m] = s.recs[j]
  <2>1. m \in 1 .. Len(f)
    BY <1>10, <1>11
  <2>2. PICK j \in folded : c[m] = s.recs[j]
    BY <1>4, <1>8, <1>10, <2>1
  <2> QED  BY <1>2, <2>2
<1>12. ASSUME NEW j \in 1 .. Len(records), ~records[j].subsumed, s.recs[j].subsumed
       PROVE  \E m \in 1 .. Len(c) : c[m] = s.recs[j]
  <2>1. PICK m \in 1 .. Len(f) : f[m] = s.recs[j]
    BY <1>2, <1>4, <1>7, <1>12
  <2> QED  BY <1>10, <2>1
<1>13. c # <<>> /\ c[Len(c)] = s.recs[i]
  BY <1>10
<1>14. Captures(c, records, s.recs, i)
  BY <1>10, <1>11, <1>12, <1>13 DEF Captures
<1> QED  BY <1>6, <1>14

\* Each of them is a row of the store after the step.
LEMMA CapturedAreRows ==
  ASSUME NEW c, NEW s, Sound(s), Linked(s), NEW recs, NEW i \in 1 .. Len(s.recs),
         Len(recs) \in Nat, Len(recs) <= Len(s.recs), Captures(c, recs, s.recs, i)
  PROVE  CleanRows(c) /\ \A m \in 1 .. Len(c) : c[m].origin = Local
<1>1. Len(s.recs) \in Nat
  BY Parts
<1>2. ASSUME NEW m \in 1 .. Len(c) PROVE Clean(c[m]) /\ c[m].origin = Local
  <2>1. PICK j \in 1 .. Len(s.recs) : c[m] = s.recs[j]
    BY <1>1 DEF Captures
  <2> QED  BY <2>1, RowsClean
<1> QED  BY <1>2 DEF CleanRows, Captures

\* How the rows change when the listed row i is written: no row changes its queue id
\* or loses a line; a row is folded away only when its id is expected as a leg
\* and row i takes its lines over; no other listed row changes, no subsumed one
\* either; and every line row i gains was in another row or is one of more.
Rewrites(recs, byD, new, newD, i, more) ==
  /\ Len(recs) <= Len(new) /\ i \in 1 .. Len(new) /\ ~new[i].subsumed
  /\ \A j \in 1 .. Len(recs) :
       /\ new[j].qid = recs[j].qid
       /\ recs[j].lines \subseteq new[j].lines
       /\ recs[j].subsumed => new[j] = recs[j]
       /\ ~recs[j].subsumed /\ new[j].subsumed =>
            /\ newD[<<Local, recs[j].qid>>] # 0
            /\ new[j].lines = recs[j].lines /\ recs[j].lines \subseteq new[i].lines
  /\ \A j \in 1 .. Len(new) : j # i =>
       /\ j \in 1 .. Len(recs)
       /\ ~new[j].subsumed => new[j] = recs[j]
  /\ \A l \in new[i].lines : l \in more \/ \E j \in 1 .. Len(recs) : l \in recs[j].lines
  /\ \A k \in Key : byD[k] # 0 => newD[k] # 0

\* One row is written, with the same queue id.
LEMMA OneRowRewrites ==
  ASSUME NEW recs \in Seq(Record), NEW byD, NEW i \in 1 .. Len(recs), NEW e \in Record,
         e.qid = recs[i].qid, ~e.subsumed, ~recs[i].subsumed, NEW more,
         recs[i].lines \subseteq e.lines, e.lines \subseteq recs[i].lines \cup more
  PROVE  Rewrites(recs, byD, [recs EXCEPT ![i] = e], byD, i, more)
<1> DEFINE new == [recs EXCEPT ![i] = e]
<1>1. /\ Len(new) = Len(recs) /\ Len(recs) \in Nat
      /\ \A j \in 1 .. Len(recs) : new[j] = IF j = i THEN e ELSE recs[j]
  BY ExceptSeq, LenProperties
<1> HIDE DEF new
<1>2. Rewrites(recs, byD, new, byD, i, more)
  BY <1>1 DEF Rewrites
<1> QED  BY <1>2 DEF new

\* A second rewriting of the same row.
LEMMA RewritesAgain ==
  ASSUME NEW recs, NEW byD, NEW mid, NEW midD, NEW new, NEW newD, NEW i, NEW more,
         Len(recs) \in Nat, Len(mid) \in Nat, Len(new) \in Nat,
         \A j \in 1 .. Len(recs) : <<Local, recs[j].qid>> \in Key,
         Rewrites(recs, byD, mid, midD, i, more), Rewrites(mid, midD, new, newD, i, more)
  PROVE  Rewrites(recs, byD, new, newD, i, more)
<1>1. /\ Len(recs) <= Len(new) /\ i \in 1 .. Len(new) /\ ~new[i].subsumed
      /\ i \in 1 .. Len(mid) /\ mid[i].lines \subseteq new[i].lines
  <2>1. Len(recs) <= Len(mid) /\ Len(mid) <= Len(new) /\ i \in 1 .. Len(mid)
    BY DEF Rewrites
  <2>2. i \in 1 .. Len(new) /\ ~new[i].subsumed
    BY DEF Rewrites
  <2>3. mid[i].lines \subseteq new[i].lines
    BY <2>1 DEF Rewrites
  <2> QED  BY <2>1, <2>2, <2>3
<1>2. ASSUME NEW j \in 1 .. Len(recs)
      PROVE  /\ j \in 1 .. Len(mid) /\ j \in 1 .. Len(new)
             /\ new[j].qid = recs[j].qid
             /\ recs[j].lines \subseteq new[j].lines
             /\ recs[j].subsumed => new[j] = recs[j]
  <2>1. j \in 1 .. Len(mid) /\ j \in 1 .. Len(new)
    BY DEF Rewrites
  <2> QED  BY <2>1 DEF Rewrites
<1>3. ASSUME NEW j \in 1 .. Len(recs), ~recs[j].subsumed, new[j].subsumed
      PROVE  /\ newD[<<Local, recs[j].qid>>] # 0
             /\ new[j].lines = recs[j].lines /\ recs[j].lines \subseteq new[i].lines
  <2>1. CASE mid[j].subsumed
    BY <1>1, <1>2, <1>3, <2>1 DEF Rewrites
  <2>2. CASE ~mid[j].subsumed
    <3>1. j # i
      BY <1>1, <1>3
    <3>2. mid[j] = recs[j]
      BY <1>2, <2>2, <3>1 DEF Rewrites
    <3> QED  BY <1>2, <1>3, <2>2, <3>2 DEF Rewrites
  <2> QED  BY <2>1, <2>2
<1>4. ASSUME NEW j \in 1 .. Len(new), j # i
      PROVE  /\ j \in 1 .. Len(recs)
             /\ ~new[j].subsumed => new[j] = recs[j]
  <2>1. j \in 1 .. Len(mid) /\ (~new[j].subsumed => new[j] = mid[j])
    BY <1>4 DEF Rewrites
  <2> QED  BY <1>4, <2>1 DEF Rewrites
<1>5. ASSUME NEW l \in new[i].lines, l \notin more
      PROVE  \E j \in 1 .. Len(recs) : l \in recs[j].lines
  <2>1. PICK j \in 1 .. Len(mid) : l \in mid[j].lines
    BY <1>5 DEF Rewrites
  <2>2. CASE j = i
    BY <1>5, <2>1, <2>2 DEF Rewrites
  <2>3. CASE j # i
    <3>1. j \in 1 .. Len(recs) /\ (~mid[j].subsumed => mid[j] = recs[j])
      BY <2>3 DEF Rewrites
    <3>2. mid[j].subsumed => mid[j].lines = recs[j].lines
      BY <3>1 DEF Rewrites
    <3> QED  BY <2>1, <3>1, <3>2
  <2> QED  BY <2>2, <2>3
<1>6. \A k \in Key : byD[k] # 0 => newD[k] # 0
  BY DEF Rewrites
<1> QED  BY <1>1, <1>2, <1>3, <1>4, <1>5, <1>6 DEF Rewrites

LEMMA RegisterDeliveryRewrites ==
  ASSUME NEW s, Sound(s), Linked(s), NEW i \in 1 .. Len(s.recs),
         ~s.recs[i].subsumed, s.recs[i].dqid # NoQid,
         NEW t, t = RegisterDelivery(s, i), NEW more
  PROVE  /\ Rewrites(s.recs, s.byD, t.recs, t.byD, i, more)
         /\ \A k \in Key : t.byQ[k] \in {s.byQ[k], i}
<1> DEFINE leg == Leg[s.recs[i].qid]
           d == OnwardKey(s.recs[i])
           o == s.byQ[d]
           m == MergeDeliveryLeg(s.recs[i], s.recs[o])
           x == [s.recs[o] EXCEPT !.subsumed = TRUE]
           one == [s.recs EXCEPT ![i] = m]
<1>1. /\ s.recs \in Seq(Record) /\ Len(s.recs) \in Nat
      /\ s.byQ \in [Key -> Nat] /\ s.byD \in [Key -> Nat]
      /\ \A j \in 1 .. Len(s.recs) : s.recs[j] \in Record
  BY Parts
<1>2. /\ d \in Key /\ d = <<Local, leg>>
      /\ t.byD = [s.byD EXCEPT ![d] = i]
      /\ \/ /\ o \in 1 .. Len(s.recs) /\ o # i /\ ~s.recs[o].subsumed
            /\ s.recs[o].qid = leg
            /\ t.byQ = [s.byQ EXCEPT ![d] = i]
            /\ t.recs = [s.recs EXCEPT ![i] = m, ![o] = x]
         \/ t.recs = s.recs /\ t.byQ = s.byQ
  BY RegisterDeliveryEffect, SMTT(30)
<1> HIDE DEF d, leg
<1>3. \A k \in Key : s.byD[k] # 0 => t.byD[k] # 0
  BY <1>1, <1>2
<1>4. CASE t.recs = s.recs /\ t.byQ = s.byQ
  BY <1>1, <1>3, <1>4 DEF Rewrites
<1>5. CASE /\ o \in 1 .. Len(s.recs) /\ o # i /\ ~s.recs[o].subsumed
           /\ s.recs[o].qid = leg
           /\ t.byQ = [s.byQ EXCEPT ![d] = i]
           /\ t.recs = [s.recs EXCEPT ![i] = m, ![o] = x]
  <2> HIDE DEF o
  <2>0. s.recs[i] \in Record /\ s.recs[o] \in Record
    BY <1>1, <1>5
  <2>1. m \in Record /\ x \in Record
    <3>1. s.recs[i].qid \in QIDs
      BY <2>0 DEF Record
    <3>2. m \in Record
      BY <2>0, <3>1, RowsAreRecords
    <3>3. x \in Record
      BY <2>0, <3>1, RowsAreRecords
    <3> QED  BY <3>2, <3>3
  <2>2. /\ m.qid = s.recs[i].qid /\ m.subsumed = s.recs[i].subsumed
        /\ m.lines = s.recs[i].lines \cup s.recs[o].lines
        /\ x.qid = s.recs[o].qid /\ x.subsumed /\ x.lines = s.recs[o].lines
    BY <1>1, <1>5 DEF MergeDeliveryLeg, Record
  <2> HIDE DEF m, x
  <2>3. /\ one \in Seq(Record) /\ Len(one) = Len(s.recs)
        /\ \A j \in 1 .. Len(s.recs) : one[j] = IF j = i THEN m ELSE s.recs[j]
    BY <1>1, <2>1, ExceptSeq
  <2>4. t.recs = [one EXCEPT ![o] = x]
    BY <1>1, <1>5
  <2> HIDE DEF one
  <2>5. /\ Len(t.recs) = Len(s.recs)
        /\ \A j \in 1 .. Len(s.recs) : t.recs[j] = IF j = o THEN x ELSE one[j]
    BY <1>5, <2>1, <2>3, <2>4, ExceptSeq
  <2>6. t.byD[<<Local, s.recs[o].qid>>] = i /\ i # 0
    BY <1>1, <1>2, <1>5
  <2>7. ASSUME NEW j \in 1 .. Len(s.recs)
        PROVE  /\ t.recs[j].qid = s.recs[j].qid
               /\ j = o => t.recs[j].subsumed /\ t.recs[j].lines = s.recs[j].lines
               /\ j = i => ~t.recs[j].subsumed /\ t.recs[j].lines = m.lines
               /\ j # i /\ j # o => t.recs[j] = s.recs[j]
    BY <1>5, <2>2, <2>3, <2>5, SMTT(60)
  <2>9. ASSUME NEW j \in 1 .. Len(s.recs)
        PROVE  /\ t.recs[j].qid = s.recs[j].qid
               /\ s.recs[j].lines \subseteq t.recs[j].lines
               /\ s.recs[j].subsumed => t.recs[j] = s.recs[j]
               /\ ~s.recs[j].subsumed /\ t.recs[j].subsumed =>
                    /\ t.byD[<<Local, s.recs[j].qid>>] # 0
                    /\ t.recs[j].lines = s.recs[j].lines
                    /\ s.recs[j].lines \subseteq t.recs[i].lines
    <3>1. CASE j = i
      BY <2>2, <2>7, <3>1
    <3>2. CASE j = o
      <4>1. t.recs[i].lines = s.recs[i].lines \cup s.recs[o].lines
        BY <2>2, <2>7
      <4> QED  BY <1>5, <2>6, <2>7, <3>2, <4>1
    <3>3. CASE j # i /\ j # o
      BY <2>7, <3>3
    <3> QED  BY <3>1, <3>2, <3>3
  <2>10. \A j \in 1 .. Len(t.recs) : j # i =>
           /\ j \in 1 .. Len(s.recs)
           /\ ~t.recs[j].subsumed => t.recs[j] = s.recs[j]
    BY <2>5, <2>7
  <2>12. ~t.recs[i].subsumed
    BY <1>5, <2>7
  <2>13. \A l \in t.recs[i].lines : \E j \in 1 .. Len(s.recs) : l \in s.recs[j].lines
    BY <1>5, <2>2, <2>7
  <2>11. Rewrites(s.recs, s.byD, t.recs, t.byD, i, more)
    BY <1>1, <1>3, <2>12, <2>13, <2>5, <2>9, <2>10 DEF Rewrites
  <2>8. \A k \in Key : t.byQ[k] \in {s.byQ[k], i}
    BY <1>1, <1>2, <1>5
  <2> QED  BY <2>8, <2>11
<1> QED  BY <1>2, <1>4, <1>5

LEMMA SettleRowRewrites ==
  ASSUME NEW s, NEW r, NEW i, Settling(s, i, r), SettleRow(s, i, r),
         NEW more, \A p \in rspamdPending : RspamdLine(p) \in more
  PROVE  /\ Rewrites(s.recs, s.byD, records', byDelivery', i, more)
         /\ \A k \in Key : byQueueID'[k] \in {s.byQ[k], i}
<1> DEFINE t == IF r.dqid # NoQid THEN RegisterDelivery(s, i) ELSE s
           q == t.recs[i].qid
           e == EnrichRecordWithRspamd(t.recs[i], q)
<1>1. /\ Sound(s) /\ Linked(s) /\ i \in 1 .. Len(s.recs) /\ ~s.recs[i].subsumed
      /\ r.dqid # NoQid => s.recs[i].dqid # NoQid
  BY DEF Settling
<1>2. /\ Len(s.recs) \in Nat /\ i \in DOMAIN s.recs
      /\ \A j \in 1 .. Len(s.recs) : <<Local, s.recs[j].qid>> \in Key
  BY <1>1, Parts, LogAssumption DEF Key
<1>3. /\ Sound(t) /\ Len(t.recs) = Len(s.recs)
      /\ Rewrites(s.recs, s.byD, t.recs, t.byD, i, more)
      /\ \A k \in Key : t.byQ[k] \in {s.byQ[k], i}
  <2>1. CASE r.dqid # NoQid
    BY <1>1, <1>2, <2>1, RegisterDeliveryRewrites, RegisterDeliverySound
  <2>2. CASE r.dqid = NoQid
    <3>1. t = s
      BY <2>2
    <3> QED  BY <1>1, <1>2, <3>1 DEF Rewrites
  <2> QED  BY <2>1, <2>2
<1>4. /\ records' = IF q \in rspamdPending THEN [t.recs EXCEPT ![i] = e] ELSE t.recs
      /\ byQueueID' = t.byQ /\ byDelivery' = t.byD
  BY DEF SettleRow
<1> HIDE DEF t
<1>5. t.recs \in Seq(Record) /\ t.recs[i] \in Record /\ q \in QIDs
  BY <1>1, <1>3, Parts
<1>6. /\ e \in Record /\ e.qid = t.recs[i].qid /\ ~e.subsumed /\ ~t.recs[i].subsumed
      /\ e.lines = t.recs[i].lines \cup {RspamdLine(q)}
  <2>1. e \in Record
    BY <1>5, RowsAreRecords
  <2>2. ~t.recs[i].subsumed
    BY <1>3 DEF Rewrites
  <2> QED  BY <1>5, <2>1, <2>2 DEF EnrichRecordWithRspamd, Record
<1> HIDE DEF e, q
<1>7. CASE q \in rspamdPending
  <2>1. records' = [t.recs EXCEPT ![i] = e]
    BY <1>4, <1>7
  <2>2. Rewrites(t.recs, t.byD, [t.recs EXCEPT ![i] = e], t.byD, i, more)
    BY <1>1, <1>3, <1>5, <1>6, <1>7, OneRowRewrites
  <2>3. Len([t.recs EXCEPT ![i] = e]) \in Nat
    BY <1>2, <1>3, <1>5
  <2>4. Rewrites(s.recs, s.byD, [t.recs EXCEPT ![i] = e], t.byD, i, more)
    BY <1>2, <1>3, <2>2, <2>3, RewritesAgain
  <2> QED  BY <1>3, <1>4, <2>1, <2>4
<1>8. CASE q \notin rspamdPending
  BY <1>3, <1>4, <1>8
<1> QED  BY <1>7, <1>8

\* The lines a part of q brings, with the verdicts that wait.
Handed(q) ==
  {[q |-> q, n |-> n] : n \in (fed[q] + 1) .. fed'[q]} \cup
    {RspamdLine(p) : p \in rspamdPending}

\* What a part of q changes: the row its queue id now leads to is written.
LEMMA FeedMailRow ==
  ASSUME IInv, Links, NEW q \in QIDs, FeedMail(q)
  PROVE  /\ IInv' /\ Links'
         /\ Rewrites(records, byDelivery, records', byDelivery',
                     byQueueID'[<<Local, q>>], Handed(q))
<1>0. Sound(Stored) /\ fed \in [QIDs -> Nat]
  BY DEF IInv, InputOK
<1>1. PICK b \in (fed[q] + 1) .. Len(Stamp[q]), known \in BOOLEAN :
        AddRecords(ParseLines(q, fed[q], b, known)) /\ fed' = [fed EXCEPT ![q] = b]
  BY DEF FeedMail
<1> DEFINE r == ParseLines(q, fed[q], b, known)
           k == <<Local, q>>
           more == Handed(q)
<1>2. Parsed(r) /\ r.qid = q
  BY <1>0, ParsedLines DEF ParseLines
<1>11. r.lines \subseteq more /\ \A p \in rspamdPending : RspamdLine(p) \in more
  BY <1>0, <1>1 DEF Handed, ParseLines
<1> HIDE DEF more
<1>3. FoldLeg(r) \/ MergeSame(r) \/ AppendNew(r)
  BY <1>1 DEF AddRecords
<1> HIDE DEF r
<1>4. IInv' /\ Links'
  <2>1. Unpurged /\ [Next]_vars
    BY DEF Unpurged, Next
  <2> QED  BY <2>1, IInvStep, LinksStep
<1>5. r \in Record /\ RecKey(r) = k /\ k \in Key
  BY <1>2, LogAssumption DEF Parsed, RecKey, Key
<1>6. /\ records \in Seq(Record) /\ Len(records) \in Nat
      /\ DOMAIN records = 1 .. Len(records)
      /\ byQueueID \in [Key -> Nat]
      /\ \A j \in 1 .. Len(records) : /\ records[j] \in Record
                                      /\ <<Local, records[j].qid>> \in Key
  BY <1>0, StoredParts
<1>7. CASE FoldLeg(r)
  <2> DEFINE p == byDelivery[k]
             e == MergeDeliveryLeg(records[p], r)
  <2>1. /\ p \in 1 .. Len(records) /\ records' = [records EXCEPT ![p] = e]
        /\ byQueueID' = [byQueueID EXCEPT ![k] = p] /\ byDelivery' = byDelivery
    BY <1>5, <1>6, <1>7 DEF FoldLeg
  <2> HIDE DEF p
  <2>5. ~records[p].subsumed
    <3>1. /\ KeyLinked(Stored, q) /\ RowLinked(Stored, p) /\ p # 0
          /\ records[p].qid \in QIDs
      BY <1>0, <1>6, <2>1, StoredParts
    <3>2. q = records[p].dqid /\ q # NoQid
      BY <3>1, LegAssumption DEF KeyLinked, Stored, k, p
    <3> QED  BY <3>1, <3>2 DEF RowLinked, Stored
  <2>2. /\ e \in Record /\ e.qid = records[p].qid /\ ~e.subsumed
        /\ e.lines = records[p].lines \cup r.lines
    <3>1. e \in Record /\ records[p] \in Record
      BY <1>5, <1>6, <2>1, RowsAreRecords
    <3> QED  BY <2>5, <3>1 DEF MergeDeliveryLeg, Record
  <2> HIDE DEF e
  <2>3. Rewrites(records, byDelivery, [records EXCEPT ![p] = e], byDelivery, p, more)
    BY <1>6, <1>11, <2>1, <2>2, <2>5, OneRowRewrites
  <2>4. byQueueID'[k] = p
    BY <1>5, <1>6, <2>1
  <2> QED  BY <1>4, <2>1, <2>3, <2>4 DEF more
<1>8. ASSUME NEW s, NEW i, Settling(s, i, r), SettleRow(s, i, r),
             s.byD = byDelivery, s.byQ[RecKey(r)] = i,
             Rewrites(records, byDelivery, s.recs, byDelivery, i, more)
      PROVE  Rewrites(records, byDelivery, records', byDelivery', byQueueID'[k], more)
  <2>1. /\ Rewrites(s.recs, byDelivery, records', byDelivery', i, more)
        /\ \A h \in Key : byQueueID'[h] \in {s.byQ[h], i}
    BY <1>8, <1>11, SettleRowRewrites
  <2>2. byQueueID'[k] = i
    BY <1>5, <1>8, <2>1
  <2>3. Len(s.recs) \in Nat /\ Len(records') \in Nat
    BY <1>8, SettleRowSound, Parts DEF Settling
  <2>4. Rewrites(records, byDelivery, records', byDelivery', i, more)
    BY <1>6, <1>8, <2>1, <2>3, RewritesAgain
  <2> QED  BY <2>2, <2>4
<1>9. CASE MergeSame(r)
  <2>1. PICK s, i : /\ Settling(s, i, r) /\ SettleRow(s, i, r)
                    /\ i \in 1 .. Len(records) /\ ~records[i].subsumed
                    /\ s.recs = [records EXCEPT ![i] = MergeRecord(@, r)]
                    /\ s.byD = byDelivery /\ s.byQ[RecKey(r)] = i
    BY <1>0, <1>2, <1>9, MergeSameSettles
  <2> DEFINE e == MergeRecord(records[i], r)
  <2>2. /\ e \in Record /\ e.qid = records[i].qid /\ ~e.subsumed
        /\ e.lines = records[i].lines \cup r.lines
    <3>1. e \in Record /\ records[i] \in Record
      BY <1>5, <1>6, <2>1, RowsAreRecords
    <3> QED  BY <2>1, <3>1 DEF MergeRecord, Record
  <2>3. s.recs = [records EXCEPT ![i] = e]
    BY <2>1
  <2> HIDE DEF e
  <2>4. Rewrites(records, byDelivery, [records EXCEPT ![i] = e], byDelivery, i, more)
    BY <1>6, <1>11, <2>1, <2>2, OneRowRewrites
  <2>5. Rewrites(records, byDelivery, s.recs, byDelivery, i, more)
    BY <2>3, <2>4
  <2> QED  BY <1>4, <1>8, <2>1, <2>5 DEF more
<1>10. CASE AppendNew(r)
  <2>1. PICK s, i : /\ Settling(s, i, r) /\ SettleRow(s, i, r)
                    /\ s.recs = Append(records, r) /\ i = Len(records) + 1
                    /\ s.byD = byDelivery /\ s.byQ[RecKey(r)] = i
    BY <1>0, <1>2, <1>10, AppendNewSettles
  <2>2. /\ Len(s.recs) = i
        /\ \A j \in 1 .. Len(records) : s.recs[j] = records[j]
        /\ s.recs[i] = r /\ ~s.recs[i].subsumed
    BY <1>5, <1>6, <2>1, AppendProperties DEF Settling
  <2>5. \A j \in 1 .. Len(s.recs) : j # i => j \in 1 .. Len(records)
    BY <1>6, <2>1, <2>2
  <2>3. Rewrites(records, byDelivery, s.recs, byDelivery, i, more)
    BY <1>6, <1>11, <2>1, <2>2, <2>5 DEF Rewrites
  <2> QED  BY <1>4, <1>8, <2>1, <2>3 DEF more
<1> QED  BY <1>3, <1>7, <1>9, <1>10

\* Row i, if any, is enriched: it stays where it is and as listed as it was.
Enriched(recs, new, i) ==
  /\ Len(new) = Len(recs)
  /\ \A j \in 1 .. Len(recs) : /\ new[j].qid = recs[j].qid
                               /\ new[j].subsumed = recs[j].subsumed
                               /\ j # i => new[j] = recs[j]

LEMMA FeedVerdictRows ==
  ASSUME IInv, Links, NEW q \in QIDs, FeedVerdict(q)
  PROVE  /\ IInv' /\ Links'
         /\ Enriched(records, records', byQueueID[<<Local, q>>])
<1> DEFINE i == byQueueID[<<Local, q>>]
           e == EnrichRecordWithRspamd(records[i], q)
<1>1. IInv' /\ Links'
  <2>1. Unpurged /\ [Next]_vars
    BY DEF Unpurged, Next
  <2> QED  BY <2>1, IInvStep, LinksStep
<1>2. records \in Seq(Record) /\ DOMAIN records = 1 .. Len(records)
      /\ \A j \in 1 .. Len(records) : records[j] \in Record
  BY StoredParts DEF IInv
<1>3. CASE records' = records
  BY <1>1, <1>3 DEF Enriched
<1>4. CASE HasRow(q) /\ records' = [records EXCEPT ![i] = e]
  <2>1. i \in 1 .. Len(records) /\ records[i] \in Record
    BY <1>2, <1>4 DEF HasRow
  <2>2. e \in Record /\ e.qid = records[i].qid /\ e.subsumed = records[i].subsumed
    <3>1. e \in Record
      BY <2>1, RowsAreRecords
    <3> QED  BY <2>1, <3>1 DEF EnrichRecordWithRspamd, Record
  <2> HIDE DEF e, i
  <2>3. /\ Len(records') = Len(records)
        /\ \A j \in 1 .. Len(records) : records'[j] = IF j = i THEN e ELSE records[j]
    BY <1>2, <1>4, <2>1, <2>2, ExceptSeq
  <2>4. Enriched(records, records', i)
    BY <2>2, <2>3 DEF Enriched
  <2> QED  BY <1>1, <2>4 DEF i
<1> QED  BY <1>3, <1>4 DEF FeedVerdict, ApplyRspamdVerdict
\* What flush gets from a part of q, and that it gets every row that changed.
LEMMA CapturedByMailRows ==
  ASSUME IInv, Links, NEW q \in QIDs, FeedMail(q)
  PROVE  /\ CleanRows(CapturedByMail(q))
         /\ \A m \in 1 .. Len(CapturedByMail(q)) : CapturedByMail(q)[m].origin = Local
         /\ Captures(CapturedByMail(q), records, records', byQueueID'[<<Local, q>>])
<1> DEFINE s == [recs |-> records', byQ |-> byQueueID', byD |-> byDelivery']
           i == byQueueID'[<<Local, q>>]
           c == CapturedByMail(q)
<1>1. /\ IInv' /\ Links' /\ Len(records) <= Len(records')
      /\ i \in 1 .. Len(records')
  BY FeedMailRow DEF Rewrites
<1>2. /\ Sound(s) /\ Linked(s) /\ s.recs = records'
      /\ records \in Seq(Record) /\ Len(records) \in Nat
  BY <1>1, Parts DEF IInv, Links, Stored
<1> HIDE DEF s
<1>3. c = Captured(i)
  BY DEF CapturedByMail
<1> HIDE DEF i, c
<1>4. Captures(c, records, s.recs, i)
  BY <1>1, <1>2, <1>3, CapturedRows
<1>5. CleanRows(c) /\ \A m \in 1 .. Len(c) : c[m].origin = Local
  BY <1>1, <1>2, <1>4, CapturedAreRows
<1> QED  BY <1>2, <1>4, <1>5 DEF c, i

LEMMA CapturedByVerdictRows ==
  ASSUME IInv, Links, NEW q \in QIDs, FeedVerdict(q)
  PROVE  /\ CleanRows(CapturedByVerdict(q))
         /\ \A m \in 1 .. Len(CapturedByVerdict(q)) :
              /\ CapturedByVerdict(q)[m].origin = Local
              /\ q \in {CapturedByVerdict(q)[m].qid, Leg[CapturedByVerdict(q)[m].qid]}
<1> DEFINE s == [recs |-> records', byQ |-> byQueueID', byD |-> byDelivery']
           i == byQueueID[<<Local, q>>]
           c == CapturedByVerdict(q)
<1>1. IInv' /\ Links' /\ Enriched(records, records', i)
  BY FeedVerdictRows
<1>2. /\ Sound(s) /\ Linked(s) /\ s.recs = records' /\ Sound(Stored)
      /\ records \in Seq(Record) /\ Len(records) \in Nat
      /\ Len(records') = Len(records)
  BY <1>1, Parts DEF IInv, Links, Stored, Enriched
<1> HIDE DEF s
<1>3. CASE HasRow(q)
  <2>1. i \in 1 .. Len(records) /\ i \in 1 .. Len(s.recs) /\ i # 0
    BY <1>2, <1>3, LenProperties DEF HasRow
  <2>2. c = Captured(i)
    BY <1>3 DEF CapturedByVerdict
  <2>3. q \in {records[i].qid, Leg[records[i].qid]}
    <3>1. KeyLinked(Stored, q) /\ RowLinked(Stored, i)
      BY <1>2, <2>1, StoredParts
    <3>2. q \in {records[i].qid, records[i].dqid} /\ q # NoQid
      BY <2>1, <3>1, LegAssumption DEF KeyLinked, Stored
    <3> QED  BY <3>1, <3>2 DEF RowLinked, Stored
  <2> HIDE DEF i, c
  <2>4. Captures(c, records, s.recs, i)
    BY <1>2, <2>1, <2>2, CapturedRows
  <2>5. CleanRows(c) /\ \A m \in 1 .. Len(c) : c[m].origin = Local
    BY <1>2, <2>1, <2>4, CapturedAreRows, SMTT(60)
  <2>6. ASSUME NEW m \in 1 .. Len(c) PROVE c[m] = s.recs[i]
    <3>1. ~\E j \in 1 .. Len(records) : ~records[j].subsumed /\ s.recs[j].subsumed
      BY <1>1, <1>2 DEF Enriched
    <3> QED  BY <2>4, <3>1 DEF Captures
  <2>7. s.recs[i].qid = records[i].qid
    BY <1>1, <1>2, <2>1 DEF Enriched
  <2> QED  BY <2>3, <2>5, <2>6, <2>7 DEF c
<1>4. CASE ~HasRow(q)
  <2>1. c = <<>> /\ <<>> \in Seq(Record) /\ Len(<<>>) = 0
    BY <1>4, EmptySeq DEF CapturedByVerdict
  <2> HIDE DEF c
  <2>2. CleanRows(c) /\ 1 .. Len(c) = {}
    BY <2>1 DEF CleanRows
  <2> QED  BY <2>2 DEF c
<1> QED  BY <1>3, <1>4
=============================================================================
