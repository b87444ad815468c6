---------------------------- MODULE SharedProofs ----------------------------
(***************************************************************************)
(* Lemmas that the proofs of several components rest on: about folds over  *)
(* sequences and the displays they compute, for every sequence of values,  *)
(* and about walks along a link, for every set of cells.                   *)
(***************************************************************************)
EXTENDS Chain, Display, FiniteSetTheorems, SequenceTheorems, TLAPS

\* Every set of naturals has a least one.
LEMMA LeastNatural ==
    ASSUME NEW T \in SUBSET Nat, T # {}
    PROVE  \E m \in T : \A n \in T : m <= n
<1> DEFINE R == {pair \in Nat \X Nat : pair[1] < pair[2]}
<1>1. IsWellFoundedOn(R, Nat)
  BY NatLessThanWellFounded DEF OpToRel
<1>2. ASSUME NEW m \in Nat, NEW n \in Nat, n < m PROVE <<n, m>> \in R
  BY <1>2
<1> HIDE DEF R
<1>3. PICK m \in T : \A n \in T : ~ (<<n, m>> \in R)
  BY <1>1, WFMin
<1>4. ASSUME NEW n \in T PROVE m <= n
  <2>1. ~ (n < m)
    BY <1>2, <1>3, Zenon
  <2> QED
    BY <2>1
<1> QED
  BY <1>3, <1>4

\* Induction up to n, over a set.
LEMMA UpToInduction ==
    ASSUME NEW n \in Nat, NEW T, 0 \in T, \A k \in 1 .. n : k - 1 \in T => k \in T
    PROVE  \A k \in 0 .. n : k \in T
<1> DEFINE B == {k \in 0 .. n : k \notin T}
<1>1. ASSUME B # {} PROVE FALSE
  <2>1. PICK m \in B : \A k \in B : m <= k
    <3>1. B \in SUBSET Nat
      OBVIOUS
    <3> HIDE DEF B
    <3> QED
      BY <1>1, <3>1, LeastNatural
  <2>2. m - 1 \in 0 .. n /\ ~ m <= m - 1 /\ m \in 1 .. n
    BY <2>1
  <2> QED
    BY <2>1, <2>2
<1> QED
  BY <1>1

\* The greatest of a set of numbers, as SequencesExt defines it
LEMMA MaxUpTo ==
    ASSUME NEW k \in Nat, k # 0, NEW T \in SUBSET (1 .. k), k \in T
    PROVE  SeqOps!Max(T) = k
<1>1. \A y \in T : k >= y
  OBVIOUS
<1>2. ASSUME NEW x \in T, \A y \in T : x >= y PROVE x = k
  BY <1>1, <1>2
<1> QED
  BY <1>1, <1>2 DEF SeqOps!Max

----------------------------------------------------------------------------
\* Folds from the left, as SequencesExt defines them

\* iter is what a fold from the left computes, for each set of places.
Folds(iter, n, base, step) ==
    \A T \in SUBSET (1 .. n) :
       iter[T] = IF T = {} THEN base
                 ELSE step[SeqOps!Max(T)][iter[T \ {SeqOps!Max(T)}]]

\* The same, as far as iter stays in A.
FoldsIn(iter, n, A, base, step) ==
    /\ iter[{}] = base
    /\ \A T \in SUBSET (1 .. n) :
          T # {} /\ iter[T \ {SeqOps!Max(T)}] \in A =>
             iter[T] = step[SeqOps!Max(T)][iter[T \ {SeqOps!Max(T)}]]

\* f[k] is what it has after k places.
StepsOf(f, n, base, step) ==
    /\ f[0] = base
    /\ \A k \in 1 .. n : f[k] = step[k][f[k - 1]]

\* A fold from the left exists, as a function of the places it goes over.
LEMMA FoldExists ==
    ASSUME NEW n \in Nat, NEW A, NEW base \in A, NEW step \in [1 .. n -> [A -> A]]
    PROVE  \E iter \in [SUBSET (1 .. n) -> A] : Folds(iter, n, base, step)
<1> DEFINE G == {k \in 0 .. n : \E iter \in [SUBSET (1 .. k) -> A] :
                                    Folds(iter, k, base, step)}
<1>1. 0 \in G
  <2> DEFINE iter == [T \in SUBSET (1 .. 0) |-> base]
  <2>1. iter \in [SUBSET (1 .. 0) -> A] /\ \A T \in SUBSET (1 .. 0) : T = {}
    OBVIOUS
  <2>2. Folds(iter, 0, base, step)
    BY <2>1 DEF Folds
  <2>3. 0 \in 0 .. n
    OBVIOUS
  <2> HIDE DEF iter
  <2>4. \E it \in [SUBSET (1 .. 0) -> A] : Folds(it, 0, base, step)
    BY <2>1, <2>2
  <2> QED
    BY <2>3, <2>4
<1>2. ASSUME NEW k \in 1 .. n, k - 1 \in G PROVE k \in G
  <2>1. PICK old \in [SUBSET (1 .. k - 1) -> A] : Folds(old, k - 1, base, step)
    BY <1>2
  <2> DEFINE new == [T \in SUBSET (1 .. k) |->
                       IF k \in T THEN step[k][old[T \ {k}]] ELSE old[T]]
  <2>2. \A T \in SUBSET (1 .. k) : /\ k \notin T => T \in SUBSET (1 .. k - 1)
                                   /\ T \ {k} \in SUBSET (1 .. k - 1)
    OBVIOUS
  <2>3. new \in [SUBSET (1 .. k) -> A]
    BY <2>2
  <2>4. ASSUME NEW T \in SUBSET (1 .. k)
        PROVE  new[T] = IF T = {} THEN base
                        ELSE step[SeqOps!Max(T)][new[T \ {SeqOps!Max(T)}]]
    <3>1. CASE k \in T
      <4>1. SeqOps!Max(T) = k
        BY <3>1, MaxUpTo
      <4>2. new[T \ {k}] = old[T \ {k}]
        BY <2>2
      <4> QED
        BY <3>1, <4>1, <4>2
    <3>2. CASE k \notin T
      <4>1. T \in SUBSET (1 .. k - 1) /\ T \ {SeqOps!Max(T)} \in SUBSET (1 .. k)
        BY <2>2, <3>2
      <4>2. /\ new[T] = old[T]
            /\ new[T \ {SeqOps!Max(T)}] = old[T \ {SeqOps!Max(T)}]
        BY <3>2, <4>1
      <4> QED
        BY <2>1, <4>1, <4>2 DEF Folds
    <3> QED
      BY <3>1, <3>2
  <2>5. Folds(new, k, base, step)
    BY <2>4 DEF Folds
  <2> HIDE DEF new
  <2> QED
    BY <2>3, <2>5
<1>3. n \in G
  <2>1. n \in 0 .. n
    OBVIOUS
  <2> HIDE DEF G
  <2>2. \A k \in 0 .. n : k \in G
    BY <1>1, <1>2, UpToInduction
  <2> QED
    BY <2>1, <2>2
<1> QED
  BY <1>3

LEMMA UpToPlaces ==
    ASSUME NEW k \in Nat, k # 0
    PROVE  /\ SeqOps!Max(1 .. k) = k /\ (1 .. k) \ {k} = 1 .. k - 1
           /\ 1 .. k # {}
<1>1. (1 .. k) \in SUBSET (1 .. k) /\ k \in 1 .. k
  OBVIOUS
<1>2. SeqOps!Max(1 .. k) = k
  BY <1>1, MaxUpTo
<1>3. (1 .. k) \ {k} = 1 .. k - 1
  OBVIOUS
<1> QED
  BY <1>1, <1>2, <1>3

LEMMA MaxIsIn ==
    ASSUME NEW n \in Nat, NEW T \in SUBSET (1 .. n), T # {}
    PROVE  SeqOps!Max(T) \in T
<1> DEFINE R == {n - x : x \in T}
<1>1. R \in SUBSET Nat /\ R # {}
  <2>1. \A x \in T : n - x \in Nat /\ n - x \in R
    OBVIOUS
  <2> QED
    BY <2>1
<1>2. PICK m \in R : \A y \in R : m <= y
  <2> HIDE DEF R
  <2> QED
    BY <1>1, LeastNatural
<1>3. PICK x \in T : m = n - x
  BY <1>2
<1>4. \A y \in T : n - y \in R
  OBVIOUS
<1>5. \A y \in T : x >= y
  BY <1>2, <1>3, <1>4
<1> QED
  BY <1>5 DEF SeqOps!Max

\* What a fold has after each place is a function of the place.
LEMMA FoldSteps ==
    ASSUME NEW n \in Nat, NEW A, NEW base \in A, NEW step \in [1 .. n -> [A -> A]],
           NEW iter, FoldsIn(iter, n, A, base, step)
    PROVE  \E f \in [0 .. n -> A] : StepsOf(f, n, base, step) /\ iter[1 .. n] = f[n]
<1> DEFINE f == [k \in 0 .. n |-> iter[1 .. k]]
           G == {k \in Nat : iter[1 .. k] \in A}
<1>1. 1 .. 0 = {}
  OBVIOUS
<1>2. ASSUME NEW k \in 1 .. n, iter[1 .. k - 1] \in A
      PROVE  iter[1 .. k] = step[k][iter[1 .. k - 1]] /\ iter[1 .. k] \in A
  <2>1. k \in Nat /\ k # 0 /\ 1 .. k \in SUBSET (1 .. n)
    OBVIOUS
  <2>2. SeqOps!Max(1 .. k) = k /\ (1 .. k) \ {k} = 1 .. k - 1 /\ 1 .. k # {}
    BY <2>1, UpToPlaces
  <2>3. iter[1 .. k] = step[k][iter[1 .. k - 1]]
    BY <1>2, <2>1, <2>2 DEF FoldsIn
  <2> QED
    BY <1>2, <2>3
<1>3. 0 \in G
  BY <1>1 DEF FoldsIn
<1>4. ASSUME NEW k \in 1 .. n, k - 1 \in G PROVE k \in G
  BY <1>2, <1>4
<1>5. \A k \in 0 .. n : k \in G
  <2> HIDE DEF G
  <2> QED
    BY <1>3, <1>4, UpToInduction
<1>6. f \in [0 .. n -> A]
  BY <1>5
<1>7. f[0] = base /\ iter[1 .. n] = f[n]
  BY <1>1 DEF FoldsIn
<1>8. ASSUME NEW k \in 1 .. n PROVE f[k] = step[k][f[k - 1]]
  <2>1. k - 1 \in 0 .. n /\ k \in 0 .. n
    OBVIOUS
  <2> QED
    BY <1>2, <1>5, <2>1
<1> HIDE DEF f
<1> QED
  BY <1>6, <1>7, <1>8 DEF StepsOf

\* A function on 1 .. n is a sequence.
LEMMA FunctionIsSeq ==
    ASSUME NEW C, NEW n \in Nat, NEW f \in [1 .. n -> C]
    PROVE  f \in Seq(C) /\ Len(f) = n
<1>1. f \in Seq(C)
  BY SeqDef
<1>2. DOMAIN f = 1 .. Len(f) /\ Len(f) \in Nat
  BY <1>1, LenProperties
<1> QED
  BY <1>1, <1>2

----------------------------------------------------------------------------
\* Displays

\* The characters of a text: what is shown of a value is the value itself.
Char(C) == C \cup {DELIMITER, COMMA}

LEMMA CharsIsSeq ==
    ASSUME NEW C, NEW v \in C, LengthOf(v) \in Nat
    PROVE  /\ CharsOf(v) \in Seq(Char(C)) /\ Len(CharsOf(v)) = LengthOf(v)
           /\ \A k \in 1 .. LengthOf(v) : CharsOf(v)[k] = v
<1>1. CharsOf(v) \in [1 .. LengthOf(v) -> Char(C)]
  BY DEF CharsOf, Char
<1>2. CharsOf(v) \in Seq(Char(C)) /\ Len(CharsOf(v)) = LengthOf(v)
  BY <1>1, FunctionIsSeq
<1> QED
  BY <1>2 DEF CharsOf

\* The loops of displays and lengths, round by round
LEMMA WrittenSteps ==
    ASSUME NEW C, NEW s \in Seq(C), \A v \in C : LengthOf(v) \in Nat
    PROVE  \E f \in [0 .. Len(s) -> Seq(Char(C))] :
              /\ f[0] = <<>>
              /\ \A k \in 1 .. Len(s) :
                    f[k] = f[k - 1] \o CharsOf(s[k]) \o <<DELIMITER>>
              /\ Written(s) = f[Len(s)]
<1> DEFINE n == Len(s)
           A == Seq(Char(C))
           none == <<>>
           step == [k \in 1 .. n |->
                      [x \in A |-> x \o CharsOf(s[k]) \o <<DELIMITER>>]]
           rest(iter, T) == iter[T \ {SeqOps!Max(T)}]
           top(T) == s[SeqOps!Max(T)]
           Fold(iter) == iter = [T \in SUBSET DOMAIN s |->
                IF T = {} THEN <<>>
                ELSE rest(iter, T) \o CharsOf(top(T)) \o <<DELIMITER>>]
<1>1. n \in Nat /\ DOMAIN s = 1 .. n /\ \A k \in 1 .. n : s[k] \in C
  BY LenProperties, ElementOfSeq
<1>2. none \in A /\ step \in [1 .. n -> [A -> A]]
  <2>1. ASSUME NEW k \in 1 .. n, NEW x \in A
        PROVE  x \o CharsOf(s[k]) \o <<DELIMITER>> \in A
    <3>1. CharsOf(s[k]) \in A
      BY <1>1, CharsIsSeq
    <3>2. <<DELIMITER>> \in A
      BY DEF Char
    <3> QED
      BY <3>1, <3>2, ConcatProperties
  <2> QED
    BY <2>1, EmptySeq
<1>3. \A T \in SUBSET (1 .. n) : T # {} => SeqOps!Max(T) \in T
  BY <1>1, MaxIsIn
<1>4. \E iter : Fold(iter)
  <2> HIDE DEF A
  <2>1. PICK iter \in [SUBSET (1 .. n) -> A] : Folds(iter, n, none, step)
    <3>1. n \in Nat
      BY <1>1
    <3> HIDE DEF step, n, none
    <3> QED
      BY <1>2, <3>1, FoldExists
  <2>2. \A T \in SUBSET (1 .. n) : T # {} =>
           iter[T] = rest(iter, T) \o CharsOf(top(T)) \o <<DELIMITER>>
    BY <1>3, <2>1 DEF Folds
  <2>3. Fold(iter)
    BY <1>1, <2>1, <2>2 DEF Folds
  <2> QED
    BY <2>3
<1> DEFINE it == CHOOSE iter : Fold(iter)
<1>5. Fold(it)
  <2> HIDE DEF Fold
  <2> QED
    BY <1>4
<1>6. Written(s) = it[1 .. n]
  BY <1>1 DEF Written, SeqOps!FoldLeft, SeqOps!MapThenFoldSet
<1> HIDE DEF it
<1>7. FoldsIn(it, n, A, none, step)
  BY <1>1, <1>3, <1>5 DEF FoldsIn
<1>8. PICK f \in [0 .. n -> A] : StepsOf(f, n, none, step) /\ it[1 .. n] = f[n]
  <2>1. n \in Nat
    BY <1>1
  <2> HIDE DEF step, n, A, Fold, none
  <2> QED
    BY <1>2, <1>7, <2>1, FoldSteps
<1>9. \A k \in 1 .. n : f[k] = f[k - 1] \o CharsOf(s[k]) \o <<DELIMITER>>
  <2>1. \A k \in 1 .. n : k - 1 \in 0 .. n
    BY <1>1
  <2>2. \A k \in 1 .. n : f[k - 1] \in A
    <3> HIDE DEF A, n
    <3> QED
      BY <1>8, <2>1
  <2> HIDE DEF A
  <2> QED
    BY <1>8, <2>2 DEF StepsOf
<1> QED
  BY <1>6, <1>8, <1>9 DEF StepsOf

LEMMA MeasuredSteps ==
    ASSUME NEW C, NEW s \in Seq(C), \A v \in C : LengthOf(v) \in Nat,
           NEW base \in Int
    PROVE  \E f \in [0 .. Len(s) -> Int] :
              /\ f[0] = base
              /\ \A k \in 1 .. Len(s) :
                    f[k] = f[k - 1] + LengthOf(s[k]) + 1
              /\ Measured(base, s) = f[Len(s)]
<1> DEFINE n == Len(s)
           A == Int
           none == base
           step == [k \in 1 .. n |->
                      [x \in A |-> x + LengthOf(s[k]) + 1]]
           rest(iter, T) == iter[T \ {SeqOps!Max(T)}]
           top(T) == s[SeqOps!Max(T)]
           Fold(iter) == iter = [T \in SUBSET DOMAIN s |->
                IF T = {} THEN base
                ELSE rest(iter, T) + LengthOf(top(T)) + 1]
<1>1. n \in Nat /\ DOMAIN s = 1 .. n /\ \A k \in 1 .. n : s[k] \in C
  BY LenProperties, ElementOfSeq
<1>2. none \in A /\ step \in [1 .. n -> [A -> A]]
  BY <1>1
<1>3. \A T \in SUBSET (1 .. n) : T # {} => SeqOps!Max(T) \in T
  BY <1>1, MaxIsIn
<1>4. \E iter : Fold(iter)
  <2> HIDE DEF A
  <2>1. PICK iter \in [SUBSET (1 .. n) -> A] : Folds(iter, n, none, step)
    <3>1. n \in Nat
      BY <1>1
    <3> HIDE DEF step, n, none
    <3> QED
      BY <1>2, <3>1, FoldExists
  <2>2. \A T \in SUBSET (1 .. n) : T # {} =>
           iter[T] = rest(iter, T) + LengthOf(top(T)) + 1
    BY <1>3, <2>1 DEF Folds
  <2>3. Fold(iter)
    BY <1>1, <2>1, <2>2 DEF Folds
  <2> QED
    BY <2>3
<1> DEFINE it == CHOOSE iter : Fold(iter)
<1>5. Fold(it)
  <2> HIDE DEF Fold
  <2> QED
    BY <1>4
<1>6. Measured(base, s) = it[1 .. n]
  BY <1>1 DEF Measured, SeqOps!FoldLeft, SeqOps!MapThenFoldSet
<1> HIDE DEF it
<1>7. FoldsIn(it, n, A, none, step)
  BY <1>1, <1>3, <1>5 DEF FoldsIn
<1>8. PICK f \in [0 .. n -> A] : StepsOf(f, n, none, step) /\ it[1 .. n] = f[n]
  <2>1. n \in Nat
    BY <1>1
  <2> HIDE DEF step, n, A, Fold, none
  <2> QED
    BY <1>2, <1>7, <2>1, FoldSteps
<1>9. \A k \in 1 .. n : f[k] = f[k - 1] + LengthOf(s[k]) + 1
  <2>1. \A k \in 1 .. n : k - 1 \in 0 .. n
    BY <1>1
  <2>2. \A k \in 1 .. n : f[k - 1] \in A
    <3> HIDE DEF A, n
    <3> QED
      BY <1>8, <2>1
  <2> HIDE DEF A
  <2> QED
    BY <1>8, <2>2 DEF StepsOf
<1> QED
  BY <1>6, <1>8, <1>9 DEF StepsOf

LEMMA LastLengthSteps ==
    ASSUME NEW C, NEW s \in Seq(C), \A v \in C : LengthOf(v) \in Nat
    PROVE  \E f \in [0 .. Len(s) -> Int] :
              /\ f[0] = 0
              /\ \A k \in 1 .. Len(s) :
                    f[k] = IF s[k] = NULL THEN f[k - 1] ELSE LengthOf(s[k])
              /\ LastLength(s) = f[Len(s)]
<1> DEFINE n == Len(s)
           A == Int
           none == 0
           step == [k \in 1 .. n |->
                      [x \in A |-> IF s[k] = NULL THEN x ELSE LengthOf(s[k])]]
           rest(iter, T) == iter[T \ {SeqOps!Max(T)}]
           top(T) == s[SeqOps!Max(T)]
           Fold(iter) == iter = [T \in SUBSET DOMAIN s |->
                IF T = {} THEN 0
                ELSE IF top(T) = NULL THEN rest(iter, T) ELSE LengthOf(top(T))]
<1>1. n \in Nat /\ DOMAIN s = 1 .. n /\ \A k \in 1 .. n : s[k] \in C
  BY LenProperties, ElementOfSeq
<1>2. none \in A /\ step \in [1 .. n -> [A -> A]]
  BY <1>1
<1>3. \A T \in SUBSET (1 .. n) : T # {} => SeqOps!Max(T) \in T
  BY <1>1, MaxIsIn
<1>4. \E iter : Fold(iter)
  <2> HIDE DEF A
  <2>1. PICK iter \in [SUBSET (1 .. n) -> A] : Folds(iter, n, none, step)
    <3>1. n \in Nat
      BY <1>1
    <3> HIDE DEF step, n, none
    <3> QED
      BY <1>2, <3>1, FoldExists
  <2>2. \A T \in SUBSET (1 .. n) : T # {} =>
           iter[T] = IF top(T) = NULL THEN rest(iter, T) ELSE LengthOf(top(T))
    BY <1>3, <2>1 DEF Folds
  <2>3. Fold(iter)
    BY <1>1, <2>1, <2>2 DEF Folds
  <2> QED
    BY <2>3
<1> DEFINE it == CHOOSE iter : Fold(iter)
<1>5. Fold(it)
  <2> HIDE DEF Fold
  <2> QED
    BY <1>4
<1>6. LastLength(s) = it[1 .. n]
  BY <1>1 DEF LastLength, SeqOps!FoldLeft, SeqOps!MapThenFoldSet
<1> HIDE DEF it
<1>7. FoldsIn(it, n, A, none, step)
  BY <1>1, <1>3, <1>5 DEF FoldsIn
<1>8. PICK f \in [0 .. n -> A] : StepsOf(f, n, none, step) /\ it[1 .. n] = f[n]
  <2>1. n \in Nat
    BY <1>1
  <2> HIDE DEF step, n, A, Fold, none
  <2> QED
    BY <1>2, <1>7, <2>1, FoldSteps
<1>9. \A k \in 1 .. n : f[k] = IF s[k] = NULL THEN f[k - 1] ELSE LengthOf(s[k])
  <2>1. \A k \in 1 .. n : k - 1 \in 0 .. n
    BY <1>1
  <2>2. \A k \in 1 .. n : f[k - 1] \in A
    <3> HIDE DEF A, n
    <3> QED
      BY <1>8, <2>1
  <2> HIDE DEF A
  <2> QED
    BY <1>8, <2>2 DEF StepsOf
<1> QED
  BY <1>6, <1>8, <1>9 DEF StepsOf

----------------------------------------------------------------------------
\* What is shown, and how often

\* Members of a concatenation
LEMMA OccurrencesConcat ==
    ASSUME NEW A, NEW x \in Seq(A), NEW y \in Seq(A), NEW D
    PROVE  /\ Occurrences(D, x) \in Nat /\ Occurrences(D, y) \in Nat
           /\ Occurrences(D, x \o y) = Occurrences(D, x) + Occurrences(D, y)
<1> DEFINE m == Len(x)
           X == {k \in 1 .. m : x[k] \in D}
           Y == {k \in 1 .. Len(y) : y[k] \in D}
           Z == {m + k : k \in Y}
           shift == [k \in Y |-> m + k]
<1>1. /\ m \in Nat /\ DOMAIN x = 1 .. m /\ Len(y) \in Nat /\ DOMAIN y = 1 .. Len(y)
      /\ Len(x \o y) = m + Len(y) /\ DOMAIN (x \o y) = 1 .. m + Len(y)
      /\ \A k \in 1 .. m + Len(y) :
            (x \o y)[k] = IF k <= m THEN x[k] ELSE y[k - m]
  BY LenProperties, ConcatProperties
<1>2. /\ IsFiniteSet(X) /\ Cardinality(X) \in Nat
      /\ IsFiniteSet(Y) /\ Cardinality(Y) \in Nat
  <2>1. IsFiniteSet(1 .. m) /\ IsFiniteSet(1 .. Len(y))
    BY <1>1, FS_Interval
  <2>2. X \in SUBSET (1 .. m) /\ Y \in SUBSET (1 .. Len(y))
    OBVIOUS
  <2> QED
    BY <2>1, <2>2, FS_Subset, FS_CardinalityType
<1>3. {k \in 1 .. m + Len(y) : (x \o y)[k] \in D} = X \cup Z /\ X \cap Z = {}
  <2>1. ASSUME NEW k \in 1 .. m + Len(y), (x \o y)[k] \in D PROVE k \in X \cup Z
    <3>1. CASE k <= m
      BY <1>1, <2>1, <3>1
    <3>2. CASE ~ k <= m
      <4>1. k - m \in Y /\ k = m + (k - m)
        BY <1>1, <2>1, <3>2
      <4> QED
        BY <4>1
    <3> QED
      BY <3>1, <3>2
  <2>2. \A k \in X : k \in 1 .. m + Len(y) /\ (x \o y)[k] \in D
    BY <1>1
  <2>3. \A k \in Y : m + k \in 1 .. m + Len(y) /\ (x \o y)[m + k] \in D
                      /\ m + k \notin X
    BY <1>1
  <2> QED
    BY <2>1, <2>2, <2>3
<1>4. /\ shift \in [Y -> Z] /\ (\A z \in Z : \E k \in Y : shift[k] = z)
      /\ \A j, k \in Y : shift[j] = shift[k] => j = k
  BY <1>1
<1>5. shift \in Surjection(Y, Z) /\ shift \in Injection(Y, Z)
  <2> HIDE DEF shift, Y, Z
  <2> QED
    BY <1>4 DEF Surjection, Injection, IsInjective
<1>6. IsFiniteSet(Z) /\ Cardinality(Z) = Cardinality(Y)
  <2> HIDE DEF shift, Y, Z
  <2> QED
    BY <1>2, <1>5, FS_Surjection
<1>7. Cardinality(X \cup Z) = Cardinality(X) + Cardinality(Z)
  <2>1. Cardinality(X \cup Z) = Cardinality(X) + Cardinality(Z) - Cardinality(X \cap Z)
    <3> HIDE DEF X, Z
    <3> QED
      BY <1>2, <1>6, FS_Union
  <2>2. Cardinality(X \cap Z) = 0
    BY <1>3, FS_EmptySet
  <2> HIDE DEF X, Y, Z
  <2> QED
    BY <1>2, <1>6, <2>1, <2>2
<1>8. /\ Occurrences(D, x) = Cardinality(X) /\ Occurrences(D, y) = Cardinality(Y)
      /\ Occurrences(D, x \o y) = Cardinality(X \cup Z)
  <2>1. Occurrences(D, x \o y) =
           Cardinality({k \in 1 .. m + Len(y) : (x \o y)[k] \in D})
    BY <1>1 DEF Occurrences
  <2> QED
    BY <1>1, <1>3, <2>1 DEF Occurrences
<1> HIDE DEF X, Y, Z
<1> QED
  BY <1>2, <1>6, <1>7, <1>8

LEMMA OccurrencesSame ==
    ASSUME NEW A, NEW x \in Seq(A), NEW D
    PROVE  /\ (\A k \in 1 .. Len(x) : x[k] \in D) => Occurrences(D, x) = Len(x)
           /\ (\A k \in 1 .. Len(x) : x[k] \notin D) => Occurrences(D, x) = 0
<1>1. Len(x) \in Nat /\ DOMAIN x = 1 .. Len(x)
  BY LenProperties
<1>2. ASSUME \A k \in 1 .. Len(x) : x[k] \in D PROVE Occurrences(D, x) = Len(x)
  <2>1. {k \in DOMAIN x : x[k] \in D} = 1 .. Len(x)
    BY <1>1, <1>2
  <2>2. Cardinality(1 .. Len(x)) = Len(x)
    <3>1. Cardinality(1 .. Len(x)) = IF 1 > Len(x) THEN 0 ELSE Len(x) - 1 + 1
      BY <1>1, 1 \in Int, Len(x) \in Int, FS_Interval, Zenon
    <3> QED
      BY <1>1, <3>1
  <2> QED
    BY <2>1, <2>2 DEF Occurrences
<1>3. ASSUME \A k \in 1 .. Len(x) : x[k] \notin D PROVE Occurrences(D, x) = 0
  <2>1. {k \in DOMAIN x : x[k] \in D} = {}
    BY <1>1, <1>3
  <2> QED
    BY <2>1, FS_EmptySet DEF Occurrences
<1> QED
  BY <1>2, <1>3

\* The values of C can be displayed.
Displayable(C) ==
    /\ e_length # NULL /\ e_display # NULL
    /\ \A v \in C : v # NULL => v \in DOMAIN e_length

Separators == {DELIMITER, COMMA}

LEMMA LengthOfFacts ==
    ASSUME NEW C, Displayable(C)
    PROVE  /\ \A v \in C : LengthOf(v) \in Nat
           /\ \A v \in DOMAIN e_length : LengthOf(v) \in Nat /\ v \notin Separators
           /\ \A v \in C : v = NULL => LengthOf(v) = 0
           /\ \A v \in C : v # NULL => v \in DOMAIN e_length
BY DisplayAssumption DEF Displayable, LengthOf, Separators

LEMMA CharsShow ==
    ASSUME NEW C, Displayable(C), NEW S \in SUBSET Separators, NEW w \in C
    PROVE  /\ Occurrences(S, CharsOf(w)) = 0
           /\ \A v \in DOMAIN e_length :
                 Occurrences({v}, CharsOf(w)) = IF w = v THEN LengthOf(v) ELSE 0
<1>1. LengthOf(w) \in Nat /\ (w = NULL => LengthOf(w) = 0)
      /\ (w # NULL => w \in DOMAIN e_length)
      /\ \A u \in DOMAIN e_length : u \notin Separators /\ LengthOf(u) \in Nat
  BY LengthOfFacts
<1>2. /\ CharsOf(w) \in Seq(Char(C)) /\ Len(CharsOf(w)) = LengthOf(w)
      /\ \A k \in 1 .. LengthOf(w) : CharsOf(w)[k] = w
  BY <1>1, CharsIsSeq
<1>3. ASSUME NEW v \in DOMAIN e_length
      PROVE  Occurrences({v}, CharsOf(w)) = IF w = v THEN LengthOf(v) ELSE 0
  BY <1>1, <1>2, OccurrencesSame
<1>4. Occurrences(S, CharsOf(w)) = 0
  BY <1>1, <1>2, OccurrencesSame
<1> QED
  BY <1>3, <1>4

\* A separator alone
LEMMA SeparatorShows ==
    ASSUME NEW C, Displayable(C), NEW S \in SUBSET Separators, NEW c \in S
    PROVE  /\ <<c>> \in Seq(Char(C)) /\ Len(<<c>>) = 1
           /\ Occurrences(S, <<c>>) = 1
           /\ \A v \in DOMAIN e_length : Occurrences({v}, <<c>>) = 0
<1> DEFINE end == <<c>>
<1>1. end \in Seq(Char(C)) /\ Len(end) = 1 /\ \A k \in 1 .. Len(end) : end[k] = c
  BY DEF Char, Separators
<1>2. \A v \in DOMAIN e_length : c \notin {v}
  BY LengthOfFacts
<1>3. /\ \A k \in 1 .. Len(end) : end[k] \in S
      /\ \A v \in DOMAIN e_length : \A k \in 1 .. Len(end) : end[k] \notin {v}
  BY <1>1, <1>2
<1> HIDE DEF end
<1>4. /\ Occurrences(S, end) = 1
      /\ \A v \in DOMAIN e_length : Occurrences({v}, end) = 0
  BY <1>1, <1>3, OccurrencesSame
<1> QED
  BY <1>1, <1>4 DEF end

\* A round of the loop of a display writes w behind x, which gives y.
Round(C, S, x, w, y) ==
    /\ SeqOps!Front(y) \in Seq(Char(C))
    /\ Len(y) = Len(x) + LengthOf(w) + 1
    /\ Len(SeqOps!Front(y)) = Len(x) + LengthOf(w)
    /\ \A v \in DOMAIN e_length :
          /\ Occurrences({v}, y)
               = Occurrences({v}, x) + IF w = v THEN LengthOf(v) ELSE 0
          /\ Occurrences({v}, SeqOps!Front(y)) = Occurrences({v}, y)
    /\ Occurrences(S, y) = Occurrences(S, x) + 1
    /\ Occurrences(S, SeqOps!Front(y)) = Occurrences(S, x)
    /\ Occurrences(S, x) \in Nat

LEMMA RoundShows ==
    ASSUME NEW C, Displayable(C), NEW S \in SUBSET Separators, DELIMITER \in S,
           NEW x \in Seq(Char(C)), NEW w \in C,
           NEW y, y = x \o CharsOf(w) \o <<DELIMITER>>
    PROVE  Round(C, S, x, w, y)
<1> DEFINE end == <<DELIMITER>>
           z == x \o CharsOf(w)
<1>0. y = z \o end
  OBVIOUS
<1>1. /\ CharsOf(w) \in Seq(Char(C)) /\ Len(CharsOf(w)) = LengthOf(w)
      /\ LengthOf(w) \in Nat
  BY LengthOfFacts, CharsIsSeq
<1>2. /\ end \in Seq(Char(C)) /\ Len(end) = 1
      /\ Occurrences(S, end) = 1
      /\ \A v \in DOMAIN e_length : Occurrences({v}, end) = 0
  BY SeparatorShows
<1>3. /\ Occurrences(S, CharsOf(w)) = 0
      /\ \A v \in DOMAIN e_length :
            /\ Occurrences({v}, CharsOf(w)) = IF w = v THEN LengthOf(v) ELSE 0
            /\ LengthOf(v) \in Nat
  BY CharsShow, LengthOfFacts
<1> HIDE DEF end
<1>5. /\ z \in Seq(Char(C)) /\ Len(z) = Len(x) + LengthOf(w)
      /\ y \in Seq(Char(C)) /\ Len(y) = Len(z) + 1
      /\ \A k \in 1 .. Len(z) : y[k] = z[k]
      /\ Len(x) \in Nat /\ Len(z) \in Nat
  <2>1. z \in Seq(Char(C)) /\ Len(z) = Len(x) + LengthOf(w) /\ Len(x) \in Nat
    BY <1>1, ConcatProperties, LenProperties
  <2> HIDE DEF z
  <2>2. /\ y \in Seq(Char(C)) /\ Len(y) = Len(z) + Len(end)
        /\ \A k \in 1 .. Len(z) + Len(end) :
              y[k] = IF k <= Len(z) THEN z[k] ELSE end[k - Len(z)]
    <3>1. /\ z \o end \in Seq(Char(C)) /\ Len(z \o end) = Len(z) + Len(end)
          /\ \A k \in 1 .. Len(z) + Len(end) :
                (z \o end)[k] = IF k <= Len(z) THEN z[k] ELSE end[k - Len(z)]
      BY <1>2, <2>1, ConcatProperties
    <3> QED
      BY <1>0, <3>1, Zenon
  <2>3. Len(z) \in Nat
    BY <1>1, <2>1
  <2>4. /\ Len(y) = Len(z) + 1
        /\ \A k \in 1 .. Len(z) : k \in 1 .. Len(z) + Len(end) /\ k <= Len(z)
    BY <1>2, <2>2, <2>3
  <2> QED
    BY <2>1, <2>2, <2>3, <2>4
<1>6. SeqOps!Front(y) = z
  <2>1. Len(y) - 1 = Len(z) /\ \A k \in 1 .. Len(z) : y[k] \in Char(C)
    BY <1>5, ElementOfSeq
  <2> HIDE DEF z
  <2>2. 1 \in Int /\ Len(z) \in Int
    BY <1>5
  <2>3. /\ Len(z) - 1 + 1 = Len(z)
        /\ (IF 1 <= Len(z) THEN Len(z) - 1 + 1 ELSE 0) = Len(z)
        /\ \A k \in 1 .. Len(z) : 1 + k - 1 = k
    BY <1>5
  <2>4. /\ SubSeq(y, 1, Len(z)) \in Seq(Char(C))
        /\ Len(SubSeq(y, 1, Len(z))) = IF 1 <= Len(z) THEN Len(z) - 1 + 1 ELSE 0
        /\ \A k \in 1 .. Len(z) - 1 + 1 : SubSeq(y, 1, Len(z))[k] = y[1 + k - 1]
    BY <1>5, <2>1, <2>2, SubSeqProperties
  <2>6. /\ Len(SubSeq(y, 1, Len(z))) = Len(z)
        /\ \A k \in 1 .. Len(z) : SubSeq(y, 1, Len(z))[k] = z[k]
    BY <1>5, <2>3, <2>4
  <2>5. SubSeq(y, 1, Len(z)) = z
    BY <1>5, <2>4, <2>6, SeqEqual
  <2> QED
    BY <2>1, <2>5 DEF SeqOps!Front
<1>7. \A D : /\ Occurrences(D, x) \in Nat
             /\ Occurrences(D, z) = Occurrences(D, x) + Occurrences(D, CharsOf(w))
  BY <1>1, OccurrencesConcat
<1>8. \A D : /\ Occurrences(D, z) \in Nat
             /\ Occurrences(D, y) = Occurrences(D, z) + Occurrences(D, end)
  <2> HIDE DEF z
  <2>1. \A D : /\ Occurrences(D, z) \in Nat
               /\ Occurrences(D, z \o end) = Occurrences(D, z) + Occurrences(D, end)
    BY <1>2, <1>5, OccurrencesConcat
  <2> QED
    BY <1>0, <2>1, Zenon
<1> HIDE DEF z
<1>9. \A v \in DOMAIN e_length :
         /\ Occurrences({v}, y) = Occurrences({v}, x)
                                    + IF w = v THEN LengthOf(v) ELSE 0
         /\ Occurrences({v}, z) = Occurrences({v}, y)
         /\ Occurrences({v}, x) \in Nat
  <2> TAKE v \in DOMAIN e_length
  <2>1. /\ Occurrences({v}, x) \in Nat /\ Occurrences({v}, z) \in Nat
        /\ Occurrences({v}, z) = Occurrences({v}, x) + Occurrences({v}, CharsOf(w))
        /\ Occurrences({v}, y) = Occurrences({v}, z) + Occurrences({v}, end)
    BY <1>7, <1>8
  <2>2. /\ Occurrences({v}, end) = 0 /\ LengthOf(v) \in Nat
        /\ Occurrences({v}, CharsOf(w)) = IF w = v THEN LengthOf(v) ELSE 0
    BY <1>2, <1>3
  <2> QED
    BY <2>1, <2>2
<1>10. /\ Occurrences(S, y) = Occurrences(S, x) + 1
       /\ Occurrences(S, z) = Occurrences(S, x)
       /\ Occurrences(S, x) \in Nat
  BY <1>2, <1>3, <1>7, <1>8
<1>11. Len(y) = Len(x) + LengthOf(w) + 1
  BY <1>1, <1>5
<1> QED
  BY <1>5, <1>6, <1>9, <1>10, <1>11 DEF Round

\* How often v is among the first k
FirstCount(s, v, k) == Cardinality({j \in 1 .. k : s[j] = v})

LEMMA FirstCounts ==
    ASSUME NEW C, NEW s \in Seq(C), NEW v
    PROVE  /\ FirstCount(s, v, 0) = 0
           /\ Occurrences({v}, s) = FirstCount(s, v, Len(s))
           /\ \A k \in 1 .. Len(s) :
                 /\ FirstCount(s, v, k - 1) \in Nat
                 /\ FirstCount(s, v, k)
                      = FirstCount(s, v, k - 1) + IF s[k] = v THEN 1 ELSE 0
<1> DEFINE U(k) == {j \in 1 .. k : s[j] = v}
<1>1. Len(s) \in Nat /\ DOMAIN s = 1 .. Len(s)
  BY LenProperties
<1>2. U(0) = {} /\ Cardinality({}) = 0
  BY FS_EmptySet
<1>3. Occurrences({v}, s) = FirstCount(s, v, Len(s))
  BY <1>1 DEF Occurrences, FirstCount
<1>4. ASSUME NEW k \in 1 .. Len(s)
      PROVE  /\ Cardinality(U(k - 1)) \in Nat
             /\ Cardinality(U(k)) = Cardinality(U(k - 1)) + IF s[k] = v THEN 1 ELSE 0
  <2>1. IsFiniteSet(U(k - 1)) /\ Cardinality(U(k - 1)) \in Nat
    <3>1. IsFiniteSet(1 .. k - 1)
      BY <1>1, FS_Interval
    <3>2. U(k - 1) \in SUBSET (1 .. k - 1)
      OBVIOUS
    <3> HIDE DEF U
    <3> QED
      BY <3>1, <3>2, FS_Subset, FS_CardinalityType
  <2>2. /\ U(k) = IF s[k] = v THEN U(k - 1) \cup {k} ELSE U(k - 1)
        /\ k \notin U(k - 1)
    BY <1>1
  <2> HIDE DEF U
  <2>3. Cardinality(U(k - 1) \cup {k}) = Cardinality(U(k - 1)) + 1
    BY <2>1, <2>2, FS_AddElement
  <2> QED
    BY <2>1, <2>2, <2>3
<1> QED
  BY <1>2, <1>3, <1>4 DEF FirstCount

LEMMA TimesNext ==
    ASSUME NEW l \in Nat, NEW c \in Nat, NEW d \in {0, 1}
    PROVE  l * (c + d) = l * c + IF d = 1 THEN l ELSE 0
<1>1. CASE d = 0
  BY <1>1
<1>2. CASE d = 1
  BY <1>2
<1> QED
  BY <1>1, <1>2

\* After each round what is written shows the values so far, with a separator
\* behind each of them, and has the length counted so far.
LEMMA WrittenShows ==
    ASSUME NEW C, Displayable(C), NEW S \in SUBSET Separators, DELIMITER \in S,
           NEW s \in Seq(C), s # <<>>
    PROVE  LET w == SeqOps!Front(Written(s))
           IN  Shows(w, s, S) /\ w \in Seq(Char(C)) /\ Len(w) = Measured(0, s) - 1
<1> DEFINE n == Len(s)
<1>1. \A v \in C : LengthOf(v) \in Nat
  BY LengthOfFacts
<1>2. n \in Nat /\ n # 0 /\ \A k \in 1 .. n : s[k] \in C
  BY LenProperties, ElementOfSeq, EmptySeq
<1>3. PICK f \in [0 .. n -> Seq(Char(C))] :
         /\ f[0] = <<>>
         /\ \A k \in 1 .. n : f[k] = f[k - 1] \o CharsOf(s[k]) \o <<DELIMITER>>
         /\ Written(s) = f[n]
  BY <1>1, WrittenSteps
<1>4. PICK g \in [0 .. n -> Int] :
         /\ g[0] = 0
         /\ \A k \in 1 .. n : g[k] = g[k - 1] + LengthOf(s[k]) + 1
         /\ Measured(0, s) = g[n]
  BY <1>1, 0 \in Int, MeasuredSteps, Zenon
<1> DEFINE Right(k) == /\ Len(f[k]) = g[k] /\ Occurrences(S, f[k]) = k
                       /\ \A v \in DOMAIN e_length :
                             Occurrences({v}, f[k]) = LengthOf(v) * FirstCount(s, v, k)
           G == {k \in Nat : Right(k)}
<1> HIDE DEF n
<1>5. \A v \in DOMAIN e_length : LengthOf(v) \in Nat
  BY LengthOfFacts
<1>6. \A v : /\ FirstCount(s, v, 0) = 0
             /\ Occurrences({v}, s) = FirstCount(s, v, n)
             /\ \A k \in 1 .. n :
                   /\ FirstCount(s, v, k - 1) \in Nat
                   /\ FirstCount(s, v, k)
                        = FirstCount(s, v, k - 1) + IF s[k] = v THEN 1 ELSE 0
  BY FirstCounts DEF n
<1>7. 0 \in G
  <2>1. <<>> \in Seq(Char(C)) /\ Len(<<>>) = 0
    BY EmptySeq
  <2>2. \A D : Occurrences(D, <<>>) = 0
    BY <2>1, FS_EmptySet DEF Occurrences
  <2>3. \A v \in DOMAIN e_length : LengthOf(v) * FirstCount(s, v, 0) = 0
    BY <1>5, <1>6
  <2> QED
    BY <1>3, <1>4, <2>1, <2>2, <2>3
<1>8. ASSUME NEW k \in 1 .. n
      PROVE  /\ k - 1 \in 0 .. n /\ Round(C, S, f[k - 1], s[k], f[k])
             /\ Len(f[k - 1]) \in Nat /\ LengthOf(s[k]) \in Nat
  <2>1. k - 1 \in 0 .. n /\ s[k] \in C
    BY <1>2
  <2>2. f[k - 1] \in Seq(Char(C))
    BY <1>3, <2>1
  <2>3. f[k] = f[k - 1] \o CharsOf(s[k]) \o <<DELIMITER>>
    BY <1>3
  <2>4. Len(f[k - 1]) \in Nat /\ LengthOf(s[k]) \in Nat
    BY <1>1, <2>1, <2>2, LenProperties
  <2> QED
    BY <2>1, <2>2, <2>3, <2>4, RoundShows
<1>9. ASSUME NEW k \in 1 .. n, k - 1 \in G PROVE k \in G
  <2>1. k \in Nat /\ k = (k - 1) + 1
    BY <1>2
  <2>2. Len(f[k]) = g[k]
    BY <1>4, <1>8, <1>9 DEF Round
  <2>3. Occurrences(S, f[k]) = k
    BY <1>8, <1>9, <2>1 DEF Round
  <2>4. ASSUME NEW v \in DOMAIN e_length
        PROVE  Occurrences({v}, f[k]) = LengthOf(v) * FirstCount(s, v, k)
    <3>1. LengthOf(v) * FirstCount(s, v, k)
            = LengthOf(v) * FirstCount(s, v, k - 1)
                + IF s[k] = v THEN LengthOf(v) ELSE 0
      <4>1. /\ LengthOf(v) \in Nat /\ FirstCount(s, v, k - 1) \in Nat
            /\ FirstCount(s, v, k)
                 = FirstCount(s, v, k - 1) + IF s[k] = v THEN 1 ELSE 0
        BY <1>5, <1>6
      <4>2. PICK d \in {0, 1} : d = IF s[k] = v THEN 1 ELSE 0
        OBVIOUS
      <4>3. LengthOf(v) * (FirstCount(s, v, k - 1) + d)
              = LengthOf(v) * FirstCount(s, v, k - 1) + IF d = 1 THEN LengthOf(v) ELSE 0
        BY <4>1, TimesNext
      <4> QED
        BY <4>1, <4>2, <4>3
    <3>2. Occurrences({v}, f[k - 1]) = LengthOf(v) * FirstCount(s, v, k - 1)
      BY <1>9
    <3> QED
      BY <1>8, <3>1, <3>2 DEF Round
  <2> QED
    BY <2>1, <2>2, <2>3, <2>4
<1>10. \A k \in 0 .. n : k \in G
  <2> HIDE DEF G
  <2> QED
    BY <1>2, <1>7, <1>9, UpToInduction
<1>11. n \in 1 .. n /\ n \in 0 .. n /\ n - 1 \in 0 .. n
  BY <1>2
<1> DEFINE w == SeqOps!Front(Written(s))
<1>12. w \in Seq(Char(C)) /\ Len(w) = Measured(0, s) - 1
  <2>1. Len(f[n]) = g[n] /\ w = SeqOps!Front(f[n])
    BY <1>3, <1>10, <1>11
  <2>2. /\ SeqOps!Front(f[n]) \in Seq(Char(C))
        /\ Len(SeqOps!Front(f[n])) = Len(f[n]) - 1
    <3> DEFINE a == Len(f[n - 1])
               b == LengthOf(s[n])
    <3>1. /\ SeqOps!Front(f[n]) \in Seq(Char(C)) /\ a \in Nat /\ b \in Nat
          /\ Len(SeqOps!Front(f[n])) = a + b /\ Len(f[n]) = a + b + 1
      BY <1>8, <1>11 DEF Round
    <3> HIDE DEF a, b
    <3> QED
      BY <3>1
  <2> QED
    BY <1>4, <2>1, <2>2
<1>13. Shows(w, s, S)
  <2>1. Occurrences(S, w) = n - 1
    BY <1>3, <1>8, <1>10, <1>11 DEF Round
  <2>2. ASSUME NEW v \in DOMAIN e_length
        PROVE  Occurrences({v}, w) = LengthOf(v) * Occurrences({v}, s)
    <3>1. Occurrences({v}, f[n]) = LengthOf(v) * FirstCount(s, v, n)
      BY <1>10, <1>11
    <3> QED
      BY <1>3, <1>6, <1>8, <1>11, <3>1 DEF Round
  <2> QED
    BY <2>1, <2>2 DEF Shows, n
<1> QED
  BY <1>12, <1>13

\* vanessa_dynamic_array_length begins its count with the delimiters.
LEMMA MeasuredFrom ==
    ASSUME NEW C, NEW s \in Seq(C), \A v \in C : LengthOf(v) \in Nat, NEW base \in Int
    PROVE  Measured(base, s) = base + Measured(0, s) /\ Measured(0, s) \in Int
<1> DEFINE n == Len(s)
<1>1. n \in Nat /\ \A k \in 1 .. n : s[k] \in C
  BY LenProperties, ElementOfSeq
<1>2. PICK f \in [0 .. n -> Int] :
         /\ f[0] = base
         /\ \A k \in 1 .. n : f[k] = f[k - 1] + LengthOf(s[k]) + 1
         /\ Measured(base, s) = f[n]
  BY MeasuredSteps
<1>3. PICK g \in [0 .. n -> Int] :
         /\ g[0] = 0
         /\ \A k \in 1 .. n : g[k] = g[k - 1] + LengthOf(s[k]) + 1
         /\ Measured(0, s) = g[n]
  BY 0 \in Int, MeasuredSteps, Zenon
<1> DEFINE G == {k \in Nat : f[k] = base + g[k]}
<1> HIDE DEF n
<1>4. 0 \in G
  BY <1>2, <1>3
<1>5. ASSUME NEW k \in 1 .. n, k - 1 \in G PROVE k \in G
  <2>1. k \in Nat /\ k - 1 \in 0 .. n /\ LengthOf(s[k]) \in Nat
    BY <1>1
  <2>2. f[k - 1] \in Int /\ g[k - 1] \in Int
    BY <1>2, <1>3, <2>1
  <2> QED
    BY <1>2, <1>3, <1>5, <2>1, <2>2
<1>6. \A k \in 0 .. n : k \in G
  <2> HIDE DEF G
  <2> QED
    BY <1>1, <1>4, <1>5, UpToInduction
<1>7. n \in 0 .. n
  BY <1>1
<1> QED
  BY <1>2, <1>3, <1>6, <1>7

\* Apart from the delimiters a list writes no separator.
LEMMA NoComma ==
    ASSUME NEW C, NEW x \in Seq(C), DELIMITER # COMMA,
           Occurrences(Separators, x) = Occurrences({DELIMITER}, x)
    PROVE  Occurrences({COMMA}, x) = 0
<1> DEFINE At(c) == {k \in DOMAIN x : x[k] \in {c}}
<1>1. Len(x) \in Nat /\ DOMAIN x = 1 .. Len(x)
  BY LenProperties
<1>2. \A c : IsFiniteSet(At(c)) /\ Cardinality(At(c)) \in Nat
  <2> TAKE c
  <2>1. At(c) \in SUBSET (1 .. Len(x)) /\ IsFiniteSet(1 .. Len(x))
    BY <1>1, FS_Interval
  <2> HIDE DEF At
  <2> QED
    BY <2>1, FS_Subset, FS_CardinalityType
<1>3. /\ {k \in DOMAIN x : x[k] \in Separators} = At(DELIMITER) \cup At(COMMA)
      /\ At(DELIMITER) \cap At(COMMA) = {}
  BY DEF Separators
<1>4. /\ Occurrences({DELIMITER}, x) = Cardinality(At(DELIMITER))
      /\ Occurrences({COMMA}, x) = Cardinality(At(COMMA))
      /\ Occurrences(Separators, x) = Cardinality(At(DELIMITER) \cup At(COMMA))
  BY <1>3 DEF Occurrences
<1> HIDE DEF At
<1>5. Cardinality(At(DELIMITER) \cup At(COMMA))
        = Cardinality(At(DELIMITER)) + Cardinality(At(COMMA))
  <2>1. Cardinality(At(DELIMITER) \cup At(COMMA))
          = Cardinality(At(DELIMITER)) + Cardinality(At(COMMA))
              - Cardinality(At(DELIMITER) \cap At(COMMA))
    BY <1>2, FS_Union
  <2>2. Cardinality(At(DELIMITER) \cap At(COMMA)) = 0
    BY <1>3, FS_EmptySet
  <2> QED
    BY <1>2, <2>1, <2>2
<1> QED
  BY <1>2, <1>4, <1>5

\* An empty list has no last text.
LEMMA ListShown ==
    ASSUME NEW C, Displayable(C), NEW s \in Seq(C), LastLength(s) # 0
    PROVE  /\ Shows(ListDisplay(s), s, {DELIMITER}) /\ s # <<>>
           /\ Shows(ListDisplay(s), s, Separators)
           /\ DELIMITER # COMMA => Occurrences({COMMA}, ListDisplay(s)) = 0
           /\ Len(ListDisplay(s)) = ListLength(s)
           /\ ListDisplay(s) = SeqOps!Front(Written(s))
           /\ ListDisplay(s) \in Seq(Char(C))
<1>1. \A v \in C : LengthOf(v) \in Nat
  BY LengthOfFacts
<1>2. s # <<>>
  BY <1>1, LastLengthSteps, EmptySeq
<1>3. /\ {DELIMITER} \in SUBSET Separators /\ Separators \in SUBSET Separators
      /\ DELIMITER \in {DELIMITER} /\ DELIMITER \in Separators
  BY DEF Separators
<1>4. ListDisplay(s) = SeqOps!Front(Written(s)) /\ ListLength(s) = Measured(0, s) - 1
  BY <1>2 DEF ListDisplay, ListLength, Displayable
<1>5. /\ Shows(ListDisplay(s), s, {DELIMITER}) /\ Shows(ListDisplay(s), s, Separators)
      /\ Len(ListDisplay(s)) = ListLength(s) /\ ListDisplay(s) \in Seq(Char(C))
  BY <1>2, <1>3, <1>4, WrittenShows
<1>6. DELIMITER # COMMA => Occurrences({COMMA}, ListDisplay(s)) = 0
  BY <1>5, NoComma DEF Shows
<1> QED
  BY <1>2, <1>4, <1>5, <1>6

LEMMA ArrayShown ==
    ASSUME NEW C, Displayable(C), NEW s \in Seq(C), s # <<>>
    PROVE  /\ Shows(ArrayDisplay(s), s, {DELIMITER})
           /\ Len(ArrayDisplay(s)) <= ArrayLength(s)
<1>1. \A v \in C : LengthOf(v) \in Nat
  BY LengthOfFacts
<1>2. Len(s) \in Nat /\ Len(s) # 0
  BY LenProperties, EmptySeq
<1>3. /\ Measured(0, s) \in Int
      /\ Measured(Len(s) - 1, s) = (Len(s) - 1) + Measured(0, s)
  BY <1>1, <1>2, MeasuredFrom
<1>4. e_length # NULL /\ e_display # NULL
  BY DEF Displayable
<1>5. ArrayDisplay(s) = SeqOps!Front(Written(s))
  BY <1>4 DEF ArrayDisplay
<1>6. Shows(ArrayDisplay(s), s, {DELIMITER}) /\ Len(ArrayDisplay(s)) = Measured(0, s) - 1
  <2>1. {DELIMITER} \in SUBSET Separators /\ DELIMITER \in {DELIMITER}
    BY DEF Separators
  <2> QED
    BY <1>5, <2>1, WrittenShows
<1>7. ArrayLength(s) = Measured(Len(s) - 1, s) - 1
  BY <1>4 DEF ArrayLength
<1> QED
  BY <1>2, <1>3, <1>6, <1>7

\* What a list shows has as many places as were counted, and a list of which the
\* last text is not empty shows something.
LEMMA ListShowsSomething ==
    ASSUME NEW C, Displayable(C), NEW s \in Seq(C), LastLength(s) # 0
    PROVE  /\ ListDisplay(s) \in Seq(Char(C)) /\ ListDisplay(s) # <<>>
           /\ ListLength(s) \in Nat
<1> DEFINE n == Len(s)
<1>1. /\ \A v \in C : LengthOf(v) \in Nat
      /\ \A v \in C : v # NULL => v \in DOMAIN e_length
  BY LengthOfFacts
<1>2. n \in Nat /\ DOMAIN s = 1 .. n /\ \A k \in 1 .. n : s[k] \in C
  BY LenProperties, ElementOfSeq
<1>3. /\ ListDisplay(s) = SeqOps!Front(Written(s)) /\ s # <<>>
      /\ Shows(ListDisplay(s), s, Separators) /\ Len(ListDisplay(s)) = ListLength(s)
  BY ListShown
<1>4. ListDisplay(s) \in Seq(Char(C))
  BY ListShown
<1>5. \E j \in 1 .. n : s[j] # NULL /\ LengthOf(s[j]) # 0
  <2>1. PICK f \in [0 .. n -> Int] :
           /\ f[0] = 0
           /\ \A k \in 1 .. n : f[k] = IF s[k] = NULL THEN f[k - 1] ELSE LengthOf(s[k])
           /\ LastLength(s) = f[n]
    BY <1>1, LastLengthSteps
  <2> DEFINE G == {k \in Nat : f[k] = 0}
  <2> SUFFICES ASSUME \A j \in 1 .. n : s[j] = NULL \/ LengthOf(s[j]) = 0
               PROVE  FALSE
    OBVIOUS
  <2>2. 0 \in G /\ \A k \in 1 .. n : k - 1 \in G => k \in G
    BY <2>1
  <2>3. \A k \in 0 .. n : k \in G
    <3> HIDE DEF G, n
    <3> QED
      BY <1>2, <2>2, UpToInduction DEF n
  <2>4. n \in 0 .. n
    BY <1>2
  <2> QED
    BY <2>1, <2>3, <2>4
<1>6. ListDisplay(s) # <<>>
  <2>1. PICK j \in 1 .. n : s[j] # NULL /\ LengthOf(s[j]) # 0
    BY <1>5
  <2> DEFINE v == s[j]
             J == {k \in DOMAIN s : s[k] \in {v}}
  <2>2. v \in DOMAIN e_length /\ LengthOf(v) \in Nat /\ LengthOf(v) # 0
    BY <1>1, <1>2, <2>1
  <2>3. IsFiniteSet(J) /\ J # {}
    <3>1. j \in J /\ J \subseteq 1 .. n /\ IsFiniteSet(1 .. n)
      BY <1>2, FS_Interval
    <3> HIDE DEF J
    <3> QED
      BY <3>1, FS_Subset
  <2>4. Occurrences({v}, s) \in Nat /\ Occurrences({v}, s) # 0
    <3>1. Cardinality(J) \in Nat /\ Cardinality(J) # 0
      <4> HIDE DEF J
      <4> QED
        BY <2>3, FS_CardinalityType, FS_EmptySet
    <3> QED
      BY <3>1 DEF Occurrences
  <2>5. Occurrences({v}, ListDisplay(s)) = LengthOf(v) * Occurrences({v}, s)
    BY <1>3, <2>2 DEF Shows
  <2> HIDE DEF v, J
  <2>6. Occurrences({v}, ListDisplay(s)) # 0
    <3>1. \A a, b \in Nat : a # 0 /\ b # 0 => a * b # 0
      OBVIOUS
    <3> QED
      BY <2>2, <2>4, <2>5, <3>1
  <2>7. Occurrences({v}, <<>>) = 0
    BY FS_EmptySet DEF Occurrences
  <2> QED
    BY <2>6, <2>7
<1>7. ListLength(s) \in Nat
  BY <1>3, <1>4, LenProperties
<1> QED
  BY <1>4, <1>6, <1>7

LEMMA EmptyShowsNothing ==
    ASSUME NEW C, Displayable(C)
    PROVE  <<>> \in Seq(C) /\ LastLength(<<>>) = 0
<1>1. <<>> \in Seq(C) /\ \A v \in C : LengthOf(v) \in Nat
  BY EmptySeq, LengthOfFacts
<1>2. PICK t : t = <<>>
  OBVIOUS
<1>3. t \in Seq(C) /\ Len(t) = 0
  BY <1>1, <1>2
<1>4. LastLength(t) = 0
  BY <1>1, <1>3, LastLengthSteps
<1> QED
  BY <1>1, <1>2, <1>4

\* Buckets: NULL, or the values of a list of which the last text is not empty
ShownBucket(C) == {NULL} \cup {t \in Seq(C) : LastLength(t) # 0}

LEMMA AllValuesSteps ==
    ASSUME NEW C, Displayable(C), NEW s \in Seq(ShownBucket(C))
    PROVE  \E f \in [0 .. Len(s) -> Seq(C)] :
              /\ f[0] = <<>>
              /\ \A k \in 1 .. Len(s) :
                    f[k] = IF s[k] = NULL THEN f[k - 1] ELSE f[k - 1] \o s[k]
              /\ AllValues(s) = f[Len(s)]
<1> DEFINE n == Len(s)
           A == Seq(C)
           none == <<>>
           step == [k \in 1 .. n |->
                      [x \in A |-> IF s[k] = NULL THEN x ELSE x \o s[k]]]
           rest(iter, T) == iter[T \ {SeqOps!Max(T)}]
           top(T) == s[SeqOps!Max(T)]
           Fold(iter) == iter = [T \in SUBSET DOMAIN s |->
                IF T = {} THEN <<>>
                ELSE IF top(T) = NULL THEN rest(iter, T) ELSE rest(iter, T) \o top(T)]
<1>1. n \in Nat /\ DOMAIN s = 1 .. n /\ \A k \in 1 .. n : s[k] \in ShownBucket(C)
  BY LenProperties, ElementOfSeq
<1>2. none \in A /\ step \in [1 .. n -> [A -> A]]
  <2>1. ASSUME NEW k \in 1 .. n, NEW x \in A
        PROVE  (IF s[k] = NULL THEN x ELSE x \o s[k]) \in A
    <3>1. s[k] = NULL \/ s[k] \in Seq(C)
      BY <1>1 DEF ShownBucket
    <3> QED
      BY <3>1, ConcatProperties
  <2> QED
    BY <2>1, EmptySeq
<1>3. \A T \in SUBSET (1 .. n) : T # {} => SeqOps!Max(T) \in T
  BY <1>1, MaxIsIn
<1>4. \E iter : Fold(iter)
  <2> HIDE DEF A
  <2>1. PICK iter \in [SUBSET (1 .. n) -> A] : Folds(iter, n, none, step)
    <3>1. n \in Nat
      BY <1>1
    <3> HIDE DEF step, n, none
    <3> QED
      BY <1>2, <3>1, FoldExists
  <2>2. \A T \in SUBSET (1 .. n) : T # {} =>
           iter[T] = IF top(T) = NULL THEN rest(iter, T) ELSE rest(iter, T) \o top(T)
    BY <1>3, <2>1 DEF Folds
  <2>3. Fold(iter)
    BY <1>1, <2>1, <2>2 DEF Folds
  <2> QED
    BY <2>3
<1> DEFINE it == CHOOSE iter : Fold(iter)
<1>5. Fold(it)
  <2> HIDE DEF Fold
  <2> QED
    BY <1>4
<1>6. AllValues(s) = it[1 .. n]
  BY <1>1 DEF AllValues, SeqOps!FoldLeft, SeqOps!MapThenFoldSet
<1> HIDE DEF it
<1>7. FoldsIn(it, n, A, none, step)
  BY <1>1, <1>3, <1>5 DEF FoldsIn
<1>8. PICK f \in [0 .. n -> A] : StepsOf(f, n, none, step) /\ it[1 .. n] = f[n]
  <2>1. n \in Nat
    BY <1>1
  <2> HIDE DEF step, n, A, Fold, none
  <2> QED
    BY <1>2, <1>7, <2>1, FoldSteps
<1>9. \A k \in 1 .. n : f[k] = IF s[k] = NULL THEN f[k - 1] ELSE f[k - 1] \o s[k]
  <2>1. \A k \in 1 .. n : k - 1 \in 0 .. n
    BY <1>1
  <2>2. \A k \in 1 .. n : f[k - 1] \in A
    <3> HIDE DEF A, n
    <3> QED
      BY <1>8, <2>1
  <2> HIDE DEF A
  <2> QED
    BY <1>8, <2>2 DEF StepsOf
<1> QED
  BY <1>6, <1>8, <1>9 DEF StepsOf

LEMMA HashLengthSteps ==
    ASSUME NEW C, Displayable(C), NEW s \in Seq(ShownBucket(C))
    PROVE  \E f \in [0 .. Len(s) -> Int] :
              /\ f[0] = 0
              /\ \A k \in 1 .. Len(s) :
                    f[k] = IF s[k] = NULL THEN f[k - 1]
                           ELSE f[k - 1] + ListLength(s[k]) + 1
              /\ HashLength(s) = IF f[Len(s)] # 0 THEN f[Len(s)] - 1 ELSE 0
<1> DEFINE n == Len(s)
           A == Int
           none == 0
           step == [k \in 1 .. n |->
                      [x \in A |-> IF s[k] = NULL THEN x ELSE x + ListLength(s[k]) + 1]]
           rest(iter, T) == iter[T \ {SeqOps!Max(T)}]
           top(T) == s[SeqOps!Max(T)]
           Fold(iter) == iter = [T \in SUBSET DOMAIN s |->
                IF T = {} THEN 0
                ELSE IF top(T) = NULL THEN rest(iter, T)
                ELSE rest(iter, T) + ListLength(top(T)) + 1]
<1>1. n \in Nat /\ DOMAIN s = 1 .. n /\ \A k \in 1 .. n : s[k] \in ShownBucket(C)
  BY LenProperties, ElementOfSeq
<1>2. none \in A /\ step \in [1 .. n -> [A -> A]]
  <2>1. \A k \in 1 .. n : s[k] = NULL \/ ListLength(s[k]) \in Nat
    BY <1>1, ListShowsSomething DEF ShownBucket
  <2> QED
    BY <2>1
<1>3. \A T \in SUBSET (1 .. n) : T # {} => SeqOps!Max(T) \in T
  BY <1>1, MaxIsIn
<1>4. \E iter : Fold(iter)
  <2> HIDE DEF A
  <2>1. PICK iter \in [SUBSET (1 .. n) -> A] : Folds(iter, n, none, step)
    <3>1. n \in Nat
      BY <1>1
    <3> HIDE DEF step, n, none
    <3> QED
      BY <1>2, <3>1, FoldExists
  <2>2. \A T \in SUBSET (1 .. n) : T # {} =>
           iter[T] = IF top(T) = NULL THEN rest(iter, T)
                     ELSE rest(iter, T) + ListLength(top(T)) + 1
    BY <1>3, <2>1 DEF Folds
  <2>3. Fold(iter)
    BY <1>1, <2>1, <2>2 DEF Folds
  <2> QED
    BY <2>3
<1> DEFINE it == CHOOSE iter : Fold(iter)
<1>5. Fold(it)
  <2> HIDE DEF Fold
  <2> QED
    BY <1>4
<1>6. HashLength(s) = IF it[1 .. n] # 0 THEN it[1 .. n] - 1 ELSE 0
  BY <1>1 DEF HashLength, SeqOps!FoldLeft, SeqOps!MapThenFoldSet
<1> HIDE DEF it
<1>7. FoldsIn(it, n, A, none, step)
  BY <1>1, <1>3, <1>5 DEF FoldsIn
<1>8. PICK f \in [0 .. n -> A] : StepsOf(f, n, none, step) /\ it[1 .. n] = f[n]
  <2>1. n \in Nat
    BY <1>1
  <2> HIDE DEF step, n, A, Fold, none
  <2> QED
    BY <1>2, <1>7, <2>1, FoldSteps
<1>9. \A k \in 1 .. n : f[k] = IF s[k] = NULL THEN f[k - 1]
                           ELSE f[k - 1] + ListLength(s[k]) + 1
  <2>1. \A k \in 1 .. n : k - 1 \in 0 .. n
    BY <1>1
  <2>2. \A k \in 1 .. n : f[k - 1] \in A
    <3> HIDE DEF A, n
    <3> QED
      BY <1>8, <2>1
  <2> HIDE DEF A
  <2> QED
    BY <1>8, <2>2 DEF StepsOf
<1> QED
  BY <1>6, <1>8, <1>9 DEF StepsOf

LEMMA HashDisplaySteps ==
    ASSUME NEW C, Displayable(C), NEW s \in Seq(ShownBucket(C))
    PROVE  \E f \in [0 .. Len(s) -> Seq(Char(C))] :
              /\ f[0] = <<>>
              /\ \A k \in 1 .. Len(s) :
                    f[k] = CASE s[k] = NULL -> f[k - 1]
                   [] s[k] # NULL /\ f[k - 1] = <<>> -> ListDisplay(s[k])
                   [] OTHER -> f[k - 1] \o <<COMMA>> \o ListDisplay(s[k])
              /\ HashDisplay(s) = f[Len(s)]
<1> DEFINE n == Len(s)
           A == Seq(Char(C))
           none == <<>>
           step == [k \in 1 .. n |->
                      [x \in A |-> CASE s[k] = NULL -> x
                   [] s[k] # NULL /\ x = <<>> -> ListDisplay(s[k])
                   [] OTHER -> x \o <<COMMA>> \o ListDisplay(s[k])]]
           rest(iter, T) == iter[T \ {SeqOps!Max(T)}]
           top(T) == s[SeqOps!Max(T)]
           Fold(iter) == iter = [T \in SUBSET DOMAIN s |->
                IF T = {} THEN <<>>
                ELSE CASE top(T) = NULL -> rest(iter, T)
                   [] top(T) # NULL /\ rest(iter, T) = <<>> -> ListDisplay(top(T))
                   [] OTHER -> rest(iter, T) \o <<COMMA>> \o ListDisplay(top(T))]
<1>1. n \in Nat /\ DOMAIN s = 1 .. n /\ \A k \in 1 .. n : s[k] \in ShownBucket(C)
  BY LenProperties, ElementOfSeq
<1>2. none \in A /\ step \in [1 .. n -> [A -> A]]
  <2>1. ASSUME NEW k \in 1 .. n, NEW x \in A
        PROVE  (CASE s[k] = NULL -> x
                   [] s[k] # NULL /\ x = <<>> -> ListDisplay(s[k])
                   [] OTHER -> x \o <<COMMA>> \o ListDisplay(s[k])) \in A
    <3>1. s[k] = NULL \/ ListDisplay(s[k]) \in Seq(Char(C))
      BY <1>1, ListShowsSomething DEF ShownBucket
    <3>2. <<COMMA>> \in A
      BY DEF Char
    <3> QED
      BY <3>1, <3>2, ConcatProperties
  <2> QED
    BY <2>1, EmptySeq
<1>3. \A T \in SUBSET (1 .. n) : T # {} => SeqOps!Max(T) \in T
  BY <1>1, MaxIsIn
<1>4. \E iter : Fold(iter)
  <2> HIDE DEF A
  <2>1. PICK iter \in [SUBSET (1 .. n) -> A] : Folds(iter, n, none, step)
    <3>1. n \in Nat
      BY <1>1
    <3> HIDE DEF step, n, none
    <3> QED
      BY <1>2, <3>1, FoldExists
  <2>2. \A T \in SUBSET (1 .. n) : T # {} =>
           iter[T] = CASE top(T) = NULL -> rest(iter, T)
                   [] top(T) # NULL /\ rest(iter, T) = <<>> -> ListDisplay(top(T))
                   [] OTHER -> rest(iter, T) \o <<COMMA>> \o ListDisplay(top(T))
    BY <1>3, <2>1 DEF Folds
  <2>3. Fold(iter)
    BY <1>1, <2>1, <2>2 DEF Folds
  <2> QED
    BY <2>3
<1> DEFINE it == CHOOSE iter : Fold(iter)
<1>5. Fold(it)
  <2> HIDE DEF Fold
  <2> QED
    BY <1>4
<1>6. HashDisplay(s) = it[1 .. n]
  <2>1. <<>> \notin {s[k] : k \in 1 .. Len(s)}
    <3>1. <<>> \notin ShownBucket(C)
      BY EmptyShowsNothing, DisplayAssumption DEF ShownBucket
    <3> QED
      BY <1>1, <3>1
  <2> QED
    BY <1>1, <2>1 DEF HashDisplay, SeqOps!FoldLeft, SeqOps!MapThenFoldSet
<1> HIDE DEF it
<1>7. FoldsIn(it, n, A, none, step)
  BY <1>1, <1>3, <1>5 DEF FoldsIn
<1>8. PICK f \in [0 .. n -> A] : StepsOf(f, n, none, step) /\ it[1 .. n] = f[n]
  <2>1. n \in Nat
    BY <1>1
  <2> HIDE DEF step, n, A, Fold, none
  <2> QED
    BY <1>2, <1>7, <2>1, FoldSteps
<1>9. \A k \in 1 .. n : f[k] = CASE s[k] = NULL -> f[k - 1]
                   [] s[k] # NULL /\ f[k - 1] = <<>> -> ListDisplay(s[k])
                   [] OTHER -> f[k - 1] \o <<COMMA>> \o ListDisplay(s[k])
  <2>1. \A k \in 1 .. n : k - 1 \in 0 .. n
    BY <1>1
  <2>2. \A k \in 1 .. n : f[k - 1] \in A
    <3> HIDE DEF A, n
    <3> QED
      BY <1>8, <2>1
  <2> HIDE DEF A
  <2> QED
    BY <1>8, <2>2 DEF StepsOf
<1> QED
  BY <1>6, <1>8, <1>9 DEF StepsOf

LEMMA TimesSum ==
    ASSUME NEW l \in Nat, NEW c \in Nat, NEW d \in Nat
    PROVE  l * (c + d) = l * c + l * d
OBVIOUS

\* A list behind a comma, behind what the lists before it show
LEMMA CommaJoins ==
    ASSUME NEW C, Displayable(C), NEW vs \in Seq(C), NEW x \in Seq(Char(C)),
           Shows(x, vs, Separators), NEW b \in Seq(C), LastLength(b) # 0
    PROVE  /\ Shows(x \o <<COMMA>> \o ListDisplay(b), vs \o b, Separators)
           /\ DELIMITER # COMMA =>
                 Occurrences({COMMA}, x \o <<COMMA>> \o ListDisplay(b))
                   = Occurrences({COMMA}, x) + 1
           /\ Len(x \o <<COMMA>> \o ListDisplay(b)) = Len(x) + ListLength(b) + 1
<1> DEFINE comma == <<COMMA>>
           d == ListDisplay(b)
           z == x \o comma
<1>1. /\ comma \in Seq(Char(C)) /\ Len(comma) = 1
      /\ Occurrences(Separators, comma) = 1
      /\ Occurrences({COMMA}, comma) = 1
      /\ \A v \in DOMAIN e_length : Occurrences({v}, comma) = 0
  <2>1. /\ COMMA \in Separators /\ Separators \in SUBSET Separators
        /\ COMMA \in {COMMA} /\ {COMMA} \in SUBSET Separators
    BY DEF Separators
  <2> QED
    BY <2>1, SeparatorShows
<1>2. /\ d \in Seq(Char(C)) /\ Len(d) = ListLength(b)
      /\ Shows(d, b, Separators) /\ ListLength(b) \in Nat
      /\ DELIMITER # COMMA => Occurrences({COMMA}, d) = 0
  BY ListShown, ListShowsSomething
<1>3. \A v \in DOMAIN e_length : LengthOf(v) \in Nat
  BY LengthOfFacts
<1> HIDE DEF comma, d
<1>4. z \in Seq(Char(C)) /\ Len(z) = Len(x) + 1 /\ Len(x) \in Nat
  <2>1. z \in Seq(Char(C)) /\ Len(z) = Len(x) + Len(comma)
    BY <1>1, ConcatProperties
  <2> QED
    BY <1>1, <2>1, LenProperties
<1>5. \A S : /\ Occurrences(S, x) \in Nat /\ Occurrences(S, comma) \in Nat
             /\ Occurrences(S, z) = Occurrences(S, x) + Occurrences(S, comma)
  BY <1>1, OccurrencesConcat
<1> HIDE DEF z
<1>6. \A S : /\ Occurrences(S, d) \in Nat
             /\ Occurrences(S, z \o d) = Occurrences(S, z) + Occurrences(S, d)
  BY <1>2, <1>4, OccurrencesConcat
<1>7. \A S : /\ Occurrences(S, vs) \in Nat /\ Occurrences(S, b) \in Nat
             /\ Occurrences(S, vs \o b) = Occurrences(S, vs) + Occurrences(S, b)
  BY OccurrencesConcat
<1>8. Len(z \o d) = Len(x) + ListLength(b) + 1
  <2>1. Len(z \o d) = Len(z) + Len(d)
    BY <1>2, <1>4, ConcatProperties
  <2> QED
    BY <1>2, <1>4, <2>1
<1>9. ASSUME NEW v \in DOMAIN e_length
      PROVE  Occurrences({v}, z \o d) = LengthOf(v) * Occurrences({v}, vs \o b)
  <2>1. /\ Occurrences({v}, x) = LengthOf(v) * Occurrences({v}, vs)
        /\ Occurrences({v}, d) = LengthOf(v) * Occurrences({v}, b)
    BY <1>2 DEF Shows
  <2>2. Occurrences({v}, z \o d) = Occurrences({v}, x) + Occurrences({v}, d)
    <3>1. /\ Occurrences({v}, z) = Occurrences({v}, x) + 0
          /\ Occurrences({v}, x) \in Nat
          /\ Occurrences({v}, z \o d) = Occurrences({v}, z) + Occurrences({v}, d)
      BY <1>1, <1>5, <1>6
    <3> QED
      BY <3>1
  <2>3. LengthOf(v) * Occurrences({v}, vs \o b)
          = LengthOf(v) * Occurrences({v}, vs) + LengthOf(v) * Occurrences({v}, b)
    <3>1. /\ LengthOf(v) \in Nat
          /\ Occurrences({v}, vs) \in Nat /\ Occurrences({v}, b) \in Nat
      BY <1>3, <1>7
    <3> QED
      BY <1>7, <3>1, TimesSum
  <2> QED
    BY <2>1, <2>2, <2>3
<1>10. Occurrences(Separators, z \o d) = Len(vs \o b) - 1
  <2>1. Len(vs \o b) = Len(vs) + Len(b) /\ Len(vs) \in Nat /\ Len(b) \in Nat
    BY ConcatProperties, LenProperties
  <2>2. /\ Occurrences(Separators, x) = Len(vs) - 1
        /\ Occurrences(Separators, d) = Len(b) - 1
    BY <1>2 DEF Shows
  <2>3. /\ Occurrences(Separators, z) = Occurrences(Separators, x) + 1
        /\ Occurrences(Separators, z \o d)
             = Occurrences(Separators, z) + Occurrences(Separators, d)
    BY <1>1, <1>5, <1>6
  <2> QED
    BY <2>1, <2>2, <2>3
<1>11. z \o d = x \o <<COMMA>> \o ListDisplay(b)
  BY DEF z, d, comma
<1>12. DELIMITER # COMMA => Occurrences({COMMA}, z \o d) = Occurrences({COMMA}, x) + 1
  BY <1>1, <1>2, <1>5, <1>6
<1> QED
  BY <1>8, <1>9, <1>10, <1>11, <1>12 DEF Shows

\* The text so far is empty as long as there was no value; then it shows those
\* there were, and the count is ahead by the comma behind it.  Each bucket with a
\* list but the first one there is adds one comma.
LEMMA HashShown ==
    ASSUME NEW C, Displayable(C), NEW s \in Seq(ShownBucket(C)), AllValues(s) # <<>>
    PROVE  /\ ShowsBuckets(HashDisplay(s), s)
           /\ Len(HashDisplay(s)) = HashLength(s)
<1> DEFINE n == Len(s)
<1>1. n \in Nat /\ \A k \in 1 .. n : s[k] \in ShownBucket(C) /\ k - 1 \in 0 .. n
  BY LenProperties, ElementOfSeq
<1>2. PICK v \in [0 .. n -> Seq(C)] :
         /\ v[0] = <<>>
         /\ \A k \in 1 .. n : v[k] = IF s[k] = NULL THEN v[k - 1] ELSE v[k - 1] \o s[k]
         /\ AllValues(s) = v[n]
  BY AllValuesSteps
<1>3. PICK l \in [0 .. n -> Int] :
         /\ l[0] = 0
         /\ \A k \in 1 .. n : l[k] = IF s[k] = NULL THEN l[k - 1]
                                     ELSE l[k - 1] + ListLength(s[k]) + 1
         /\ HashLength(s) = IF l[n] # 0 THEN l[n] - 1 ELSE 0
  BY HashLengthSteps
<1>4. PICK t \in [0 .. n -> Seq(Char(C))] :
         /\ t[0] = <<>>
         /\ \A k \in 1 .. n :
               t[k] = CASE s[k] = NULL -> t[k - 1]
                        [] s[k] # NULL /\ t[k - 1] = <<>> -> ListDisplay(s[k])
                        [] OTHER -> t[k - 1] \o <<COMMA>> \o ListDisplay(s[k])
         /\ HashDisplay(s) = t[n]
  BY HashDisplaySteps
<1> DEFINE c(k) == FirstCount(s, NULL, k)
           None(k) == v[k] = <<>> /\ t[k] = <<>> /\ l[k] = 0 /\ c(k) = k
           Some(k) == /\ v[k] # <<>> /\ t[k] # <<>> /\ Shows(t[k], v[k], Separators)
                      /\ DELIMITER # COMMA => Occurrences({COMMA}, t[k]) = k - c(k) - 1
                      /\ Len(t[k]) = l[k] - 1
           G == {k \in Nat : None(k) \/ Some(k)}
<1>10. /\ c(0) = 0 /\ Occurrences({NULL}, s) = c(n)
       /\ \A k \in 1 .. n : /\ c(k - 1) \in Nat
                            /\ c(k) = c(k - 1) + IF s[k] = NULL THEN 1 ELSE 0
  BY FirstCounts
<1> HIDE DEF n, c
<1>5. 0 \in G
  BY <1>2, <1>3, <1>4, <1>10
<1>6. ASSUME NEW k \in 1 .. n, k - 1 \in G PROVE k \in G
  <2>1. /\ k \in Nat /\ k - 1 \in 0 .. n /\ s[k] \in ShownBucket(C)
        /\ v[k - 1] \in Seq(C) /\ t[k - 1] \in Seq(Char(C)) /\ l[k - 1] \in Int
    BY <1>1, <1>2, <1>3, <1>4
  <2>2. CASE s[k] = NULL
    <3>1. v[k] = v[k - 1] /\ t[k] = t[k - 1] /\ l[k] = l[k - 1]
      BY <1>2, <1>3, <1>4, <2>2
    <3>2. c(k) = c(k - 1) + 1 /\ c(k - 1) \in Nat
      BY <1>10, <2>2
    <3>3. c(k - 1) = k - 1 => c(k) = k
      BY <2>1, <3>2
    <3>4. (k - 1) - c(k - 1) - 1 = k - c(k) - 1
      BY <2>1, <3>2
    <3> QED
      BY <1>6, <2>1, <3>1, <3>3, <3>4
  <2>3. CASE s[k] # NULL
    <3>1. s[k] \in Seq(C) /\ LastLength(s[k]) # 0
      BY <2>1, <2>3 DEF ShownBucket
    <3>2. /\ ListDisplay(s[k]) \in Seq(Char(C)) /\ ListDisplay(s[k]) # <<>>
          /\ ListLength(s[k]) \in Nat /\ s[k] # <<>>
          /\ Shows(ListDisplay(s[k]), s[k], Separators)
          /\ DELIMITER # COMMA => Occurrences({COMMA}, ListDisplay(s[k])) = 0
          /\ Len(ListDisplay(s[k])) = ListLength(s[k])
      BY <3>1, ListShown, ListShowsSomething
    <3>3. /\ v[k] = v[k - 1] \o s[k] /\ l[k] = l[k - 1] + ListLength(s[k]) + 1
          /\ t[k - 1] = <<>> => t[k] = ListDisplay(s[k])
          /\ t[k - 1] # <<>> => t[k] = t[k - 1] \o <<COMMA>> \o ListDisplay(s[k])
      BY <1>2, <1>3, <1>4, <2>3
    <3>6. c(k) = c(k - 1) /\ c(k - 1) \in Nat
      BY <1>10, <2>3
    <3>4. CASE None(k - 1)
      <4>1. v[k] = s[k]
        BY <3>1, <3>3, <3>4, ConcatEmptySeq
      <4>2. Len(t[k]) = l[k] - 1
        BY <3>2, <3>3, <3>4
      <4>3. k - c(k) - 1 = 0
        BY <2>1, <3>4, <3>6
      <4> QED
        BY <2>1, <3>2, <3>3, <3>4, <4>1, <4>2, <4>3
    <3>5. CASE Some(k - 1)
      <4>1. /\ Shows(t[k], v[k], Separators)
            /\ DELIMITER # COMMA =>
                  Occurrences({COMMA}, t[k]) = Occurrences({COMMA}, t[k - 1]) + 1
            /\ Len(t[k]) = Len(t[k - 1]) + ListLength(s[k]) + 1
        <5> DEFINE x == t[k - 1]
                   vs == v[k - 1]
                   b == s[k]
        <5>1. /\ x \in Seq(Char(C)) /\ vs \in Seq(C) /\ Shows(x, vs, Separators)
              /\ b \in Seq(C) /\ LastLength(b) # 0
              /\ t[k] = x \o <<COMMA>> \o ListDisplay(b) /\ v[k] = vs \o b
          BY <2>1, <3>1, <3>3, <3>5
        <5> HIDE DEF x, vs, b
        <5>2. /\ Shows(x \o <<COMMA>> \o ListDisplay(b), vs \o b, Separators)
              /\ DELIMITER # COMMA =>
                    Occurrences({COMMA}, x \o <<COMMA>> \o ListDisplay(b))
                      = Occurrences({COMMA}, x) + 1
              /\ Len(x \o <<COMMA>> \o ListDisplay(b)) = Len(x) + ListLength(b) + 1
          BY <5>1, CommaJoins
        <5>3. /\ Shows(t[k], v[k], Separators)
              /\ DELIMITER # COMMA => Occurrences({COMMA}, t[k]) = Occurrences({COMMA}, x) + 1
              /\ Len(t[k]) = Len(x) + ListLength(b) + 1
          BY <5>1, <5>2, Zenon
        <5> QED
          BY <5>3 DEF x, b
      <4>2. v[k] # <<>>
        BY <2>1, <3>1, <3>2, <3>3, ConcatProperties, EmptySeq, LenProperties
      <4>3. t[k] # <<>> /\ Len(t[k]) = l[k] - 1
        <5>1. Len(t[k - 1]) \in Nat
          BY <2>1, LenProperties
        <5> QED
          BY <2>1, <3>2, <3>3, <3>5, <4>1, <5>1
      <4>4. DELIMITER # COMMA => Occurrences({COMMA}, t[k]) = k - c(k) - 1
        <5>1. ((k - 1) - c(k - 1) - 1) + 1 = k - c(k) - 1
          BY <2>1, <3>6
        <5> QED
          BY <3>5, <4>1, <5>1
      <4> QED
        BY <2>1, <4>1, <4>2, <4>3, <4>4
    <3> QED
      BY <1>6, <3>4, <3>5
  <2> QED
    BY <2>2, <2>3
<1>7. \A k \in 0 .. n : k \in G
  <2> HIDE DEF G
  <2> QED
    BY <1>1, <1>5, <1>6, UpToInduction
<1>8. Some(n) /\ t[n] \in Seq(Char(C))
  <2>1. n \in 0 .. n
    BY <1>1
  <2> QED
    BY <1>2, <1>4, <1>7, <2>1
<1>9. l[n] # 0
  <2>1. Len(t[n]) \in Nat
    BY <1>8, LenProperties
  <2> QED
    BY <1>8, <2>1
<1>11. ShowsBuckets(HashDisplay(s), s)
  BY <1>2, <1>4, <1>8, <1>10 DEF ShowsBuckets, Separators, n
<1> QED
  BY <1>3, <1>4, <1>8, <1>9, <1>11

----------------------------------------------------------------------------
\* Walks along a link

LEMMA ReachIsCells ==
    ASSUME NEW link, NEW p
    PROVE  Reach(link, p) \subseteq Cell
BY DEF Reach

LEMMA ReachNull ==
    ASSUME NEW link
    PROVE  Reach(link, NULL) = {}
BY DEF Reach

\* A walk visits the cell it starts from.
LEMMA ReachSelf ==
    ASSUME NEW link, NEW p \in Cell
    PROVE  p \in Reach(link, p)
BY ChainAssumption DEF Reach

\* A walk goes on from each cell it visits.
LEMMA ReachStep ==
    ASSUME NEW link \in [Cell -> Ptr], NEW p,
           NEW c \in Reach(link, p), link[c] # NULL
    PROVE  link[c] \in Reach(link, p)
BY DEF Reach, Ptr

\* A walk stays in every set that holds its start and that link does not leave.
LEMMA ReachStays ==
    ASSUME NEW link, NEW p, NEW S \in SUBSET Cell,
           p # NULL => p \in S,
           \A c \in S : link[c] # NULL => link[c] \in S
    PROVE  Reach(link, p) \subseteq S
BY DEF Reach

\* What is visited from a visited cell is visited.
LEMMA ReachTransitive ==
    ASSUME NEW link \in [Cell -> Ptr], NEW p, NEW c \in Reach(link, p)
    PROVE  Reach(link, c) \subseteq Reach(link, p)
<1>1. Reach(link, p) \in SUBSET Cell
  BY ReachIsCells
<1>2. \A d \in Reach(link, p) : link[d] # NULL => link[d] \in Reach(link, p)
  BY ReachStep
<1> QED
  BY <1>1, <1>2, ReachStays

\* A walk is its first cell and the walk from the next one.
LEMMA ReachUnfold ==
    ASSUME NEW link \in [Cell -> Ptr], NEW p \in Cell
    PROVE  Reach(link, p) = {p} \cup Reach(link, link[p])
<1> DEFINE S == {p} \cup Reach(link, link[p])
<1>1. S \in SUBSET Cell
  BY ReachIsCells
<1>2. \A c \in S : link[c] # NULL => link[c] \in S
  <2> SUFFICES ASSUME NEW c \in S, link[c] # NULL
               PROVE  link[c] \in S
    OBVIOUS
  <2>1. CASE c = p
    <3>1. link[p] \in Cell
      BY <2>1 DEF Ptr
    <3> QED
      BY <3>1, <2>1, ReachSelf
  <2>2. CASE c \in Reach(link, link[p])
    BY <2>2, ReachStep
  <2> QED
    BY <2>1, <2>2
<1>3. Reach(link, p) \subseteq S
  <2> p \in S
    OBVIOUS
  <2> HIDE DEF S
  <2> QED
    BY <1>1, <1>2, ReachStays
<1>4. p \in Reach(link, p)
  BY ReachSelf
<1>5. Reach(link, link[p]) \subseteq Reach(link, p)
  <2>1. CASE link[p] = NULL
    BY <2>1, ReachNull
  <2>2. CASE link[p] # NULL
    <3>1. link[p] \in Reach(link, p)
      BY <1>4, <2>2, ReachStep
    <3> QED
      BY <3>1, ReachTransitive
  <2> QED
    BY <2>1, <2>2
<1> QED
  BY <1>3, <1>4, <1>5

\* FirstOnWalk answers with a cell of C on the walk, or NULL.
LEMMA FirstOnWalkType ==
    ASSUME NEW link, NEW p, NEW C
    PROVE  FirstOnWalk(link, p, C) \in (C \cap Reach(link, p)) \cup {NULL}
BY DEF FirstOnWalk

\* FirstOnWalk finds a cell whenever the walk meets C, and it is the first:
\* the walk from there still has all of C that the whole walk has.
LEMMA FirstOnWalkFinds ==
    ASSUME NEW link \in [Cell -> Ptr], NEW p \in Ptr, NEW C,
           C \cap Reach(link, p) # {}
    PROVE  /\ FirstOnWalk(link, p, C) \in C \cap Reach(link, p)
           /\ C \cap Reach(link, p) \subseteq Reach(link, FirstOnWalk(link, p, C))
<1> DEFINE hits == C \cap Reach(link, p)
           head == {q \in hits : hits \subseteq Reach(link, q)}
           S    == {c \in Cell : hits \subseteq Reach(link, c)}
<1>1. head # {}
  <2> SUFFICES ASSUME head = {} PROVE FALSE
    OBVIOUS
  <2>1. p # NULL => p \in S
    <3> HAVE p # NULL
    <3>1. p \in Cell
      BY DEF Ptr
    <3> QED
      BY <3>1
  <2>2. \A c \in S : link[c] # NULL => link[c] \in S
    <3> SUFFICES ASSUME NEW c \in S, link[c] # NULL
                 PROVE  link[c] \in S
      OBVIOUS
    <3>1. c \notin hits
      OBVIOUS
    <3>2. Reach(link, c) = {c} \cup Reach(link, link[c])
      BY ReachUnfold
    <3> QED
      BY <3>1, <3>2 DEF Ptr
  <2>3. S \in SUBSET Cell
    OBVIOUS
  <2>4. Reach(link, p) \subseteq S
    <3> HIDE DEF S
    <3> QED
      BY <2>1, <2>2, <2>3, ReachStays
  <2> QED
    BY <2>4
<1>2. FirstOnWalk(link, p, C) \in head
  BY <1>1 DEF FirstOnWalk
<1> QED
  BY <1>2

----------------------------------------------------------------------------
\* Walks: of a whole chain there is at most one, which visits each cell once.

LEMMA ChainReach ==
    ASSUME NEW x, Chained(x), NEW S \in SUBSET x.cells,
           x.first # NULL => x.first \in S,
           \A c \in S : x.next[c] # NULL => x.next[c] \in S
    PROVE  S = x.cells
<1>1. Reach(x.next, x.first) = x.cells /\ x.cells \subseteq Cell
  BY ReachIsCells DEF Chained
<1> QED
  BY <1>1, ReachStays

LEMMA WalkFields ==
    ASSUME NEW x, Chained(x), NEW o, IsWalk(x, o), IsFiniteSet(x.cells)
    PROVE  LET n == Cardinality(x.cells)
           IN  /\ n \in Nat
               /\ DOMAIN o = 1 .. n
               /\ n = 0 <=> x.cells = {}
               /\ \A k \in 1 .. n :
                     /\ o[k] \in x.cells
                     /\ k < n => x.next[o[k]] = o[k + 1]
                     /\ k = n => x.next[o[k]] = NULL
               /\ x.cells # {} => x.first = o[1] /\ x.first \in x.cells
               /\ x.cells \subseteq Cell /\ NULL \notin x.cells
<1> DEFINE n == Cardinality(x.cells)
<1>1. n \in Nat /\ (n = 0 <=> x.cells = {})
  BY FS_CardinalityType, FS_EmptySet
<1>2. o \in [1 .. n -> x.cells]
  BY DEF IsWalk
<1>3. x.cells \subseteq Cell
  BY ReachIsCells DEF Chained
<1>4. /\ x.first = IF x.cells = {} THEN NULL ELSE o[1]
      /\ \A k \in 1 .. n :
            x.next[o[k]] = IF k + 1 \in 1 .. n THEN o[k + 1] ELSE NULL
  BY <1>2 DEF IsWalk
<1> HIDE DEF n
<1>5. \A k \in 1 .. n : /\ o[k] \in x.cells
                        /\ k < n => x.next[o[k]] = o[k + 1]
                        /\ k = n => x.next[o[k]] = NULL
  BY <1>1, <1>2, <1>4
<1>6. x.cells # {} => x.first = o[1] /\ x.first \in x.cells
  BY <1>1, <1>2, <1>4
<1> QED
  BY <1>1, <1>2, <1>3, <1>5, <1>6, ChainAssumption DEF n

LEMMA WalkIsOnto ==
    ASSUME NEW x, Chained(x), NEW o, IsWalk(x, o), IsFiniteSet(x.cells),
           NEW c \in x.cells
    PROVE  \E k \in DOMAIN o : o[k] = c
<1> DEFINE n == Cardinality(x.cells)
           S == {d \in x.cells : \E k \in 1 .. n : o[k] = d}
<1>1. /\ n \in Nat
      /\ DOMAIN o = 1 .. n
      /\ n = 0 <=> x.cells = {}
      /\ \A k \in 1 .. n :
            /\ o[k] \in x.cells
            /\ k < n => x.next[o[k]] = o[k + 1]
            /\ k = n => x.next[o[k]] = NULL
      /\ x.cells # {} => x.first = o[1] /\ x.first \in x.cells
  BY WalkFields
<1> HIDE DEF n
<1>2. x.first # NULL => x.first \in S
  BY <1>1 DEF Chained
<1>3. ASSUME NEW d \in S, x.next[d] # NULL
      PROVE  x.next[d] \in S
  <2>1. PICK k \in 1 .. n : o[k] = d
    OBVIOUS
  <2>2. k < n /\ k + 1 \in 1 .. n /\ x.next[d] = o[k + 1]
    BY <1>1, <1>3, <2>1
  <2> QED
    BY <1>1, <2>2
<1>4. S = x.cells
  <2> HIDE DEF S
  <2>1. S \in SUBSET x.cells
    BY DEF S
  <2> QED
    BY <1>2, <1>3, <2>1, ChainReach
<1> QED
  BY <1>1, <1>4

LEMMA WalkIsOneToOne ==
    ASSUME NEW x, Chained(x), NEW o, IsWalk(x, o), IsFiniteSet(x.cells)
    PROVE  \A j, k \in DOMAIN o : o[j] = o[k] => j = k
<1> DEFINE n == Cardinality(x.cells)
           S == {d \in x.cells : \A j, k \in 1 .. n : o[j] = d /\ o[k] = d => j = k}
<1>1. /\ n \in Nat
      /\ DOMAIN o = 1 .. n
      /\ n = 0 <=> x.cells = {}
      /\ \A k \in 1 .. n :
            /\ o[k] \in x.cells
            /\ k < n => x.next[o[k]] = o[k + 1]
            /\ k = n => x.next[o[k]] = NULL
      /\ x.cells # {} => x.first = o[1] /\ x.first \in x.cells
      /\ NULL \notin x.cells
  BY WalkFields
<1> HIDE DEF n
\* The cell at a place behind the first one has the one before it as prev.
<1>2. ASSUME NEW k \in 1 .. n, k # 1
      PROVE  /\ k - 1 \in 1 .. n
             /\ x.prev[o[k]] = o[k - 1] /\ o[k] # x.first
  <2>1. /\ k - 1 \in 1 .. n /\ k - 1 < n /\ (k - 1) + 1 = k
        /\ o[k] \in x.cells /\ o[k - 1] \in x.cells
    BY <1>1, <1>2
  <2>2. x.next[o[k - 1]] = o[k] /\ o[k] # NULL
    BY <1>1, <2>1
  <2>3. x.prev[o[k]] = o[k - 1] /\ o[k - 1] # NULL
    BY <1>1, <2>1, <2>2 DEF Chained
  <2> QED
    BY <2>1, <2>3 DEF Chained
<1>3. x.first # NULL => x.first \in S
  <2>1. x.first # NULL => x.cells # {}
    BY DEF Chained
  <2> QED
    BY <1>1, <1>2, <2>1
<1>4. ASSUME NEW d \in S, x.next[d] # NULL
      PROVE  x.next[d] \in S
  <2>1. x.next[d] \in x.cells
    <3>1. PICK k \in 1 .. n : o[k] = d
      BY <1>1, WalkIsOnto
    <3> QED
      BY <1>1, <1>4, <3>1
  <2>2. x.prev[x.next[d]] = d
    BY <1>4 DEF Chained
  <2>3. x.next[d] # x.first
    BY <2>1, <2>2, <1>1 DEF Chained
  <2>4. ASSUME NEW j \in 1 .. n, o[j] = x.next[d]
        PROVE  j - 1 \in 1 .. n /\ o[j - 1] = d
    BY <1>1, <1>2, <2>1, <2>2, <2>3, <2>4
  <2>5. ASSUME NEW j \in 1 .. n, NEW k \in 1 .. n, o[j] = x.next[d], o[k] = x.next[d]
        PROVE  j = k
    <3>1. j - 1 = k - 1
      BY <2>4, <2>5
    <3> QED
      BY <1>1, <3>1
  <2> QED
    BY <2>1, <2>5
<1>5. S = x.cells
  <2> HIDE DEF S
  <2>1. S \in SUBSET x.cells
    BY DEF S
  <2> QED
    BY <1>3, <1>4, <2>1, ChainReach
<1> QED
  BY <1>1, <1>5

LEMMA WalkIsUnique ==
    ASSUME NEW x, Chained(x), NEW o, IsWalk(x, o), IsFiniteSet(x.cells)
    PROVE  /\ Walk(x) = o
           /\ Contents(x) = [k \in 1 .. Cardinality(x.cells) |-> x.value[o[k]]]
<1> DEFINE n == Cardinality(x.cells)
           p == Walk(x)
           S == {d \in x.cells : \A k \in 1 .. n : o[k] = d => p[k] = d}
<1>1. /\ n \in Nat
      /\ DOMAIN o = 1 .. n
      /\ n = 0 <=> x.cells = {}
      /\ \A k \in 1 .. n :
            /\ o[k] \in x.cells
            /\ k < n => x.next[o[k]] = o[k + 1]
            /\ k = n => x.next[o[k]] = NULL
      /\ x.cells # {} => x.first = o[1] /\ x.first \in x.cells
  BY WalkFields
<1>2. IsWalk(x, p) /\ o \in [1 .. n -> x.cells] /\ p \in [1 .. n -> x.cells]
  <2>1. o \in [1 .. n -> x.cells]
    BY DEF IsWalk
  <2>2. IsWalk(x, p)
    BY <2>1 DEF Walk
  <2> QED
    BY <2>1, <2>2 DEF IsWalk
<1> HIDE DEF p
<1>3. /\ \A k \in 1 .. n :
            /\ k < n => x.next[p[k]] = p[k + 1]
            /\ k = n => x.next[p[k]] = NULL
      /\ x.cells # {} => x.first = p[1]
  BY <1>2, WalkFields
<1>4. \A j, k \in 1 .. n : o[j] = o[k] => j = k
  BY <1>1, WalkIsOneToOne
<1> HIDE DEF n
<1>5. x.first # NULL => x.first \in S
  <2>1. x.first # NULL => x.cells # {}
    BY DEF Chained
  <2>2. x.cells # {} => 1 \in 1 .. n
    BY <1>1
  <2> QED
    BY <1>1, <1>3, <1>4, <2>1, <2>2
<1>6. ASSUME NEW d \in S, x.next[d] # NULL
      PROVE  x.next[d] \in S
  <2>1. PICK k \in 1 .. n : o[k] = d
    BY <1>1, WalkIsOnto
  <2>2. k < n /\ k + 1 \in 1 .. n /\ x.next[d] = o[k + 1]
    BY <1>1, <1>6, <2>1
  <2>3. p[k] = d
    BY <2>1
  <2>4. p[k + 1] = x.next[d]
    BY <1>3, <2>2, <2>3
  <2>5. \A j \in 1 .. n : o[j] = x.next[d] => j = k + 1
    BY <1>4, <2>2
  <2> QED
    BY <1>1, <2>2, <2>4, <2>5
<1>7. S = x.cells
  <2> HIDE DEF S
  <2>1. S \in SUBSET x.cells
    BY DEF S
  <2> QED
    BY <1>5, <1>6, <2>1, ChainReach
<1>8. \A k \in 1 .. n : p[k] = o[k]
  BY <1>1, <1>7
<1>9. p = o
  <2>1. p = [k \in 1 .. n |-> p[k]] /\ o = [k \in 1 .. n |-> o[k]]
    BY <1>2
  <2>2. [k \in 1 .. n |-> p[k]] = [k \in 1 .. n |-> o[k]]
    BY <1>8
  <2> QED
    BY <2>1, <2>2
<1> QED
  BY <1>9 DEF Contents, p, n

LEMMA ContentsIsSeq ==
    ASSUME NEW x, Chained(x), NEW o, IsWalk(x, o), IsFiniteSet(x.cells),
           NEW S, \A c \in x.cells : x.value[c] \in S
    PROVE  LET n == Cardinality(x.cells)
           IN  /\ n \in Nat
               /\ Contents(x) \in Seq(S)
               /\ Len(Contents(x)) = n
               /\ \A k \in 1 .. n : /\ Contents(x)[k] = x.value[o[k]]
                                    /\ Contents(x)[k] \in S
<1> DEFINE n == Cardinality(x.cells)
<1>1. n \in Nat /\ \A k \in 1 .. n : o[k] \in x.cells
  BY WalkFields
<1>2. Contents(x) = [k \in 1 .. n |-> x.value[o[k]]]
  BY WalkIsUnique
<1> HIDE DEF n
<1>3. Contents(x) \in [1 .. n -> S]
  BY <1>1, <1>2
<1>4. Contents(x) \in Seq(S)
  BY <1>1, <1>3, SeqDef
<1> QED
  BY <1>1, <1>2, <1>3, <1>4, LenProperties DEF n

\* y is x with the new cell e behind the first i of its walk o.
IsInserted(x, o, y, e, i) ==
    /\ e \in Cell \ x.cells
    /\ i \in 0 .. Cardinality(x.cells)
    /\ y.cells = x.cells \cup {e}
    /\ y.first = IF i = 0 THEN e ELSE x.first
    /\ y.next[e] = IF i = 0 THEN x.first ELSE x.next[o[i]]
    /\ \A c \in x.cells :
          y.next[c] = IF i # 0 /\ c = o[i] THEN e ELSE x.next[c]

LEMMA InsertedWalk ==
    ASSUME NEW x, Chained(x), IsFiniteSet(x.cells), NEW o, IsWalk(x, o),
           NEW y, NEW e, NEW i, IsInserted(x, o, y, e, i)
    PROVE  /\ IsFiniteSet(y.cells)
           /\ Cardinality(y.cells) = Cardinality(x.cells) + 1
           /\ \E p : /\ IsWalk(y, p)
                    /\ \A k \in 1 .. Cardinality(x.cells) + 1 :
                          p[k] = IF k <= i THEN o[k]
                                 ELSE IF k = i + 1 THEN e ELSE o[k - 1]
<1> USE DEF IsInserted
<1> DEFINE n == Cardinality(x.cells)
           p == [k \in 1 .. n + 1 |->
                    IF k <= i THEN o[k] ELSE IF k = i + 1 THEN e ELSE o[k - 1]]
<1>1. /\ n \in Nat
      /\ DOMAIN o = 1 .. n
      /\ n = 0 <=> x.cells = {}
      /\ \A k \in 1 .. n :
            /\ o[k] \in x.cells
            /\ k < n => x.next[o[k]] = o[k + 1]
            /\ k = n => x.next[o[k]] = NULL
      /\ x.cells # {} => x.first = o[1] /\ x.first \in x.cells
  BY WalkFields
<1>2. \A j, k \in 1 .. n : o[j] = o[k] => j = k
  BY <1>1, WalkIsOneToOne
<1>3. IsFiniteSet(y.cells) /\ Cardinality(y.cells) = n + 1
  BY FS_AddElement
<1>4. x.cells = {} => x.first = NULL
  BY DEF Chained
<1> HIDE DEF n
<1>5. i \in 0 .. n
  BY DEF n
<1>6. ASSUME NEW k \in 1 .. n + 1
      PROVE  /\ p[k] = IF k <= i THEN o[k] ELSE IF k = i + 1 THEN e ELSE o[k - 1]
             /\ p[k] \in y.cells
  BY <1>1, <1>5
<1>7. p \in [1 .. n + 1 -> y.cells]
  BY <1>6
<1>8. y.first = p[1]
  BY <1>1, <1>5, <1>6
<1> HIDE DEF p
<1>9. ASSUME NEW k \in 1 .. n + 1
      PROVE  y.next[p[k]] = IF k + 1 \in 1 .. n + 1 THEN p[k + 1] ELSE NULL
  <2>1. CASE k < i
    <3>1. /\ k \in 1 .. n /\ i \in 1 .. n /\ k + 1 \in 1 .. n + 1 /\ k + 1 <= i
          /\ k # i /\ k < n
      BY <1>1, <1>5, <2>1
    <3>2. p[k] = o[k] /\ p[k + 1] = o[k + 1]
      BY <1>6, <3>1
    <3> QED
      BY <1>1, <1>2, <3>1, <3>2
  <2>2. CASE k = i
    <3>1. k \in 1 .. n /\ i # 0 /\ k + 1 \in 1 .. n + 1 /\ ~ (k + 1 <= i)
      BY <1>1, <1>5, <2>2
    <3>2. p[k] = o[i] /\ p[k + 1] = e
      BY <1>6, <2>2, <3>1
    <3> QED
      BY <1>1, <2>2, <3>1, <3>2
  <2>3. CASE k = i + 1
    <3>1. p[k] = e
      BY <1>1, <1>5, <1>6, <2>3
    <3>2. CASE i = 0
      <4>1. k = 1 /\ (n # 0 => p[2] = o[1] /\ 2 \in 1 .. n + 1)
        BY <1>1, <1>6, <2>3, <3>2
      <4> QED
        BY <1>1, <1>4, <3>1, <3>2, <4>1
    <3>3. CASE i # 0 /\ i = n
      BY <1>1, <1>5, <2>3, <3>1, <3>3
    <3>4. CASE i # 0 /\ i < n
      <4>1. /\ i \in 1 .. n /\ k + 1 \in 1 .. n + 1 /\ ~ (k + 1 <= i)
            /\ k + 1 # i + 1 /\ (k + 1) - 1 = i + 1
        BY <1>1, <1>5, <2>3, <3>4
      <4>2. p[k + 1] = o[i + 1]
        BY <1>6, <4>1
      <4> QED
        BY <1>1, <3>1, <3>4, <4>1, <4>2
    <3> QED
      BY <1>1, <1>5, <3>2, <3>3, <3>4
  <2>4. CASE k > i + 1
    <3>1. /\ k - 1 \in 1 .. n /\ k - 1 # i /\ (k - 1) + 1 = k /\ (k + 1) - 1 = k
          /\ ~ (k <= i) /\ k # i + 1 /\ ~ (k + 1 <= i) /\ k + 1 # i + 1
      BY <1>1, <1>5, <2>4
    <3>2. p[k] = o[k - 1] /\ (k + 1 \in 1 .. n + 1 => p[k + 1] = o[k])
      BY <1>6, <3>1
    <3>3. y.next[p[k]] = x.next[o[k - 1]]
      BY <1>1, <1>2, <1>5, <3>1, <3>2
    <3>4. /\ k + 1 \in 1 .. n + 1 <=> k - 1 < n
          /\ ~ (k + 1 \in 1 .. n + 1) <=> k - 1 = n
      BY <1>1, <3>1
    <3> QED
      BY <1>1, <3>1, <3>2, <3>3, <3>4
  <2> QED
    BY <1>5, <2>1, <2>2, <2>3, <2>4
<1>10. y.cells # {} /\ DOMAIN p = 1 .. n + 1
  BY <1>7
<1>11. IsWalk(y, p)
  BY <1>3, <1>7, <1>8, <1>9, <1>10 DEF IsWalk
<1> QED
  BY <1>3, <1>6, <1>11 DEF n

\* y is x without the cell at place i of its walk o.
IsRemoved(x, o, y, i) ==
    /\ i \in 1 .. Cardinality(x.cells)
    /\ y.cells = x.cells \ {o[i]}
    /\ y.first = IF i = 1 THEN x.next[o[i]] ELSE x.first
    /\ \A c \in y.cells :
          y.next[c] = IF x.next[c] = o[i] THEN x.next[o[i]] ELSE x.next[c]

LEMMA RemovedWalk ==
    ASSUME NEW x, Chained(x), IsFiniteSet(x.cells), NEW o, IsWalk(x, o),
           NEW y, NEW i, IsRemoved(x, o, y, i)
    PROVE  /\ IsFiniteSet(y.cells)
           /\ Cardinality(y.cells) = Cardinality(x.cells) - 1
           /\ \E p : /\ IsWalk(y, p)
                    /\ \A k \in 1 .. Cardinality(x.cells) - 1 :
                          p[k] = IF k < i THEN o[k] ELSE o[k + 1]
<1> USE DEF IsRemoved
<1> DEFINE n == Cardinality(x.cells)
           p == [k \in 1 .. n - 1 |-> IF k < i THEN o[k] ELSE o[k + 1]]
<1>1. /\ n \in Nat
      /\ DOMAIN o = 1 .. n
      /\ n = 0 <=> x.cells = {}
      /\ \A k \in 1 .. n :
            /\ o[k] \in x.cells
            /\ k < n => x.next[o[k]] = o[k + 1]
            /\ k = n => x.next[o[k]] = NULL
      /\ x.cells # {} => x.first = o[1] /\ x.first \in x.cells
      /\ NULL \notin x.cells
  BY WalkFields
<1>2. \A j, k \in 1 .. n : o[j] = o[k] => j = k
  BY <1>1, WalkIsOneToOne
<1>3. IsFiniteSet(y.cells) /\ Cardinality(y.cells) = n - 1
  <2>1. o[i] \in x.cells
    BY <1>1
  <2> HIDE DEF n
  <2>2. /\ IsFiniteSet(x.cells \ {o[i]})
        /\ Cardinality(x.cells \ {o[i]}) = n - 1
    BY <2>1, FS_RemoveElement DEF n
  <2> QED
    BY <2>2
<1>4. y.cells = {} <=> n = 1
  <2>1. y.cells = {} <=> n - 1 = 0
    BY <1>3, FS_EmptySet
  <2> QED
    BY <1>1, <2>1
<1> HIDE DEF n
<1>5. i \in 1 .. n /\ i # 0
  BY <1>1 DEF n
<1>6. ASSUME NEW k \in 1 .. n - 1
      PROVE  /\ p[k] = IF k < i THEN o[k] ELSE o[k + 1]
             /\ p[k] \in y.cells
  <2>1. k \in 1 .. n /\ k + 1 \in 1 .. n /\ (~ (k < i) => k + 1 # i)
    BY <1>1, <1>5
  <2> QED
    BY <1>1, <1>2, <1>5, <2>1
<1>7. p \in [1 .. n - 1 -> y.cells]
  BY <1>6
<1>8. y.first = IF y.cells = {} THEN NULL ELSE p[1]
  <2>1. CASE i = 1
    BY <1>1, <1>4, <1>5, <1>6, <2>1
  <2>2. CASE i # 1
    <3>1. 1 < i /\ n # 1 /\ 1 \in 1 .. n - 1
      BY <1>1, <1>5, <2>2
    <3> QED
      BY <1>1, <1>4, <1>6, <2>2, <3>1
  <2> QED
    BY <2>1, <2>2
<1> HIDE DEF p
<1>9. ASSUME NEW k \in 1 .. n - 1
      PROVE  y.next[p[k]] = IF k + 1 \in 1 .. n - 1 THEN p[k + 1] ELSE NULL
  <2>1. CASE k + 1 < i
    <3>1. /\ k \in 1 .. n /\ k + 1 \in 1 .. n - 1 /\ k + 1 \in 1 .. n /\ k < n
          /\ k < i /\ k + 1 # i
      BY <1>1, <1>5, <2>1
    <3>2. p[k] = o[k] /\ p[k + 1] = o[k + 1] /\ p[k] \in y.cells
      BY <1>6, <2>1, <3>1
    <3>3. x.next[o[k]] = o[k + 1] /\ o[k + 1] # o[i]
      BY <1>1, <1>2, <1>5, <3>1
    <3> QED
      BY <3>1, <3>2, <3>3
  <2>2. CASE k + 1 = i
    <3>1. k \in 1 .. n /\ k < n /\ k < i /\ ~ (k + 1 < i)
      BY <1>1, <1>5, <2>2
    <3>2. p[k] = o[k] /\ p[k] \in y.cells /\ x.next[o[k]] = o[i]
      BY <1>1, <1>6, <2>2, <3>1
    <3>3. y.next[p[k]] = x.next[o[i]]
      BY <3>2
    <3>4. CASE i = n
      <4>1. ~ (k + 1 \in 1 .. n - 1)
        BY <1>1, <2>2, <3>4
      <4> QED
        BY <1>1, <1>5, <3>3, <3>4, <4>1
    <3>5. CASE i < n
      <4>1. k + 1 \in 1 .. n - 1
        BY <1>1, <1>5, <2>2, <3>5
      <4>2. p[k + 1] = o[i + 1]
        BY <1>6, <2>2, <3>1, <4>1
      <4> QED
        BY <1>1, <1>5, <3>3, <3>5, <4>1, <4>2
    <3> QED
      BY <1>1, <1>5, <3>4, <3>5
  <2>3. CASE k + 1 > i
    <3>1. /\ k + 1 \in 1 .. n /\ ~ (k < i) /\ ~ (k + 1 < i)
          /\ k + 1 \in 1 .. n - 1 <=> k + 1 < n
          /\ ~ (k + 1 \in 1 .. n - 1) <=> k + 1 = n
          /\ (k + 1) + 1 # i /\ k + 1 < n => (k + 1) + 1 \in 1 .. n
      BY <1>1, <1>5, <2>3
    <3>2. /\ p[k] = o[k + 1] /\ p[k] \in y.cells
          /\ k + 1 < n => p[k + 1] = o[(k + 1) + 1]
      BY <1>6, <3>1
    <3>3. CASE k + 1 < n
      <4>1. x.next[o[k + 1]] = o[(k + 1) + 1]
        BY <1>1, <3>1, <3>3
      <4>2. (k + 1) + 1 # i /\ (k + 1) + 1 \in 1 .. n
        BY <1>1, <1>5, <2>3, <3>3
      <4>3. o[(k + 1) + 1] # o[i]
        BY <1>2, <1>5, <4>2
      <4> QED
        BY <3>1, <3>2, <3>3, <4>1, <4>3
    <3>4. CASE k + 1 = n
      <4>1. x.next[o[k + 1]] = NULL /\ o[i] # NULL
        BY <1>1, <1>5, <3>1, <3>4
      <4> QED
        BY <3>1, <3>2, <3>4, <4>1
    <3> QED
      BY <1>1, <3>1, <3>3, <3>4
  <2> QED
    BY <1>5, <2>1, <2>2, <2>3
<1>10. DOMAIN p = 1 .. n - 1
  BY <1>7
<1>11. IsWalk(y, p)
  BY <1>3, <1>7, <1>8, <1>9, <1>10 DEF IsWalk
<1> QED
  BY <1>3, <1>6, <1>11 DEF n

\* y is x with the cell at place i of its walk o moved to the front.
IsMoved(x, o, y, i) ==
    /\ i \in 2 .. Cardinality(x.cells)
    /\ y.cells = x.cells
    /\ y.first = o[i]
    /\ y.next[o[i]] = x.first
    /\ \A c \in x.cells \ {o[i]} :
          y.next[c] = IF x.next[c] = o[i] THEN x.next[o[i]] ELSE x.next[c]

LEMMA MovedWalk ==
    ASSUME NEW x, Chained(x), IsFiniteSet(x.cells), NEW o, IsWalk(x, o),
           NEW y, NEW i, IsMoved(x, o, y, i)
    PROVE  \E p : /\ IsWalk(y, p)
                  /\ \A k \in 1 .. Cardinality(x.cells) :
                        p[k] = IF k = 1 THEN o[i]
                               ELSE IF k <= i THEN o[k - 1] ELSE o[k]
<1> USE DEF IsMoved
<1> DEFINE n == Cardinality(x.cells)
           p == [k \in 1 .. n |->
                    IF k = 1 THEN o[i] ELSE IF k <= i THEN o[k - 1] ELSE o[k]]
<1>1. /\ n \in Nat
      /\ DOMAIN o = 1 .. n
      /\ n = 0 <=> x.cells = {}
      /\ \A k \in 1 .. n :
            /\ o[k] \in x.cells
            /\ k < n => x.next[o[k]] = o[k + 1]
            /\ k = n => x.next[o[k]] = NULL
      /\ x.cells # {} => x.first = o[1] /\ x.first \in x.cells
      /\ NULL \notin x.cells
  BY WalkFields
<1>2. \A j, k \in 1 .. n : o[j] = o[k] => j = k
  BY <1>1, WalkIsOneToOne
<1> HIDE DEF n
<1>3. i \in 1 .. n /\ i > 1 /\ i \in Nat
  BY <1>1 DEF n
<1>4. ASSUME NEW k \in 1 .. n
      PROVE  /\ p[k] = IF k = 1 THEN o[i] ELSE IF k <= i THEN o[k - 1] ELSE o[k]
             /\ p[k] \in x.cells
  BY <1>1, <1>3
<1>5. p \in [1 .. n -> x.cells]
  BY <1>4
<1>6. x.cells # {} /\ x.first = o[1] /\ 1 \in 1 .. n /\ 2 \in 1 .. n
  BY <1>1, <1>3
<1>7. y.first = p[1]
  BY <1>4, <1>6
<1> HIDE DEF p
<1>8. ASSUME NEW k \in 1 .. n
      PROVE  y.next[p[k]] = IF k + 1 \in 1 .. n THEN p[k + 1] ELSE NULL
  <2>1. CASE k = 1
    <3>1. p[1] = o[i] /\ p[2] = o[2 - 1]
      BY <1>3, <1>4, <1>6
    <3> QED
      BY <1>6, <2>1, <3>1
  <2>2. CASE k # 1 /\ k < i
    <3>1. /\ k - 1 \in 1 .. n /\ k + 1 \in 1 .. n /\ k + 1 # 1 /\ k + 1 <= i
          /\ k - 1 < n /\ (k - 1) + 1 = k /\ (k + 1) - 1 = k /\ k - 1 # i /\ k # i
      BY <1>1, <1>3, <2>2
    <3>2. p[k] = o[k - 1] /\ p[k + 1] = o[k]
      BY <1>4, <2>2, <3>1
    <3>3. /\ x.next[o[k - 1]] = o[k] /\ o[k] # o[i] /\ o[k - 1] # o[i]
          /\ o[k - 1] \in x.cells
      BY <1>1, <1>2, <1>3, <3>1
    <3> QED
      BY <3>1, <3>2, <3>3
  <2>3. CASE k = i
    <3>1. k - 1 \in 1 .. n /\ k - 1 < n /\ (k - 1) + 1 = k /\ k - 1 # i
      BY <1>1, <1>3, <2>3
    <3>2. /\ p[k] = o[k - 1] /\ x.next[o[k - 1]] = o[i] /\ o[k - 1] # o[i]
          /\ o[k - 1] \in x.cells
      BY <1>1, <1>2, <1>3, <1>4, <2>3, <3>1
    <3>3. y.next[p[k]] = x.next[o[i]]
      BY <3>2
    <3>4. k + 1 \in 1 .. n => p[k + 1] = o[k + 1] /\ k < n
      BY <1>1, <1>3, <1>4, <2>3
    <3>5. ~ (k + 1 \in 1 .. n) => k = n
      <4> HIDE DEF IsMoved
      <4>1. n \in Nat
        BY <1>1
      <4> QED
        BY <4>1
    <3> QED
      BY <1>1, <2>3, <3>3, <3>4, <3>5
  <2>4. CASE k > i
    <3>1. p[k] = o[k] /\ o[k] # o[i] /\ o[k] \in x.cells
      BY <1>1, <1>2, <1>3, <1>4, <2>4
    <3>2. CASE k < n
      <4>1. k + 1 \in 1 .. n /\ k + 1 # i /\ k + 1 # 1 /\ ~ (k + 1 <= i)
        BY <1>1, <1>3, <2>4, <3>2
      <4>2. p[k + 1] = o[k + 1] /\ x.next[o[k]] = o[k + 1] /\ o[k + 1] # o[i]
        BY <1>1, <1>2, <1>3, <1>4, <3>2, <4>1
      <4> QED
        BY <3>1, <4>1, <4>2
    <3>3. CASE k = n
      <4>1. x.next[o[k]] = NULL /\ o[i] # NULL /\ ~ (k + 1 \in 1 .. n)
        BY <1>1, <1>3, <3>3
      <4> QED
        BY <3>1, <4>1
    <3> QED
      BY <1>1, <3>2, <3>3
  <2> QED
    BY <1>1, <1>3, <2>1, <2>2, <2>3, <2>4
<1>9. DOMAIN p = 1 .. n
  BY <1>5
<1>10. IsWalk(y, p)
  <2>1. /\ p \in [1 .. Cardinality(y.cells) -> y.cells]
        /\ y.first = IF y.cells = {} THEN NULL ELSE p[1]
    BY <1>5, <1>6, <1>7 DEF n
  <2> QED
    BY <1>8, <1>9, <2>1 DEF IsWalk
<1> QED
  BY <1>4, <1>10 DEF n

----------------------------------------------------------------------------
\* Inserting into a sequence, and removing from it, place by place.

\* s with v at place i, and s without its place i
With(s, i, v) == SubSeq(s, 1, i - 1) \o <<v>> \o SubSeq(s, i, Len(s))
Without(s, i) == SubSeq(s, 1, i - 1) \o SubSeq(s, i + 1, Len(s))

LEMMA InsertedSeq ==
    ASSUME NEW S, NEW s \in Seq(S), NEW v \in S, NEW i \in 0 .. Len(s)
    PROVE  LET t == With(s, i + 1, v)
           IN  /\ t \in Seq(S)
               /\ Len(t) = Len(s) + 1
               /\ \A k \in 1 .. Len(s) + 1 :
                     t[k] = IF k <= i THEN s[k] ELSE IF k = i + 1 THEN v ELSE s[k - 1]
<1> DEFINE t1 == SubSeq(s, 1, (i + 1) - 1)
           t2 == SubSeq(s, i + 1, Len(s))
           t3 == t1 \o <<v>>
           t  == t3 \o t2
<1>1. /\ Len(s) \in Nat /\ i \in Int /\ i + 1 \in Int /\ (i + 1) - 1 = i
      /\ \A k \in 1 .. Len(s) : s[k] \in S
  BY LenProperties, ElementOfSeq
<1>2. /\ t1 \in Seq(S) /\ Len(t1) = i
      /\ \A k \in 1 .. i : t1[k] = s[k]
  <2>1. (i + 1) - 1 \in Int /\ \A k \in 1 .. (i + 1) - 1 : s[k] \in S
    BY <1>1
  <2> QED
    BY <1>1, <2>1, SubSeqProperties
<1>3. /\ t2 \in Seq(S) /\ Len(t2) = Len(s) - i
      /\ \A k \in 1 .. Len(s) - i : t2[k] = s[k + i]
  <2>1. Len(s) \in Int /\ \A k \in i + 1 .. Len(s) : s[k] \in S
    BY <1>1
  <2> QED
    BY <1>1, <2>1, SubSeqProperties
<1> HIDE DEF t1, t2
<1>4. <<v>> \in Seq(S) /\ Len(<<v>>) = 1 /\ <<v>>[1] = v
  OBVIOUS
<1>5. /\ t3 \in Seq(S) /\ Len(t3) = Len(t1) + Len(<<v>>)
      /\ \A k \in 1 .. Len(t1) + Len(<<v>>) :
            t3[k] = IF k <= Len(t1) THEN t1[k] ELSE <<v>>[k - Len(t1)]
  BY <1>2, <1>4, ConcatProperties, Zenon
<1> HIDE DEF t3
<1>6. /\ t3 \in Seq(S) /\ Len(t3) = i + 1 /\ t3[i + 1] = v
      /\ \A k \in 1 .. i : t3[k] = s[k]
  <2>1. Len(t1) = i /\ Len(<<v>>) = 1 /\ i \in Nat
    BY <1>1, <1>2, <1>4
  <2>2. \A k \in 1 .. i + 1 : t3[k] = IF k <= i THEN t1[k] ELSE <<v>>[k - i]
    BY <1>5, <2>1
  <2>3. \A k \in 1 .. i : k \in 1 .. i + 1 /\ k <= i
    BY <2>1
  <2>4. t3[i + 1] = <<v>>[1]
    <3>1. i + 1 \in 1 .. i + 1 /\ ~ i + 1 <= i /\ (i + 1) - i = 1
      BY <2>1
    <3> HIDE DEF t3
    <3> QED
      BY <2>2, <3>1
  <2> QED
    BY <1>2, <1>4, <1>5, <2>1, <2>2, <2>3, <2>4
<1>7. /\ t \in Seq(S) /\ Len(t) = Len(t3) + Len(t2)
      /\ \A k \in 1 .. Len(t3) + Len(t2) :
            t[k] = IF k <= Len(t3) THEN t3[k] ELSE t2[k - Len(t3)]
  BY <1>3, <1>6, ConcatProperties, Zenon
<1> HIDE DEF t
<1>8. Len(t) = Len(s) + 1 /\ Len(t3) + Len(t2) = Len(s) + 1
  BY <1>1, <1>3, <1>6, <1>7
<1>9. ASSUME NEW k \in 1 .. Len(s) + 1
      PROVE  t[k] = IF k <= i THEN s[k] ELSE IF k = i + 1 THEN v ELSE s[k - 1]
  <2>1. CASE k <= i + 1
    BY <1>1, <1>6, <1>7, <1>8, <2>1
  <2>2. CASE k > i + 1
    <3>1. k - (i + 1) \in 1 .. Len(s) - i /\ (k - (i + 1)) + i = k - 1 /\ ~ (k <= i + 1)
      BY <1>1, <2>2
    <3>2. t[k] = t2[k - (i + 1)]
      BY <1>6, <1>7, <1>8, <3>1
    <3>3. t2[k - (i + 1)] = s[k - 1]
      BY <1>3, <3>1
    <3> QED
      BY <1>1, <2>2, <3>2, <3>3
  <2> QED
    BY <1>1, <2>1, <2>2
<1> QED
  BY <1>7, <1>8, <1>9 DEF With, t, t3, t2, t1

LEMMA RemovedSeq ==
    ASSUME NEW S, NEW s \in Seq(S), NEW i \in 1 .. Len(s)
    PROVE  LET t == Without(s, i)
           IN  /\ t \in Seq(S)
               /\ Len(t) = Len(s) - 1
               /\ \A k \in 1 .. Len(s) - 1 : t[k] = IF k < i THEN s[k] ELSE s[k + 1]
<1> DEFINE t1 == SubSeq(s, 1, i - 1)
           t2 == SubSeq(s, i + 1, Len(s))
           t  == t1 \o t2
<1>1. /\ Len(s) \in Nat /\ i \in Int /\ i + 1 \in Int /\ i - 1 \in Int
      /\ \A k \in 1 .. Len(s) : s[k] \in S
  BY LenProperties, ElementOfSeq
<1>2. /\ t1 \in Seq(S) /\ Len(t1) = i - 1
      /\ \A k \in 1 .. i - 1 : t1[k] = s[k]
  <2>1. \A k \in 1 .. i - 1 : s[k] \in S
    BY <1>1
  <2> QED
    BY <1>1, <2>1, SubSeqProperties
<1>3. /\ t2 \in Seq(S) /\ Len(t2) = Len(s) - i
      /\ \A k \in 1 .. Len(s) - i : t2[k] = s[k + i]
  <2>1. Len(s) \in Int /\ \A k \in i + 1 .. Len(s) : s[k] \in S
    BY <1>1
  <2> QED
    BY <1>1, <2>1, SubSeqProperties
<1> HIDE DEF t1, t2
<1>4. /\ t \in Seq(S) /\ Len(t) = Len(t1) + Len(t2)
      /\ \A k \in 1 .. Len(t1) + Len(t2) :
            t[k] = IF k <= Len(t1) THEN t1[k] ELSE t2[k - Len(t1)]
  BY <1>2, <1>3, ConcatProperties, Zenon
<1> HIDE DEF t
<1>5. Len(t1) + Len(t2) = Len(s) - 1
  BY <1>1, <1>2, <1>3
<1>6. ASSUME NEW k \in 1 .. Len(s) - 1
      PROVE  t[k] = IF k < i THEN s[k] ELSE s[k + 1]
  <2>1. CASE k < i
    BY <1>1, <1>2, <1>4, <1>5, <2>1
  <2>2. CASE ~ (k < i)
    <3>1. k - (i - 1) \in 1 .. Len(s) - i /\ (k - (i - 1)) + i = k + 1 /\ ~ (k <= i - 1)
      BY <1>1, <2>2
    <3> QED
      BY <1>1, <1>2, <1>3, <1>4, <1>5, <2>2, <3>1
  <2> QED
    BY <2>1, <2>2
<1> QED
  BY <1>4, <1>5, <1>6 DEF Without, t, t1, t2
=============================================================================
