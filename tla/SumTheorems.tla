---------------------------- MODULE SumTheorems ----------------------------
(***************************************************************************)
(* Facts about SumFunction of the community modules, which the models use  *)
(* for every sum over regions or groups of regions: what it is worth, when *)
(* one element is added or changed, and how two sums compare; and a little *)
(* arithmetic and counting that goes with it.                              *)
(*                                                                         *)
(* The induction theorems of the library take the property to prove as an  *)
(* operator.  Here it is a set: of the natural numbers, or of the subsets  *)
(* of a finite set, that have the property.                                *)
(***************************************************************************)
EXTENDS Integers, FiniteSets, Functions, FiniteSetTheorems, WellFoundedInduction, TLAPS

(***************************************************************************)
(* Arithmetic.                                                             *)
(***************************************************************************)

\* Division with remainder.
LEMMA DivMod ==
  ASSUME NEW x \in Int, NEW h \in Nat \ {0}
  PROVE  /\ x \div h \in Int
         /\ x % h \in 0..h - 1
         /\ x = h * (x \div h) + (x % h)
  OBVIOUS

\* A quotient is at least q if h * q fits.
LEMMA QuotientAtLeast ==
  ASSUME NEW x \in Int, NEW h \in Nat \ {0}, NEW q \in Int, h * q <= x
  PROVE  q <= x \div h
  <1> DEFINE d == x \div h
             e == x % h
  <1>1. d \in Int /\ e \in 0..h - 1 /\ x = h * d + e
    BY DivMod
  <1> HIDE DEF d, e
  <1> SUFFICES ASSUME d + 1 <= q
               PROVE  FALSE
    BY <1>1 DEF d
  <1>2. q - (d + 1) \in Nat
    BY <1>1
  <1>3. h * (q - (d + 1)) >= 0
    BY <1>2
  <1>4. h * (q - (d + 1)) = h * q - h * d - h
    BY <1>1
  <1>5. h * q \in Int /\ h * d \in Int
    BY <1>1
  <1> QED
    BY <1>1, <1>3, <1>4, <1>5

\* A product grows with its second factor.
LEMMA ProductMono ==
  ASSUME NEW n \in Nat, NEW a \in Int, NEW b \in Int, a <= b
  PROVE  n * a \in Int /\ n * b \in Int /\ n * a <= n * b
  <1>1. b - a \in Nat /\ n * (b - a) \in Nat
    OBVIOUS
  <1>2. n * (b - a) = n * b - n * a /\ n * b \in Int /\ n * a \in Int
    OBVIOUS
  <1> QED
    BY <1>1, <1>2

(***************************************************************************)
(* Induction.                                                              *)
(***************************************************************************)

\* A set of natural numbers that is not empty has a least element.
LEMMA LeastNatural ==
  ASSUME NEW T \in SUBSET Nat, T # {}
  PROVE  \E x \in T : \A y \in T : x <= y
  <1> DEFINE less == {ss \in Nat \X Nat : ss[1] < ss[2]}
  <1>1. IsWellFoundedOn(less, Nat)
    BY NatLessThanWellFounded DEF OpToRel
  <1> HIDE DEF less
  <1>2. PICK x \in T : \A y \in T : ~ (<<y, x>> \in less)
    BY <1>1, WFMin
  <1>3. \A y \in T : ~ (y < x)
    <2> SUFFICES ASSUME NEW y \in T, y < x
                 PROVE  FALSE
      OBVIOUS
    <2>1. <<y, x>> \in Nat \X Nat
      OBVIOUS
    <2> QED
      BY <1>2, <2>1 DEF less
  <1> QED
    BY <1>3

\* Induction on the natural numbers.
LEMMA NaturalInduction ==
  ASSUME NEW P \in SUBSET Nat, 0 \in P, \A n \in P : n + 1 \in P, NEW k \in Nat
  PROVE  k \in P
  <1> SUFFICES ASSUME k \notin P
               PROVE  FALSE
    OBVIOUS
  <1>1. PICK n \in Nat \ P : \A m \in Nat \ P : n <= m
    BY LeastNatural
  <1>2. n # 0 /\ n - 1 \in Nat /\ ~(n <= n - 1)
    OBVIOUS
  <1>3. n - 1 \in P
    BY <1>1, <1>2
  <1>4. (n - 1) + 1 \in P /\ (n - 1) + 1 = n
    BY <1>2, <1>3
  <1> QED
    BY <1>1, <1>4

\* Induction on the subsets of a finite set.
LEMMA SubsetInduction ==
  ASSUME NEW S, IsFiniteSet(S), NEW P \in SUBSET SUBSET S,
         \A T \in SUBSET S : (\A U \in SUBSET T : U # T => U \in P) => T \in P
  PROVE  \A T \in SUBSET S : T \in P
  <1> DEFINE R == StrictSubsetOrdering(S)
             Q == (SUBSET S) \ P
  <1>1. IsWellFoundedOn(R, SUBSET S)
    BY FS_StrictSubsetOrderingWellFounded, FS_FiniteSubsetsOfFinite, Zenon
  <1> SUFFICES ASSUME NEW T \in SUBSET S, T \notin P
               PROVE  FALSE
    OBVIOUS
  <1>2. PICK M \in Q : \A U \in Q : ~ (<<U, M>> \in R)
    <2>1. Q \subseteq SUBSET S /\ Q # {}
      OBVIOUS
    <2> HIDE DEF R, Q
    <2>2. \E M \in Q : \A U \in Q : ~ (<<U, M>> \in R)
      BY <1>1, <2>1, WFMin
    <2> QED
      BY <2>2
  <1>3. \A U \in SUBSET M : U # M => U \in P
    <2> SUFFICES ASSUME NEW U \in SUBSET M, U # M, U \notin P
                 PROVE  FALSE
      OBVIOUS
    <2>1. U \in Q /\ <<U, M>> \in (SUBSET S) \X (SUBSET S)
      OBVIOUS
    <2>2. <<U, M>> \in R
      BY <2>1 DEF StrictSubsetOrdering
    <2> QED
      BY <1>2, <2>1, <2>2
  <1> QED
    BY <1>2, <1>3

(***************************************************************************)
(* The functions that SumFunction and FoldFunction are defined by.         *)
(***************************************************************************)

\* The element that is taken out of a set.
AnyOf(T) == CHOOSE x \in T : TRUE

\* The folds with op of f over the subsets of S, which take out the element
\* that ch has for the set; those that take out AnyOf and begin with 0, the
\* sums, and the maxima.
FoldsBy(op, base, ch, f, S, it) ==
  it = [T \in SUBSET S |-> IF T = {} THEN base ELSE op[<<f[ch[T]], it[T \ {ch[T]}]>>]]
FoldsOf(op, f, S, it) ==
  it = [T \in SUBSET S |-> IF T = {} THEN 0 ELSE op[<<f[AnyOf(T)], it[T \ {AnyOf(T)}]>>]]
Sums(f, S, it) ==
  it = [T \in SUBSET S |-> IF T = {} THEN 0 ELSE f[AnyOf(T)] + it[T \ {AnyOf(T)}]]
Tops(f, S, it) ==
  it = [T \in SUBSET S |->
          IF T = {} THEN 0
          ELSE IF f[AnyOf(T)] > it[T \ {AnyOf(T)}] THEN f[AnyOf(T)] ELSE it[T \ {AnyOf(T)}]]

\* They exist, by induction on the size of the subsets.
LEMMA FoldsByExist ==
  ASSUME NEW op, NEW base, NEW f, NEW S, IsFiniteSet(S),
         NEW ch, \A T \in SUBSET S : T # {} => ch[T] \in T
  PROVE  \E it : FoldsBy(op, base, ch, f, S, it)
  <1> DEFINE Small(n) == {T \in SUBSET S : Cardinality(T) <= n}
             FoldsTo(n, it) ==
               it = [T \in Small(n) |->
                       IF T = {} THEN base ELSE op[<<f[ch[T]], it[T \ {ch[T]}]>>]]
             P == {n \in Nat : \E it : FoldsTo(n, it)}
  <1>1. \A T \in SUBSET S : IsFiniteSet(T) /\ Cardinality(T) \in Nat
                            /\ Cardinality(T) <= Cardinality(S)
    BY FS_Subset, FS_CardinalityType
  <1>2. Cardinality(S) \in Nat
    BY FS_CardinalityType
  <1>3. 0 \in P
    <2>1. Small(0) = {{}}
      BY <1>1, FS_EmptySet
    <2>2. FoldsTo(0, [T \in {{}} |-> base])
      BY <2>1
    <2> QED
      BY <2>2
  <1>4. ASSUME NEW n \in P
        PROVE  n + 1 \in P
    <2>1. PICK it : FoldsTo(n, it)
      OBVIOUS
    <2> DEFINE more == [T \in Small(n + 1) |->
                          IF T = {} THEN base ELSE op[<<f[ch[T]], it[T \ {ch[T]}]>>]]
    <2>2. ASSUME NEW T \in Small(n + 1), T # {}
          PROVE  it[T \ {ch[T]}] = more[T \ {ch[T]}]
      <3> DEFINE U == T \ {ch[T]}
      <3>1. ch[T] \in T
        BY <2>2
      <3>2. Cardinality(U) = Cardinality(T) - 1
        BY <1>1, <3>1, FS_RemoveElement
      <3>3. U \in Small(n) /\ U \in Small(n + 1)
        BY <1>1, <3>2
      <3> HIDE DEF U, Small
      <3>4. it[U] = IF U = {} THEN base ELSE op[<<f[ch[U]], it[U \ {ch[U]}]>>]
        BY <2>1, <3>3
      <3>5. more[U] = IF U = {} THEN base ELSE op[<<f[ch[U]], it[U \ {ch[U]}]>>]
        BY <3>3
      <3> QED
        BY <3>4, <3>5 DEF U
    <2>3. FoldsTo(n + 1, more)
      <3> HIDE DEF Small
      <3> QED
        BY <2>2, Zenon
    <2> HIDE DEF FoldsTo
    <2>4. n + 1 \in Nat /\ \E i : FoldsTo(n + 1, i)
      BY <2>3
    <2> QED
      BY <2>4
  <1>5. Cardinality(S) \in P
    <2> HIDE DEF P
    <2>1. P \in SUBSET Nat
      BY DEF P
    <2> QED
      BY <1>2, <1>3, <1>4, <2>1, NaturalInduction
  <1>6. Small(Cardinality(S)) = SUBSET S
    BY <1>1
  <1> QED
    BY <1>5, <1>6 DEF FoldsBy

\* In particular those that take out AnyOf.
LEMMA FoldsExist ==
  ASSUME NEW op, NEW f, NEW S, IsFiniteSet(S)
  PROVE  \E it : FoldsOf(op, f, S, it)
  <1> DEFINE ch == [T \in SUBSET S |-> AnyOf(T)]
  <1>1. \A T \in SUBSET S : ch[T] = AnyOf(T) /\ (T # {} => ch[T] \in T)
    BY DEF AnyOf
  <1> HIDE DEF ch
  <1>2. PICK it : FoldsBy(op, 0, ch, f, S, it)
    BY <1>1, FoldsByExist
  <1>3. it = [T \in SUBSET S |-> IF T = {} THEN 0 ELSE op[<<f[AnyOf(T)], it[T \ {AnyOf(T)}]>>]]
    BY <1>1, <1>2, Zenon DEF FoldsBy
  <1> QED
    BY <1>3 DEF FoldsOf

\* Folds of integers are integers.
LEMMA FoldsType ==
  ASSUME NEW op \in [Int \X Int -> Int], NEW f, NEW S, IsFiniteSet(S),
         \A x \in S : f[x] \in Int, NEW it, FoldsOf(op, f, S, it), NEW T \in SUBSET S
  PROVE  it[T] \in Int
  <1> DEFINE P == {U \in SUBSET S : it[U] \in Int}
  <1>1. \A U \in SUBSET S :
          it[U] = IF U = {} THEN 0 ELSE op[<<f[AnyOf(U)], it[U \ {AnyOf(U)}]>>]
    BY DEF FoldsOf
  <1>2. ASSUME NEW U \in SUBSET S, \A V \in SUBSET U : V # U => V \in P
        PROVE  U \in P
    <2>1. CASE U = {}
      <3>1. it[U] = 0
        BY <1>1, <2>1, Zenon
      <3> QED
        BY <3>1
    <2>2. CASE U # {}
      <3>1. AnyOf(U) \in U
        BY <2>2 DEF AnyOf
      <3>2. it[U \ {AnyOf(U)}] \in Int /\ f[AnyOf(U)] \in Int
        BY <1>2, <3>1
      <3>3. it[U] = op[<<f[AnyOf(U)], it[U \ {AnyOf(U)}]>>]
        BY <1>1, <2>2
      <3>4. it[U] \in Int
        BY <3>2, <3>3
      <3> QED
        BY <3>4
    <2> QED
      BY <2>1, <2>2
  <1>3. T \in P
    <2>1. P \in SUBSET SUBSET S
      OBVIOUS
    <2>2. \A U \in SUBSET S : (\A V \in SUBSET U : V # U => V \in P) => U \in P
      BY <1>2
    <2> HIDE DEF P
    <2>3. \A U \in SUBSET S : U \in P
      BY <2>1, <2>2, SubsetInduction
    <2> QED
      BY <2>3
  <1> QED
    BY <1>3

\* So the sums exist, and SumFunction is their value at the whole domain.
LEMMA SumIsSums ==
  ASSUME NEW f, IsFiniteSet(DOMAIN f), \A x \in DOMAIN f : f[x] \in Int
  PROVE  \E it : Sums(f, DOMAIN f, it) /\ SumFunction(f) = it[DOMAIN f]
  <1> DEFINE op == [p \in Int \X Int |-> p[1] + p[2]]
             S == DOMAIN f
  <1>1. PICK it : FoldsOf(op, f, S, it)
    BY FoldsExist
  <1>2. op \in [Int \X Int -> Int] /\ \A i, j \in Int : op[<<i, j>>] = i + j
    OBVIOUS
  <1>3. \A T \in SUBSET S : it[T] \in Int
    <2> HIDE DEF op, S
    <2>1. IsFiniteSet(S) /\ \A x \in S : f[x] \in Int
      BY DEF S
    <2> QED
      BY <1>1, <1>2, <2>1, FoldsType
  <1>4. Sums(f, S, it)
    <2> HIDE DEF op
    <2>1. \A T \in SUBSET S : T # {} => op[<<f[AnyOf(T)], it[T \ {AnyOf(T)}]>>]
                                          = f[AnyOf(T)] + it[T \ {AnyOf(T)}]
      BY <1>2, <1>3 DEF AnyOf
    <2> HIDE DEF S
    <2> QED
      BY <1>1, <2>1, Zenon DEF FoldsOf, Sums
  <1> DEFINE sums == CHOOSE i : Sums(f, DOMAIN f, i)
  <1>5. SumFunction(f) = sums[DOMAIN f]
    BY DEF SumFunction, SumFunctionOnSet, FoldFunctionOnSet, MapThenFoldSet, Sums, AnyOf
  <1>6. Sums(f, DOMAIN f, sums)
    BY <1>4
  <1> QED
    BY <1>5, <1>6

\* And FoldFunction with the maximum is at least 0 and every value, and it is
\* 0 or one of the values.
LEMMA FoldIsMaximum ==
  ASSUME NEW f, IsFiniteSet(DOMAIN f), \A x \in DOMAIN f : f[x] \in Int
  PROVE  LET top == FoldFunction(LAMBDA h, m : IF h > m THEN h ELSE m, 0, f)
         IN  /\ top \in Nat
             /\ \A x \in DOMAIN f : f[x] <= top
             /\ top = 0 \/ \E x \in DOMAIN f : f[x] = top
  <1> DEFINE op == [p \in Int \X Int |-> IF p[1] > p[2] THEN p[1] ELSE p[2]]
             S == DOMAIN f
  <1>1. PICK it : FoldsOf(op, f, S, it)
    BY FoldsExist
  <1>2. op \in [Int \X Int -> Int] /\ \A i, j \in Int : op[<<i, j>>] = IF i > j THEN i ELSE j
    OBVIOUS
  <1>3. \A T \in SUBSET S : it[T] \in Int
    <2> HIDE DEF op, S
    <2>1. IsFiniteSet(S) /\ \A x \in S : f[x] \in Int
      BY DEF S
    <2> QED
      BY <1>1, <1>2, <2>1, FoldsType
  <1>4. Tops(f, S, it)
    <2> HIDE DEF op
    <2>1. \A T \in SUBSET S : T # {} =>
            op[<<f[AnyOf(T)], it[T \ {AnyOf(T)}]>>]
              = IF f[AnyOf(T)] > it[T \ {AnyOf(T)}] THEN f[AnyOf(T)] ELSE it[T \ {AnyOf(T)}]
      BY <1>2, <1>3 DEF AnyOf
    <2> HIDE DEF S
    <2> QED
      BY <1>1, <2>1, Zenon DEF FoldsOf, Tops
  <1> DEFINE tops == CHOOSE i : Tops(f, DOMAIN f, i)
             top == FoldFunction(LAMBDA h, m : IF h > m THEN h ELSE m, 0, f)
  <1>5. top = tops[DOMAIN f]
    BY DEF FoldFunction, FoldFunctionOnSet, MapThenFoldSet, Tops, AnyOf
  <1>6. Tops(f, DOMAIN f, tops)
    BY <1>4
  <1> HIDE DEF tops, top
  <1>7. tops[S] \in Nat /\ (\A x \in S : f[x] <= tops[S])
        /\ (tops[S] = 0 \/ \E x \in S : f[x] = tops[S])
    <2> HIDE DEF S
    <2> DEFINE P == {T \in SUBSET S :
                      /\ tops[T] \in Nat /\ \A x \in T : f[x] <= tops[T]
                      /\ tops[T] = 0 \/ \E x \in T : f[x] = tops[T]}
    <2>1. ASSUME NEW T \in SUBSET S, \A U \in SUBSET T : U # T => U \in P
          PROVE  T \in P
      <3>1. tops[T] = IF T = {} THEN 0
                      ELSE IF f[AnyOf(T)] > tops[T \ {AnyOf(T)}] THEN f[AnyOf(T)]
                                                             ELSE tops[T \ {AnyOf(T)}]
        BY <1>6, Zenon DEF Tops, S
      <3>2. CASE T = {}
        BY <3>1, <3>2
      <3>3. CASE T # {}
        <4> DEFINE a == AnyOf(T)
                   U == T \ {a}
        <4>1. a \in T
          BY <3>3 DEF AnyOf
        <4>2. f[a] \in Int /\ \A x \in T : f[x] \in Int
          BY <4>1 DEF S
        <4>3. U \in P
          BY <2>1, <4>1
        <4>4. tops[T] = IF f[a] > tops[U] THEN f[a] ELSE tops[U]
          BY <3>1, <3>3
        <4> HIDE DEF a
        <4>5. \A x \in T : x = a \/ x \in U
          OBVIOUS
        <4>6. tops[U] \in Nat /\ (\A x \in U : f[x] <= tops[U])
              /\ (tops[U] = 0 \/ \E x \in U : f[x] = tops[U])
          BY <4>3
        <4> HIDE DEF U
        <4>7. tops[T] \in Nat /\ \A x \in T : f[x] <= tops[T]
          BY <4>2, <4>4, <4>5, <4>6
        <4>8. tops[T] = 0 \/ \E x \in T : f[x] = tops[T]
          BY <4>1, <4>4, <4>6 DEF U
        <4> QED
          BY <4>7, <4>8
      <3> QED
        BY <3>2, <3>3
    <2>2. S \in P
      <3>1. P \in SUBSET SUBSET S /\ S \in SUBSET S
        OBVIOUS
      <3>2. \A T \in SUBSET S : (\A U \in SUBSET T : U # T => U \in P) => T \in P
        BY <2>1
      <3>3. IsFiniteSet(S)
        BY DEF S
      <3> HIDE DEF P
      <3> QED
        BY <3>1, <3>2, <3>3, SubsetInduction
    <2> QED
      BY <2>2
  <1>8. top = tops[S]
    BY <1>5
  <1>9. /\ top \in Nat
        /\ \A x \in DOMAIN f : f[x] <= top
        /\ top = 0 \/ \E x \in DOMAIN f : f[x] = top
    BY <1>7, <1>8
  <1> QED
    BY <1>9 DEF top

\* One step of a sum.
LEMMA SumsStep ==
  ASSUME NEW f, NEW S, NEW it, Sums(f, S, it)
  PROVE  /\ it[{}] = 0
         /\ \A T \in SUBSET S : T # {} =>
              AnyOf(T) \in T /\ it[T] = f[AnyOf(T)] + it[T \ {AnyOf(T)}]
  <1>1. \A T : T # {} => AnyOf(T) \in T
    BY DEF AnyOf
  <1>2. \A T \in SUBSET S :
          it[T] = IF T = {} THEN 0 ELSE f[AnyOf(T)] + it[T \ {AnyOf(T)}]
    BY DEF Sums
  <1> QED
    BY <1>1, <1>2

\* A sum of integers is one.
LEMMA SumsType ==
  ASSUME NEW f, NEW S, IsFiniteSet(S), \A x \in S : f[x] \in Int,
         NEW it, Sums(f, S, it), NEW T \in SUBSET S
  PROVE  it[T] \in Int
  <1> DEFINE P == {U \in SUBSET S : it[U] \in Int}
  <1>0. /\ it[{}] = 0
        /\ \A U \in SUBSET S : U # {} =>
             AnyOf(U) \in U /\ it[U] = f[AnyOf(U)] + it[U \ {AnyOf(U)}]
    BY SumsStep
  <1>1. ASSUME NEW U \in SUBSET S, \A V \in SUBSET U : V # U => V \in P
        PROVE  U \in P
    <2>1. CASE U = {}
      BY <1>0, <2>1
    <2>2. CASE U # {}
      <3>1. AnyOf(U) \in U /\ it[U] = f[AnyOf(U)] + it[U \ {AnyOf(U)}]
        BY <1>0, <2>2
      <3>2. it[U \ {AnyOf(U)}] \in Int
        BY <1>1, <3>1
      <3> QED
        BY <3>1, <3>2
    <2> QED
      BY <2>1, <2>2
  <1>2. T \in P
    <2>1. P \in SUBSET SUBSET S
      OBVIOUS
    <2>2. \A U \in SUBSET S : (\A V \in SUBSET U : V # U => V \in P) => U \in P
      BY <1>1
    <2> HIDE DEF P
    <2> QED
      BY <2>1, <2>2, SubsetInduction
  <1> QED
    BY <1>2

\* It does not matter which element is added last.
LEMMA SumsRemove ==
  ASSUME NEW f, NEW S, IsFiniteSet(S), \A x \in S : f[x] \in Int,
         NEW it, Sums(f, S, it), NEW T \in SUBSET S, NEW x \in T
  PROVE  it[T] = f[x] + it[T \ {x}]
  <1> DEFINE P == {U \in SUBSET S : \A y \in U : it[U] = f[y] + it[U \ {y}]}
  <1>1. \A U \in SUBSET S : it[U] \in Int
    BY SumsType
  <1>2. ASSUME NEW U \in SUBSET S, \A V \in SUBSET U : V # U => V \in P
        PROVE  U \in P
    <2> SUFFICES ASSUME NEW y \in U
                 PROVE  it[U] = f[y] + it[U \ {y}]
      OBVIOUS
    <2> DEFINE a == AnyOf(U)
    <2>1. a \in U /\ it[U] = f[a] + it[U \ {a}]
      <3>1. \A V \in SUBSET S : V # {} =>
              AnyOf(V) \in V /\ it[V] = f[AnyOf(V)] + it[V \ {AnyOf(V)}]
        BY SumsStep
      <3> QED
        BY <3>1
    <2> HIDE DEF a
    <2>2. CASE y = a
      BY <2>1, <2>2
    <2>3. CASE y # a
      <3>1. U \ {a} \in P /\ U \ {y} \in P
        BY <1>2, <2>1
      <3>2. it[U \ {a}] = f[y] + it[(U \ {a}) \ {y}]
        BY <2>3, <3>1
      <3>3. it[U \ {y}] = f[a] + it[(U \ {y}) \ {a}]
        BY <2>1, <2>3, <3>1
      <3>4. (U \ {a}) \ {y} = (U \ {y}) \ {a}
        OBVIOUS
      <3>5. f[y] \in Int /\ f[a] \in Int /\ it[(U \ {y}) \ {a}] \in Int
        BY <1>1, <2>1
      <3>6. it[U] = f[a] + (f[y] + it[(U \ {y}) \ {a}])
        BY <2>1, <3>2, <3>4
      <3> QED
        BY <3>3, <3>5, <3>6
    <2> QED
      BY <2>2, <2>3
  <1>3. T \in P
    <2>1. P \in SUBSET SUBSET S
      OBVIOUS
    <2>2. \A U \in SUBSET S : (\A V \in SUBSET U : V # U => V \in P) => U \in P
      BY <1>2
    <2> HIDE DEF P
    <2> QED
      BY <2>1, <2>2, SubsetInduction
  <1> QED
    BY <1>3

\* A sum depends only on what is added.
LEMMA SumsAgree ==
  ASSUME NEW f, NEW S, IsFiniteSet(S), NEW a, Sums(f, S, a),
         NEW g, NEW R, NEW b, Sums(g, R, b),
         NEW T \in SUBSET (S \intersect R), \A x \in T : f[x] = g[x]
  PROVE  a[T] = b[T]
  <1> DEFINE P == {U \in SUBSET S : U \subseteq T => a[U] = b[U]}
  <1>1. ASSUME NEW U \in SUBSET S, \A V \in SUBSET U : V # U => V \in P, U \subseteq T
        PROVE  a[U] = b[U]
    <2>1. U \in SUBSET S /\ U \in SUBSET R
      BY <1>1
    <2>2. CASE U = {}
      <3>1. a[{}] = 0 /\ b[{}] = 0
        BY SumsStep
      <3> QED
        BY <2>2, <3>1
    <2>3. CASE U # {}
      <3>1. AnyOf(U) \in U /\ a[U] = f[AnyOf(U)] + a[U \ {AnyOf(U)}]
        BY <2>1, <2>3, SumsStep
      <3>2. b[U] = g[AnyOf(U)] + b[U \ {AnyOf(U)}]
        <4>1. \A V \in SUBSET R : V # {} =>
                AnyOf(V) \in V /\ b[V] = g[AnyOf(V)] + b[V \ {AnyOf(V)}]
          BY SumsStep
        <4> QED
          BY <2>1, <2>3, <4>1
      <3>3. a[U \ {AnyOf(U)}] = b[U \ {AnyOf(U)}]
        BY <1>1, <3>1
      <3> QED
        BY <1>1, <3>1, <3>2, <3>3
    <2> QED
      BY <2>2, <2>3
  <1>2. T \in P
    <2>1. P \in SUBSET SUBSET S
      OBVIOUS
    <2>2. \A U \in SUBSET S : (\A V \in SUBSET U : V # U => V \in P) => U \in P
      BY <1>1
    <2> HIDE DEF P
    <2> QED
      BY <2>1, <2>2, SubsetInduction
  <1> QED
    BY <1>2

(***************************************************************************)
(* The sum of the values of a function at a finite set.                    *)
(***************************************************************************)

SumOn(f, S) == SumFunction([x \in S |-> f[x]])

\* The sum at a set is a value of the function behind SumFunction.
LEMMA SumOnSums ==
  ASSUME NEW f, NEW S, IsFiniteSet(S), \A x \in S : f[x] \in Int
  PROVE  \E it : Sums([x \in S |-> f[x]], S, it) /\ SumOn(f, S) = it[S]
  <1> DEFINE h == [x \in S |-> f[x]]
  <1>1. DOMAIN h = S /\ \A x \in S : h[x] \in Int
    OBVIOUS
  <1> HIDE DEF h
  <1>2. \E it : Sums(h, S, it) /\ SumFunction(h) = it[S]
    BY <1>1, SumIsSums
  <1> QED
    BY <1>2 DEF SumOn, h

\* The sum of nothing.
LEMMA SumOnEmpty ==
  ASSUME NEW f
  PROVE  SumOn(f, {}) = 0
  <1>1. PICK it : Sums([x \in {} |-> f[x]], {}, it) /\ SumOn(f, {}) = it[{}]
    BY FS_EmptySet, SumOnSums
  <1> QED
    BY <1>1, SumsStep

\* A sum of integers is one.
LEMMA SumOnInt ==
  ASSUME NEW f, NEW S, IsFiniteSet(S), \A x \in S : f[x] \in Int
  PROVE  SumOn(f, S) \in Int
  <1> DEFINE h == [x \in S |-> f[x]]
  <1>1. PICK it : Sums(h, S, it) /\ SumOn(f, S) = it[S]
    BY SumOnSums
  <1>2. \A x \in S : h[x] \in Int
    OBVIOUS
  <1> HIDE DEF h
  <1> QED
    BY <1>1, <1>2, SumsType

\* One more element.
LEMMA SumOnInsert ==
  ASSUME NEW f, NEW S, IsFiniteSet(S), NEW y, y \notin S,
         \A x \in S \union {y} : f[x] \in Int
  PROVE  SumOn(f, S \union {y}) = f[y] + SumOn(f, S)
  <1> DEFINE R == S \union {y}
             g == [x \in S |-> f[x]]
             h == [x \in R |-> f[x]]
  <1>1. IsFiniteSet(R)
    BY FS_AddElement
  <1>2. PICK a : Sums(g, S, a) /\ SumOn(f, S) = a[S]
    BY SumOnSums
  <1>3. PICK b : Sums(h, R, b) /\ SumOn(f, R) = b[R]
    BY <1>1, SumOnSums
  <1>4. /\ \A x \in R : h[x] \in Int
        /\ \A x \in S : g[x] = h[x]
        /\ h[y] = f[y]
    OBVIOUS
  <1>5. R \in SUBSET R /\ y \in R /\ R \ {y} = S /\ S \in SUBSET (S \intersect R)
    OBVIOUS
  <1> HIDE DEF R, g, h
  <1>6. b[R] = h[y] + b[R \ {y}]
    BY <1>1, <1>3, <1>4, <1>5, SumsRemove
  <1>7. a[S] = b[S]
    BY <1>2, <1>3, <1>4, <1>5, SumsAgree
  <1> QED
    BY <1>2, <1>3, <1>4, <1>5, <1>6, <1>7 DEF R

\* One element by itself.
LEMMA SumOnRemove ==
  ASSUME NEW f, NEW S, IsFiniteSet(S), NEW y \in S, \A x \in S : f[x] \in Int
  PROVE  SumOn(f, S) = f[y] + SumOn(f, S \ {y})
  <1>1. IsFiniteSet(S \ {y}) /\ (S \ {y}) \union {y} = S /\ y \notin S \ {y}
    BY FS_RemoveElement
  <1> QED
    BY <1>1, SumOnInsert

\* Equal values, equal sums.
LEMMA SumOnEqual ==
  ASSUME NEW f, NEW g, NEW S, \A x \in S : f[x] = g[x]
  PROVE  SumOn(f, S) = SumOn(g, S)
  <1>1. [x \in S |-> f[x]] = [x \in S |-> g[x]]
    OBVIOUS
  <1> QED
    BY <1>1 DEF SumOn

\* A function with a domain is summed over it.
LEMMA SumOfFunction ==
  ASSUME NEW f, f = [x \in DOMAIN f |-> f[x]]
  PROVE  SumFunction(f) = SumOn(f, DOMAIN f)
  BY DEF SumOn

(***************************************************************************)
(* Comparisons.                                                            *)
(***************************************************************************)

\* Induction over a finite set, one element after the other.
LEMMA ElementInduction ==
  ASSUME NEW S, IsFiniteSet(S), NEW P \in SUBSET SUBSET S, {} \in P,
         \A T \in P : \A x \in S \ T : T \union {x} \in P
  PROVE  S \in P
  <1>1. ASSUME NEW T \in SUBSET S, \A U \in SUBSET T : U # T => U \in P
        PROVE  T \in P
    <2>1. CASE T = {}
      BY <2>1
    <2>2. CASE T # {}
      <3>1. PICK x \in T : TRUE
        BY <2>2
      <3>2. T \ {x} \in P /\ x \in S \ (T \ {x})
        BY <1>1, <3>1
      <3>3. (T \ {x}) \union {x} = T
        BY <3>1
      <3> QED
        BY <3>2, <3>3
    <2> QED
      BY <2>1, <2>2
  <1>2. S \in SUBSET S
    OBVIOUS
  <1> QED
    BY <1>1, <1>2, SubsetInduction

\* A larger value everywhere is a larger sum.
LEMMA SumOnMono ==
  ASSUME NEW f, NEW g, NEW S, IsFiniteSet(S),
         \A x \in S : f[x] \in Int /\ g[x] \in Int /\ f[x] <= g[x]
  PROVE  SumOn(f, S) <= SumOn(g, S)
  <1> DEFINE P == {T \in SUBSET S : SumOn(f, T) <= SumOn(g, T)}
  <1>1. {} \in P
    BY SumOnEmpty
  <1>2. ASSUME NEW T \in P, NEW x \in S \ T
        PROVE  T \union {x} \in P
    <2>1. IsFiniteSet(T) /\ x \notin T
      BY FS_Subset
    <2>2. SumOn(f, T \union {x}) = f[x] + SumOn(f, T) /\ SumOn(f, T) \in Int
      BY <2>1, SumOnInsert, SumOnInt
    <2>3. SumOn(g, T \union {x}) = g[x] + SumOn(g, T) /\ SumOn(g, T) \in Int
      BY <2>1, SumOnInsert, SumOnInt
    <2> QED
      BY <2>2, <2>3
  <1>3. S \in P
    <2>1. P \in SUBSET SUBSET S
      OBVIOUS
    <2> HIDE DEF P
    <2> QED
      BY <1>1, <1>2, <2>1, ElementInduction
  <1> QED
    BY <1>3

\* The same value everywhere.
LEMMA SumOnConstant ==
  ASSUME NEW f, NEW c \in Int, NEW S, IsFiniteSet(S), \A x \in S : f[x] = c
  PROVE  SumOn(f, S) = Cardinality(S) * c
  <1> DEFINE P == {T \in SUBSET S : SumOn(f, T) = Cardinality(T) * c}
  <1>1. {} \in P
    BY SumOnEmpty, FS_EmptySet
  <1>2. ASSUME NEW T \in P, NEW x \in S \ T
        PROVE  T \union {x} \in P
    <2>1. IsFiniteSet(T) /\ x \notin T /\ Cardinality(T) \in Nat
      BY FS_Subset, FS_CardinalityType
    <2>2. SumOn(f, T \union {x}) = c + SumOn(f, T)
      BY <2>1, SumOnInsert
    <2>3. Cardinality(T \union {x}) = Cardinality(T) + 1
      BY <2>1, FS_AddElement
    <2>4. (Cardinality(T) + 1) * c = c + Cardinality(T) * c
      BY <2>1
    <2> QED
      BY <2>2, <2>3, <2>4
  <1>3. S \in P
    <2>1. P \in SUBSET SUBSET S
      OBVIOUS
    <2> HIDE DEF P
    <2> QED
      BY <1>1, <1>2, <2>1, ElementInduction
  <1> QED
    BY <1>3

\* The sum over two sets that are disjoint.
LEMMA SumOnUnion ==
  ASSUME NEW f, NEW S, IsFiniteSet(S), NEW R, IsFiniteSet(R), S \intersect R = {},
         \A x \in S \union R : f[x] \in Int
  PROVE  SumOn(f, S \union R) = SumOn(f, S) + SumOn(f, R)
  <1> DEFINE P == {T \in SUBSET R : SumOn(f, S \union T) = SumOn(f, S) + SumOn(f, T)}
  <1>0. SumOn(f, S) \in Int
    BY SumOnInt
  <1>1. {} \in P
    <2>1. S \union {} = S
      OBVIOUS
    <2> QED
      BY <1>0, <2>1, SumOnEmpty
  <1>2. ASSUME NEW T \in P, NEW x \in R \ T
        PROVE  T \union {x} \in P
    <2>1. /\ IsFiniteSet(T) /\ x \notin T
          /\ IsFiniteSet(S \union T) /\ x \notin S \union T
      BY FS_Subset, FS_Union
    <2>2. SumOn(f, T \union {x}) = f[x] + SumOn(f, T) /\ SumOn(f, T) \in Int
      BY <2>1, SumOnInsert, SumOnInt
    <2>3. SumOn(f, (S \union T) \union {x}) = f[x] + SumOn(f, S \union T)
      BY <2>1, SumOnInsert
    <2>4. (S \union T) \union {x} = S \union (T \union {x})
      OBVIOUS
    <2>5. f[x] \in Int /\ SumOn(f, S \union T) = SumOn(f, S) + SumOn(f, T)
      OBVIOUS
    <2>6. SumOn(f, S \union (T \union {x})) = SumOn(f, S) + SumOn(f, T \union {x})
      <3>1. SumOn(f, S \union (T \union {x})) = f[x] + SumOn(f, S \union T)
        BY <2>3, <2>4, Zenon
      <3> HIDE DEF P
      <3> QED
        BY <1>0, <2>2, <2>5, <3>1
    <2>7. T \union {x} \in SUBSET R
      OBVIOUS
    <2> QED
      BY <2>6, <2>7
  <1>3. R \in P
    <2>1. P \in SUBSET SUBSET R
      OBVIOUS
    <2> HIDE DEF P
    <2> QED
      BY <1>1, <1>2, <2>1, ElementInduction
  <1> QED
    BY <1>3

\* Two functions that differ at one place, and their sums.
LEMMA SumOnUpdate ==
  ASSUME NEW f, NEW g, NEW S, IsFiniteSet(S), NEW y \in S,
         \A x \in S : f[x] \in Int /\ g[x] \in Int,
         \A x \in S \ {y} : g[x] = f[x]
  PROVE  SumOn(g, S) = SumOn(f, S) - f[y] + g[y]
  <1>1. SumOn(f, S) = f[y] + SumOn(f, S \ {y})
    BY SumOnRemove
  <1>2. SumOn(g, S) = g[y] + SumOn(g, S \ {y})
    BY SumOnRemove
  <1>3. SumOn(f, S \ {y}) = SumOn(g, S \ {y})
    BY SumOnEqual
  <1>4. SumOn(f, S \ {y}) \in Int
    BY SumOnInt, FS_RemoveElement
  <1> QED
    BY <1>1, <1>2, <1>3, <1>4

\* A sum whose parts, the elements of one class each, are within bounds, and
\* the sum of the bounds.
LEMMA SumByClasses ==
  ASSUME NEW f, NEW S, IsFiniteSet(S), \A x \in S : f[x] \in Int,
         NEW w, NEW R, IsFiniteSet(R), \A k \in R : w[k] \in Int,
         NEW c \in [S -> R],
         \A k \in R : SumOn(f, {x \in S : c[x] = k}) <= w[k]
  PROVE  SumOn(f, S) <= SumOn(w, R)
  <1> DEFINE Part(T) == {x \in S : c[x] \in T}
             Class(k) == {x \in S : c[x] = k}
             P == {T \in SUBSET R : SumOn(f, Part(T)) <= SumOn(w, T)}
  <1>1. {} \in P
    <2>1. Part({}) = {}
      OBVIOUS
    <2> HIDE DEF Part
    <2> QED
      BY <2>1, SumOnEmpty
  <1>2. ASSUME NEW T \in P, NEW k \in R \ T
        PROVE  T \union {k} \in P
    <2>1. /\ Part(T \union {k}) = Part(T) \union Class(k)
          /\ Part(T) \intersect Class(k) = {}
          /\ Part(T) \subseteq S /\ Class(k) \subseteq S
          /\ SumOn(f, Part(T)) <= SumOn(w, T) /\ SumOn(f, Class(k)) <= w[k]
          /\ T \subseteq R /\ k \notin T
      OBVIOUS
    <2> HIDE DEF Part, Class
    <2>2. IsFiniteSet(Part(T)) /\ IsFiniteSet(Class(k)) /\ IsFiniteSet(T)
      BY <2>1, FS_Subset
    <2>3. /\ \A x \in Part(T) \union Class(k) : f[x] \in Int
          /\ \A x \in Part(T) : f[x] \in Int
          /\ \A x \in Class(k) : f[x] \in Int
      BY <2>1
    <2>4. SumOn(f, Part(T) \union Class(k)) = SumOn(f, Part(T)) + SumOn(f, Class(k))
      BY <2>1, <2>2, <2>3, SumOnUnion
    <2>5. SumOn(f, Part(T)) \in Int /\ SumOn(f, Class(k)) \in Int
      BY <2>2, <2>3, SumOnInt
    <2>6. SumOn(w, T \union {k}) = w[k] + SumOn(w, T) /\ SumOn(w, T) \in Int /\ w[k] \in Int
      <3>1. \A l \in T \union {k} : w[l] \in Int
        BY <2>1
      <3> QED
        BY <2>1, <2>2, <3>1, SumOnInsert, SumOnInt
    <2>7. SumOn(f, Part(T \union {k})) <= SumOn(w, T \union {k})
      <3>1. SumOn(f, Part(T \union {k})) = SumOn(f, Part(T)) + SumOn(f, Class(k))
        BY <2>1, <2>4, Zenon
      <3> HIDE DEF P
      <3> QED
        BY <2>1, <2>5, <2>6, <3>1
    <2> QED
      BY <2>1, <2>7
  <1>3. R \in P
    <2>1. P \in SUBSET SUBSET R
      OBVIOUS
    <2> HIDE DEF P
    <2> QED
      BY <1>1, <1>2, <2>1, ElementInduction
  <1>4. Part(R) = S
    OBVIOUS
  <1> QED
    BY <1>3, <1>4

\* A sum of natural numbers is one, and no less than any of them.
LEMMA SumOnNat ==
  ASSUME NEW f, NEW S, IsFiniteSet(S), \A x \in S : f[x] \in Nat
  PROVE  SumOn(f, S) \in Nat /\ \A x \in S : f[x] <= SumOn(f, S)
  <1> DEFINE zero == [x \in S |-> 0]
  <1>1. ASSUME NEW T \in SUBSET S
        PROVE  SumOn(f, T) \in Nat
    <2>1. IsFiniteSet(T) /\ Cardinality(T) \in Nat /\ \A x \in T : f[x] \in Nat
      BY FS_Subset, FS_CardinalityType
    <2>2. \A x \in T : zero[x] = 0 /\ zero[x] \in Int /\ f[x] \in Int /\ zero[x] <= f[x]
      BY <2>1
    <2> HIDE DEF zero
    <2>3. SumOn(zero, T) = Cardinality(T) * 0
      BY <2>1, <2>2, SumOnConstant
    <2>4. SumOn(zero, T) <= SumOn(f, T) /\ SumOn(f, T) \in Int
      BY <2>1, <2>2, SumOnMono, SumOnInt
    <2> QED
      BY <2>1, <2>3, <2>4
  <1>2. ASSUME NEW x \in S
        PROVE  f[x] <= SumOn(f, S)
    <2>1. SumOn(f, S) = f[x] + SumOn(f, S \ {x})
      BY SumOnRemove
    <2>2. SumOn(f, S \ {x}) \in Nat
      BY <1>1
    <2> QED
      BY <2>1, <2>2
  <1> QED
    BY <1>1, <1>2

=============================================================================
