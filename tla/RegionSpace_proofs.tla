------------------------- MODULE RegionSpace_proofs -------------------------
(***************************************************************************)
(* What the algorithms of the region logic compute, for any space, batch   *)
(* and size of region: where an address lies, what sorting and counting a  *)
(* batch leaves of it, and that the threshold of convolve.py is a natural  *)
(* number.                                                                 *)
(***************************************************************************)
EXTENDS RegionSpace, SumTheorems, TLAPS

(***************************************************************************)
(* Addresses and the regions they lie in.                                  *)
(***************************************************************************)

\* The start of a region is an address.
LEMMA StartIsInt ==
  ASSUME NEW lo \in Int, NEW i \in Int
  PROVE  RegionStart(lo, i) \in Int /\ RegionStart(lo, i) = lo + i * RegionSize
  BY RegionSizeAssumption DEF RegionStart

\* Regions come one after the other, and none overlaps the next.
LEMMA StartsApart ==
  ASSUME NEW lo \in Int, NEW i \in Int, NEW j \in Int, i < j
  PROVE  RegionStart(lo, i) + RegionSize <= RegionStart(lo, j)
  <1>1. RegionSize \in Nat /\ RegionSize > 0
    BY RegionSizeAssumption
  <1>2. \E d \in Nat : j = i + 1 + d
    <2>1. j - i - 1 \in Nat /\ j = i + 1 + (j - i - 1)
      OBVIOUS
    <2> QED
      BY <2>1
  <1>3. PICK d \in Nat : j = i + 1 + d
    BY <1>2
  <1>4. j * RegionSize = i * RegionSize + RegionSize + d * RegionSize
    BY <1>1, <1>3
  <1>5. d * RegionSize \in Nat /\ i * RegionSize \in Int
    BY <1>1
  <1>6. /\ RegionStart(lo, i) = lo + i * RegionSize
        /\ RegionStart(lo, j) = lo + j * RegionSize
    BY StartIsInt
  <1>7. RegionStart(lo, j)
          = (RegionStart(lo, i) + RegionSize) + d * RegionSize
    BY <1>1, <1>4, <1>5, <1>6
  <1>8. RegionStart(lo, i) \in Int
    BY StartIsInt
  <1> QED
    BY <1>1, <1>5, <1>7, <1>8

\* Two regions of a space with the same start are the same.
LEMMA SameStart ==
  ASSUME NEW lo \in Int, NEW i \in Int, NEW j \in Int,
         RegionStart(lo, i) = RegionStart(lo, j)
  PROVE  i = j
  <1>1. RegionSize \in Nat /\ RegionSize > 0
    BY RegionSizeAssumption
  <1>2. RegionStart(lo, i) \in Int
    BY StartIsInt
  <1>3. ~(i < j)
    BY <1>1, <1>2, StartsApart
  <1>4. ~(j < i)
    BY <1>1, <1>2, StartsApart
  <1> QED
    BY <1>3, <1>4

\* The index that assign_events_to_regions computes is that of the region
\* the address lies in.
LEMMA IndexContains ==
  ASSUME NEW lo \in Nat, NEW a \in Nat, lo <= a
  PROVE  /\ IndexOf(lo, a) \in 0..a - lo
         /\ RegionStart(lo, IndexOf(lo, a)) = a - ((a - lo) % RegionSize)
         /\ (a - lo) % RegionSize \in 0..RegionSize - 1
  <1> DEFINE q == (a - lo) \div RegionSize
             r == (a - lo) % RegionSize
  <1>1. RegionSize \in Nat /\ RegionSize > 0 /\ a - lo \in Nat
    BY RegionSizeAssumption
  <1>2. q \in Int /\ r \in 0..RegionSize - 1 /\ a - lo = RegionSize * q + r
    BY <1>1, DivMod
  <1>3. IndexOf(lo, a) = q
    BY DEF IndexOf
  <1> HIDE DEF q, r
  <1>4. q >= 0
    <2>1. SUFFICES ASSUME q <= -1 PROVE FALSE
      BY <1>2
    <2>2. PICK d \in Nat : q = -1 - d
      <3>1. -1 - q \in Nat /\ q = -1 - (-1 - q)
        BY <1>2, <2>1
      <3> QED
        BY <3>1
    <2>3. RegionSize * q = -RegionSize - RegionSize * d
      BY <1>1, <2>2
    <2>4. RegionSize * d \in Nat
      BY <1>1
    <2> QED
      BY <1>1, <1>2, <2>3, <2>4
  <1>5. q <= RegionSize * q
    <2>1. PICK s \in Nat : RegionSize = 1 + s
      <3>1. RegionSize - 1 \in Nat /\ RegionSize = 1 + (RegionSize - 1)
        BY <1>1
      <3> QED
        BY <3>1
    <2>2. RegionSize * q = q + s * q
      BY <2>1, <1>2
    <2>3. s * q \in Nat
      BY <1>2, <1>4
    <2> QED
      BY <1>2, <2>2, <2>3
  <1>6. RegionStart(lo, q) = lo + RegionSize * q
    BY <1>1, <1>2, StartIsInt
  <1>7. RegionSize * q \in Int
    BY <1>1, <1>2
  <1>8. RegionStart(lo, q) = a - r /\ q \in 0..a - lo
    BY <1>1, <1>2, <1>4, <1>5, <1>6, <1>7
  <1>9. (a - lo) % RegionSize = r
    BY DEF r
  <1> QED
    BY <1>2, <1>3, <1>8, <1>9, Zenon

\* What fill_regions cuts: the regions that start inside the space.
LEMMA FilledStarts ==
  ASSUME NEW lo \in Nat, NEW hi \in Nat
  PROVE  /\ Filled(lo, hi) \subseteq Int
         /\ \A i \in 0..hi - lo : i \in Filled(lo, hi) <=> RegionStart(lo, i) < hi
  <1>1. Filled(lo, hi) \subseteq Int
    BY DEF Filled
  <1>2. ASSUME NEW i \in 0..hi - lo
        PROVE  i \in Filled(lo, hi) <=> RegionStart(lo, i) < hi
    <2>1. RegionStart(lo, i) \in Int
      BY StartIsInt
    <2> QED
      BY <2>1, RegionSizeAssumption DEF Filled
  <1> QED
    BY <1>1, <1>2

\* Every address of a space lies in the region of its index, which has been
\* cut, and in no other.
LEMMA OneRegion ==
  ASSUME NEW lo \in Nat, NEW hi \in Nat, NEW a \in lo..hi - 1
  PROVE  {i \in Filled(lo, hi) :
            a \in RegionStart(lo, i)..RegionStart(lo, i) + RegionSize - 1}
           = {IndexOf(lo, a)}
  <1> DEFINE q == IndexOf(lo, a)
             r == (a - lo) % RegionSize
  <1>1. RegionSize \in Nat /\ RegionSize > 0 /\ a \in Nat /\ lo <= a /\ a < hi
    BY RegionSizeAssumption
  <1>2. q \in 0..a - lo /\ RegionStart(lo, q) = a - r /\ r \in 0..RegionSize - 1
    BY <1>1, IndexContains
  <1> HIDE DEF q, r
  <1>3. q \in Filled(lo, hi)
    <2>1. q \in 0..hi - lo /\ RegionStart(lo, q) < hi
      BY <1>1, <1>2
    <2> QED
      BY <2>1, FilledStarts
  <1>4. a \in RegionStart(lo, q)..RegionStart(lo, q) + RegionSize - 1
    BY <1>1, <1>2
  <1>5. ASSUME NEW i \in Filled(lo, hi),
               a \in RegionStart(lo, i)..RegionStart(lo, i) + RegionSize - 1
        PROVE  i = q
    <2>1. i \in Int /\ q \in Int /\ RegionStart(lo, i) \in Int
          /\ RegionStart(lo, q) \in Int
      BY <1>2, FilledStarts, StartIsInt
    <2>2. ~(i < q)
      BY <1>1, <1>4, <1>5, <2>1, StartsApart
    <2>3. ~(q < i)
      BY <1>1, <1>4, <1>5, <2>1, StartsApart
    <2> QED
      BY <2>1, <2>2, <2>3
  <1> QED
    BY <1>3, <1>4, <1>5 DEF q

(***************************************************************************)
(* Sorting.                                                                *)
(***************************************************************************)

\* There are n numbers from 1 to n.
LEMMA Counting ==
  ASSUME NEW n \in Nat
  PROVE  IsFiniteSet(1..n) /\ Cardinality(1..n) = n
  <1>1. 1 \in Int /\ n \in Int /\ (1 > n => n = 0) /\ n - 1 + 1 = n
    OBVIOUS
  <1>2. Cardinality(1..n) = IF 1 > n THEN 0 ELSE n - 1 + 1
    BY <1>1, FS_Interval
  <1>3. IsFiniteSet(1..n)
    BY <1>1, FS_Interval
  <1> QED
    BY <1>1, <1>2, <1>3

\* Sorting moves the elements about: what comes to stand at i has stood at
\* order[i], and what comes after it is not less.
LEMMA SortedIsPermutation ==
  ASSUME NEW s \in Seq(Nat)
  PROVE  \E order \in Bijection(DOMAIN s, DOMAIN s) :
           /\ Sorted(s) = [i \in DOMAIN s |-> s[order[i]]]
           /\ \A i, j \in DOMAIN s : i < j => s[order[i]] <= s[order[j]]
  <1> DEFINE D == DOMAIN s
             Below(k) == {j \in D : s[j] < s[k] \/ (s[j] = s[k] /\ j <= k)}
             rank(k) == Cardinality(Below(k))
             f == [k \in D |-> rank(k)]
             order == [i \in D |-> CHOOSE k \in D : rank(k) = i]
  <1>1. /\ D = 1..Len(s) /\ Len(s) \in Nat /\ IsFiniteSet(D)
        /\ Cardinality(D) = Len(s) /\ \A k \in D : s[k] \in Nat
    <2>1. D = 1..Len(s) /\ Len(s) \in Nat /\ \A k \in D : s[k] \in Nat
      OBVIOUS
    <2> HIDE DEF D
    <2>2. IsFiniteSet(1..Len(s)) /\ Cardinality(1..Len(s)) = Len(s)
      BY <2>1, Counting
    <2> QED
      BY <2>1, <2>2
  <1>2. ASSUME NEW k \in D PROVE rank(k) \in D
    <2>1. Below(k) \subseteq D /\ k \in Below(k)
      BY <1>1
    <2> HIDE DEF Below, D
    <2>2. /\ IsFiniteSet(Below(k)) /\ Cardinality(Below(k)) \in Nat
          /\ Cardinality(Below(k)) <= Cardinality(D) /\ Below(k) # {}
      BY <1>1, <2>1, FS_Subset, FS_CardinalityType
    <2>3. Cardinality(Below(k)) # 0
      BY <2>2, FS_EmptySet
    <2> QED
      BY <1>1, <2>2, <2>3
  <1>3. ASSUME NEW k \in D, NEW l \in D, s[k] < s[l] \/ (s[k] = s[l] /\ k < l)
        PROVE  rank(k) < rank(l)
    <2>1. Below(k) \subseteq Below(l) /\ l \in Below(l) /\ l \notin Below(k)
      BY <1>1, <1>3
    <2>2. Below(l) \subseteq D
      OBVIOUS
    <2> HIDE DEF Below, D
    <2>3. IsFiniteSet(Below(l)) /\ IsFiniteSet(Below(k))
      BY <1>1, <2>1, <2>2, FS_Subset
    <2>4. /\ Cardinality(Below(k)) <= Cardinality(Below(l))
          /\ Cardinality(Below(k)) # Cardinality(Below(l))
      BY <2>1, <2>3, FS_Subset
    <2>5. Cardinality(Below(k)) \in Nat /\ Cardinality(Below(l)) \in Nat
      BY <2>3, FS_CardinalityType
    <2> QED
      BY <2>4, <2>5
  <1>4. ASSUME NEW k \in D, NEW l \in D, rank(k) = rank(l) PROVE k = l
    <2>1. \/ s[k] < s[l] \/ (s[k] = s[l] /\ k < l)
          \/ s[l] < s[k] \/ (s[k] = s[l] /\ l < k)
          \/ k = l
      BY <1>1
    <2>2. rank(k) \in Nat /\ rank(l) \in Nat
      BY <1>1, <1>2
    <2> HIDE DEF rank, D
    <2> QED
      BY <1>3, <1>4, <2>1, <2>2
  <1> HIDE DEF rank, D
  <1>5. f \in Injection(D, D)
    BY <1>2, <1>4 DEF Injection, IsInjective
  <1>6. f \in Surjection(D, D)
    BY <1>1, <1>5, FS_Injection
  <1>7. ASSUME NEW i \in D PROVE order[i] \in D /\ rank(order[i]) = i
    <2>1. \E k \in D : rank(k) = i
      BY <1>6 DEF Surjection
    <2> QED
      BY <2>1
  <1>8. \A k \in D : order[rank(k)] = k
    BY <1>2, <1>4, <1>7
  <1>9. order \in [D -> D]
    BY <1>7
  <1> HIDE DEF order
  <1>10. order \in Bijection(D, D)
    <2>1. order \in Injection(D, D)
      BY <1>7, <1>9 DEF Injection, IsInjective
    <2>2. order \in Surjection(D, D)
      BY <1>2, <1>8, <1>9 DEF Surjection
    <2> QED
      BY <2>1, <2>2 DEF Bijection
  <1>11. Sorted(s) = [i \in D |-> s[order[i]]]
    BY DEF Sorted, order, rank, D
  <1>12. ASSUME NEW i \in D, NEW j \in D, i < j PROVE s[order[i]] <= s[order[j]]
    <2>1. order[i] \in D /\ order[j] \in D /\ rank(order[i]) = i /\ rank(order[j]) = j
      BY <1>7
    <2>2. i \in Nat /\ j \in Nat /\ s[order[i]] \in Nat /\ s[order[j]] \in Nat
      BY <1>1, <2>1
    <2>3. \A k, l \in D : s[k] < s[l] => rank(k) < rank(l)
      BY <1>3
    <2>4. s[order[j]] < s[order[i]] => j < i
      BY <2>1, <2>3
    <2> QED
      BY <1>12, <2>2, <2>4
  <1> QED
    BY <1>10, <1>11, <1>12 DEF D

\* So it leaves an ascending sequence of the same length, of elements of the
\* old one, with as many elements in any set of numbers.
LEMMA SortedKeeps ==
  ASSUME NEW s \in Seq(Nat)
  PROVE  /\ Sorted(s) \in Seq(Nat) /\ Len(Sorted(s)) = Len(s)
         /\ DOMAIN Sorted(s) = DOMAIN s
         /\ \A i, j \in DOMAIN s : i < j => Sorted(s)[i] <= Sorted(s)[j]
         /\ \A i \in DOMAIN s : \E k \in DOMAIN s : Sorted(s)[i] = s[k]
         /\ \A R : Cardinality({k \in DOMAIN s : Sorted(s)[k] \in R})
                     = Cardinality({k \in DOMAIN s : s[k] \in R})
  <1> DEFINE D == DOMAIN s
             v == Sorted(s)
  <1>1. PICK order \in Bijection(D, D) :
          /\ v = [i \in D |-> s[order[i]]]
          /\ \A i, j \in D : i < j => s[order[i]] <= s[order[j]]
    BY SortedIsPermutation
  <1>2. /\ order \in [D -> D]
        /\ \A i, j \in D : order[i] = order[j] => i = j
        /\ \A k \in D : \E i \in D : order[i] = k
    BY DEF Bijection, Injection, Surjection, IsInjective
  <1>3. D = 1..Len(s) /\ Len(s) \in Nat /\ \A k \in D : s[k] \in Nat
    OBVIOUS
  <1>4. v \in Seq(Nat) /\ Len(v) = Len(s) /\ DOMAIN v = D
    <2> HIDE DEF v, D
    <2>1. \A i \in D : s[order[i]] \in Nat
      BY <1>2, <1>3
    <2>2. DOMAIN v = 1..Len(s) /\ v \in [1..Len(s) -> Nat]
      BY <1>1, <1>3, <2>1
    <2> QED
      BY <1>3, <2>2
  <1>5. \A i, j \in D : i < j => v[i] <= v[j]
    <2> HIDE DEF v, D
    <2> QED
      BY <1>1
  <1>6. \A i \in D : \E k \in D : v[i] = s[k]
    <2> HIDE DEF v, D
    <2> QED
      BY <1>1, <1>2
  <1>7. ASSUME NEW R
        PROVE  Cardinality({k \in D : v[k] \in R}) = Cardinality({k \in D : s[k] \in R})
    <2> DEFINE A == {k \in D : v[k] \in R}
               B == {k \in D : s[k] \in R}
               g == [i \in A |-> order[i]]
    <2> HIDE DEF v, D
    <2>1. \A i \in D : order[i] \in D /\ v[i] = s[order[i]]
      BY <1>1, <1>2
    <2>2. g \in [A -> B]
      BY <2>1
    <2>3. g \in Injection(A, B)
      BY <1>2, <2>2 DEF Injection, IsInjective
    <2>4. g \in Surjection(A, B)
      <3>1. ASSUME NEW b \in B PROVE \E i \in A : g[i] = b
        <4>1. PICK i \in D : order[i] = b
          BY <1>2
        <4>2. i \in A
          BY <2>1, <4>1
        <4> QED
          BY <4>1, <4>2
      <3> QED
        BY <2>2, <3>1 DEF Surjection
    <2>5. ExistsBijection(A, B)
      BY <2>3, <2>4 DEF ExistsBijection, Bijection
    <2>6. IsFiniteSet(D) /\ A \subseteq D
      BY <1>3, FS_Interval
    <2> HIDE DEF A, B
    <2>7. Cardinality(B) = Cardinality(A)
      BY <2>5, <2>6, FS_Subset, FS_Bijection
    <2> QED
      BY <2>7 DEF A, B
  <1> QED
    BY <1>4, <1>5, <1>6, <1>7 DEF v, D

(***************************************************************************)
(* The run lengths.  The fold over the sorted accesses is the value, at    *)
(* all of them, of a function on the sets of their indices that takes out  *)
(* the last; at the indices up to k it is what k turns of the loop leave.  *)
(***************************************************************************)

\* An entry, and the variables of the loop.
Entry == [addr : Nat, count : Nat]
Counter == [last : Nat, cnt : Nat, out : Seq(Entry)]

\* What they are before the first turn.
AtFirst == [last |-> 0, cnt |-> 1, out |-> <<>>]

\* The turns of the loop over v.
Turns(v, lo, hi, it) ==
  it = [T \in SUBSET DOMAIN v |->
          IF T = {} THEN AtFirst
          ELSE CountOne(lo, hi, it[T \ {Max(T)}], v[Max(T)])]

\* Indices that are not none have a last one.
LEMMA LastIndex ==
  ASSUME NEW n \in Nat, NEW T \in SUBSET (1..n), T # {}
  PROVE  Max(T) \in T /\ \A y \in T : y <= Max(T)
  <1> DEFINE M == {n - x : x \in T}
  <1>1. M \in SUBSET Nat /\ M # {}
    OBVIOUS
  <1> HIDE DEF M
  <1>2. PICK m \in M : \A y \in M : m <= y
    BY <1>1, LeastNatural
  <1>3. PICK t \in T : m = n - t
    BY DEF M
  <1>4. \A y \in T : t >= y
    <2> SUFFICES ASSUME NEW y \in T
                 PROVE  t >= y
      OBVIOUS
    <2>1. n - y \in M
      BY DEF M
    <2> QED
      BY <1>2, <1>3, <2>1
  <1>5. Max(T) \in T /\ \A y \in T : Max(T) >= y
    BY <1>4 DEF Max
  <1>6. \A y \in T : y \in Int
    OBVIOUS
  <1> QED
    BY <1>5, <1>6

\* One turn of the loop, case by case.
LEMMA OneTurn ==
  ASSUME NEW lo \in Nat \ {0}, NEW hi \in Nat, NEW s \in Counter, NEW a \in Nat
  PROVE  LET t == CountOne(lo, hi, s, a)
         IN  /\ t \in Counter
             /\ a \notin lo..hi => t = s
             /\ a \in lo..hi /\ s.last = 0 =>
                  t.last = a /\ t.cnt = s.cnt /\ t.out = s.out
             /\ a \in lo..hi /\ s.last # 0 /\ s.last = a =>
                  t.last = a /\ t.cnt = s.cnt + 1 /\ t.out = s.out
             /\ a \in lo..hi /\ s.last # 0 /\ s.last # a =>
                  /\ t.last = a /\ t.cnt = 1
                  /\ t.out = Append(s.out, [addr |-> s.last, count |-> s.cnt])
  <1>1. CASE a \notin lo..hi
    <2>1. CountOne(lo, hi, s, a) = s
      BY <1>1 DEF CountOne
    <2> QED
      BY <1>1, <2>1
  <1>2. CASE a \in lo..hi /\ s.last = 0
    <2>1. CountOne(lo, hi, s, a) = [s EXCEPT !.last = a]
      BY <1>2 DEF CountOne
    <2>2. [s EXCEPT !.last = a] \in Counter
      BY DEF Counter
    <2> QED
      BY <1>2, <2>1, <2>2 DEF Counter
  <1>3. CASE a \in lo..hi /\ s.last # 0 /\ s.last = a
    <2>1. CountOne(lo, hi, s, a) = [s EXCEPT !.cnt = @ + 1]
      BY <1>3 DEF CountOne
    <2>2. [s EXCEPT !.cnt = @ + 1] \in Counter
      BY DEF Counter
    <2> QED
      BY <1>3, <2>1, <2>2 DEF Counter
  <1>4. CASE a \in lo..hi /\ s.last # 0 /\ s.last # a
    <2> DEFINE e == [addr |-> s.last, count |-> s.cnt]
    <2>1. CountOne(lo, hi, s, a) = [last |-> a, cnt |-> 1, out |-> Append(s.out, e)]
      BY <1>4 DEF CountOne
    <2>2. s.out \in Seq(Entry) /\ e \in Entry
      BY DEF Counter, Entry
    <2>3. Append(s.out, e) \in Seq(Entry)
      BY <2>2
    <2> HIDE DEF e
    <2>4. [last |-> a, cnt |-> 1, out |-> Append(s.out, e)] \in Counter
      BY <2>3 DEF Counter
    <2> QED
      BY <1>4, <2>1, <2>4 DEF e
  <1> QED
    BY <1>1, <1>2, <1>3, <1>4

\* The turns exist.
LEMMA TurnsExist ==
  ASSUME NEW lo \in Nat \ {0}, NEW hi \in Nat, NEW v \in Seq(Nat)
  PROVE  \E it : Turns(v, lo, hi, it)
  <1> DEFINE S == DOMAIN v
             op == [x \in Nat \X Counter |-> CountOne(lo, hi, x[2], x[1])]
             ch == [T \in SUBSET S |-> Max(T)]
  <1>1. S = 1..Len(v) /\ Len(v) \in Nat /\ \A k \in S : v[k] \in Nat
    OBVIOUS
  <1>2. IsFiniteSet(S)
    BY <1>1, Counting
  <1>3. \A T \in SUBSET S : ch[T] = Max(T) /\ (T # {} => ch[T] \in T)
    BY <1>1, LastIndex
  <1>4. \A a \in Nat, s \in Counter : op[<<a, s>>] = CountOne(lo, hi, s, a)
                                      /\ op[<<a, s>>] \in Counter
    <2> SUFFICES ASSUME NEW a \in Nat, NEW s \in Counter
                 PROVE  op[<<a, s>>] = CountOne(lo, hi, s, a)
                        /\ op[<<a, s>>] \in Counter
      OBVIOUS
    <2>1. op[<<a, s>>] = CountOne(lo, hi, s, a)
      OBVIOUS
    <2>2. CountOne(lo, hi, s, a) \in Counter
      BY OneTurn
    <2> QED
      BY <2>1, <2>2, Zenon
  <1> HIDE DEF S, op, ch
  <1>5. PICK it : FoldsBy(op, AtFirst, ch, v, S, it)
    BY <1>2, <1>3, FoldsByExist
  <1>6. \A T \in SUBSET S :
          it[T] = IF T = {} THEN AtFirst ELSE op[<<v[ch[T]], it[T \ {ch[T]}]>>]
    BY <1>5 DEF FoldsBy
  <1> DEFINE P == {T \in SUBSET S : it[T] \in Counter}
  <1>7. ASSUME NEW T \in SUBSET S, \A U \in SUBSET T : U # T => U \in P
        PROVE  T \in P
    <2>1. CASE T = {}
      <3>1. it[T] = AtFirst
        BY <1>6, <2>1, Zenon
      <3>2. AtFirst \in Counter
        BY DEF AtFirst, Counter
      <3> QED
        BY <3>1, <3>2
    <2>2. CASE T # {}
      <3>1. ch[T] \in T /\ v[ch[T]] \in Nat
        BY <1>1, <1>3, <2>2
      <3>2. it[T \ {ch[T]}] \in Counter
        BY <1>7, <3>1
      <3>3. it[T] = op[<<v[ch[T]], it[T \ {ch[T]}]>>]
        BY <1>6, <2>2, Zenon
      <3>4. it[T] \in Counter
        BY <1>4, <3>1, <3>2, <3>3, Zenon
      <3> QED
        BY <3>4
    <2> QED
      BY <2>1, <2>2
  <1>8. \A T \in SUBSET S : it[T] \in Counter
    <2>1. P \in SUBSET SUBSET S
      OBVIOUS
    <2>2. \A T \in SUBSET S : (\A U \in SUBSET T : U # T => U \in P) => T \in P
      BY <1>7
    <2> HIDE DEF P
    <2>3. \A T \in SUBSET S : T \in P
      BY <1>2, <2>1, <2>2, SubsetInduction
    <2> QED
      BY <2>3 DEF P
  <1>9. ASSUME NEW T \in SUBSET S, T # {}
        PROVE  op[<<v[ch[T]], it[T \ {ch[T]}]>>]
                 = CountOne(lo, hi, it[T \ {Max(T)}], v[Max(T)])
    <2>1. ch[T] = Max(T) /\ ch[T] \in T
      BY <1>3, <1>9
    <2>2. v[ch[T]] \in Nat /\ it[T \ {ch[T]}] \in Counter
      BY <1>1, <1>8, <2>1
    <2>3. op[<<v[ch[T]], it[T \ {ch[T]}]>>] = CountOne(lo, hi, it[T \ {ch[T]}], v[ch[T]])
      BY <1>4, <2>2, Zenon
    <2> QED
      BY <2>1, <2>3, Zenon
  <1>10. it = [T \in SUBSET S |->
                 IF T = {} THEN AtFirst
                 ELSE CountOne(lo, hi, it[T \ {Max(T)}], v[Max(T)])]
    BY <1>5, <1>9, Zenon DEF FoldsBy
  <1> QED
    BY <1>10 DEF Turns, S

\* RunLengths is what they leave.
LEMMA RunLengthsByTurns ==
  ASSUME NEW lo \in Nat \ {0}, NEW hi \in Nat, NEW batch \in Seq(Nat)
  PROVE  LET v == Sorted(batch)
         IN  \E it : /\ Turns(v, lo, hi, it)
                     /\ RunLengths(batch, lo, hi)
                          = Append(it[DOMAIN v].out, [addr |-> it[DOMAIN v].last,
                                                      count |-> it[DOMAIN v].cnt])
  <1> DEFINE v == Sorted(batch)
             turns == CHOOSE it : Turns(v, lo, hi, it)
  <1>1. v \in Seq(Nat)
    BY SortedKeeps
  <1> HIDE DEF v
  <1>2. Turns(v, lo, hi, turns)
    BY <1>1, TurnsExist
  <1>3. RunLengths(batch, lo, hi)
          = Append(turns[DOMAIN v].out, [addr |-> turns[DOMAIN v].last,
                                         count |-> turns[DOMAIN v].cnt])
    BY DEF RunLengths, FoldLeft, MapThenFoldSet, Turns, AtFirst, v
  <1> HIDE DEF turns
  <1> QED
    BY <1>2, <1>3 DEF v

\* What has been counted of the accesses in R.
Tally(out, R) ==
  SumOn([i \in DOMAIN out |-> out[i].count], {i \in DOMAIN out : out[i].addr \in R})

\* One more entry.
LEMMA TallyAppend ==
  ASSUME NEW out \in Seq(Entry), NEW e \in Entry, NEW R
  PROVE  /\ Tally(out, R) \in Int
         /\ Tally(Append(out, e), R)
              = Tally(out, R) + (IF e.addr \in R THEN e.count ELSE 0)
  <1> DEFINE n == Len(out)
             more == Append(out, e)
             f == [i \in DOMAIN out |-> out[i].count]
             g == [i \in DOMAIN more |-> more[i].count]
             A == {i \in DOMAIN out : out[i].addr \in R}
             B == {i \in DOMAIN more : more[i].addr \in R}
  <1>1. n \in Nat /\ DOMAIN out = 1..n /\ \A i \in 1..n : out[i] \in Entry
    OBVIOUS
  <1>2. /\ DOMAIN more = 1..n + 1 /\ more[n + 1] = e
        /\ \A i \in 1..n : more[i] = out[i]
    OBVIOUS
  <1>3. e.addr \in Nat /\ e.count \in Nat /\ \A i \in 1..n : out[i].count \in Nat
    BY <1>1 DEF Entry
  <1> HIDE DEF n, more
  <1>4. \A i \in 1..n : f[i] = out[i].count /\ g[i] = out[i].count
    BY <1>1, <1>2
  <1>5. g[n + 1] = e.count
    BY <1>1, <1>2
  <1>6. A \subseteq 1..n /\ IsFiniteSet(A)
    <2>1. IsFiniteSet(1..n) /\ A \in SUBSET (1..n)
      BY <1>1, Counting
    <2> HIDE DEF A
    <2> QED
      BY <2>1, FS_Subset
  <1>7. B = IF e.addr \in R THEN A \union {n + 1} ELSE A
    BY <1>1, <1>2
  <1> HIDE DEF f, g, A, B
  <1>8. SumOn(g, A) = SumOn(f, A)
    <2>1. \A i \in A : g[i] = f[i]
      BY <1>4, <1>6
    <2> QED
      BY <2>1, SumOnEqual
  <1>9. SumOn(f, A) \in Int
    <2>1. \A i \in A : f[i] \in Int
      BY <1>3, <1>4, <1>6
    <2> QED
      BY <1>6, <2>1, SumOnInt
  <1>10. SumOn(g, B) = SumOn(f, A) + (IF e.addr \in R THEN e.count ELSE 0)
    <2>1. CASE e.addr \in R
      <3>1. n + 1 \notin A
        BY <1>1, <1>6
      <3>2. \A i \in A \union {n + 1} : g[i] \in Int
        BY <1>3, <1>4, <1>5, <1>6
      <3>3. SumOn(g, A \union {n + 1}) = g[n + 1] + SumOn(g, A)
        BY <1>6, <3>1, <3>2, SumOnInsert
      <3> QED
        BY <1>3, <1>5, <1>7, <1>8, <1>9, <2>1, <3>3
    <2>2. CASE e.addr \notin R
      BY <1>7, <1>8, <1>9, <2>2
    <2> QED
      BY <2>1, <2>2
  <1>11. Tally(out, R) = SumOn(f, A) /\ Tally(more, R) = SumOn(g, B)
    BY DEF Tally, f, g, A, B
  <1> QED
    BY <1>9, <1>10, <1>11 DEF more

\* Nothing counted.
LEMMA TallyEmpty ==
  ASSUME NEW R
  PROVE  Tally(<<>>, R) = 0
  <1>1. {i \in DOMAIN <<>> : <<>>[i].addr \in R} = {}
    OBVIOUS
  <1>2. \A f : SumOn(f, {}) = 0
    BY SumOnEmpty
  <1> QED
    BY <1>1, <1>2 DEF Tally

\* How many of the first k accesses are in R.
Seen(v, k, R) == Cardinality({j \in 1..k : v[j] \in R})

\* One more access.
LEMMA SeenStep ==
  ASSUME NEW v, NEW k \in Nat, NEW R
  PROVE  /\ Seen(v, 0, R) = 0
         /\ Seen(v, k, R) \in Nat
         /\ Seen(v, k + 1, R) = Seen(v, k, R) + (IF v[k + 1] \in R THEN 1 ELSE 0)
  <1> DEFINE A == {j \in 1..k : v[j] \in R}
             B == {j \in 1..k + 1 : v[j] \in R}
  <1>1. {j \in 1..0 : v[j] \in R} = {}
    OBVIOUS
  <1>2. Seen(v, 0, R) = 0
    BY <1>1, FS_EmptySet DEF Seen
  <1>3. IsFiniteSet(1..k) /\ A \in SUBSET (1..k)
    BY Counting
  <1>4. B = IF v[k + 1] \in R THEN A \union {k + 1} ELSE A
    OBVIOUS
  <1>5. k + 1 \notin A
    OBVIOUS
  <1> HIDE DEF A, B
  <1>6. IsFiniteSet(A) /\ Cardinality(A) \in Nat
    BY <1>3, FS_Subset, FS_CardinalityType
  <1>7. Cardinality(A \union {k + 1}) = Cardinality(A) + 1
    BY <1>5, <1>6, FS_AddElement
  <1>8. Cardinality(B) = Cardinality(A) + (IF v[k + 1] \in R THEN 1 ELSE 0)
    BY <1>4, <1>6, <1>7
  <1> QED
    BY <1>2, <1>6, <1>8 DEF Seen, A, B

\* After k turns, each access in the space has been counted once, in an entry
\* of its address or in the one that is not finished; two entries that follow
\* each other differ.
Counted(v, lo, hi, k, s) ==
  /\ s \in Counter
  /\ s.cnt >= 1
  /\ s.last \in lo..hi \/ (s.last = 0 /\ s.out = <<>> /\ s.cnt = 1)
  /\ \A i \in 1..Len(s.out) : s.out[i].addr \in lo..hi /\ s.out[i].count >= 1
  /\ s.out # <<>> => s.out[Len(s.out)].addr # s.last
  /\ \A R \in SUBSET (lo..hi) :
       Tally(s.out, R) + (IF s.last \in R THEN s.cnt ELSE 0) = Seen(v, k, R)

\* Before the first turn.
LEMMA CountedAtFirst ==
  ASSUME NEW lo \in Nat \ {0}, NEW hi \in Nat, NEW v
  PROVE  Counted(v, lo, hi, 0, AtFirst)
  <1>1. AtFirst \in Counter
    BY DEF AtFirst, Counter
  <1>2. AtFirst.last = 0 /\ AtFirst.cnt = 1 /\ AtFirst.out = <<>>
    BY DEF AtFirst
  <1>3. ASSUME NEW R \in SUBSET (lo..hi)
        PROVE  Tally(<<>>, R) + (IF 0 \in R THEN 1 ELSE 0) = Seen(v, 0, R)
    <2>1. 0 \notin R
      OBVIOUS
    <2>2. Seen(v, 0, R) = 0
      BY SeenStep
    <2> QED
      BY <2>1, <2>2, TallyEmpty
  <1>4. \A i \in 1..Len(<<>>) : FALSE
    OBVIOUS
  <1> QED
    BY <1>1, <1>2, <1>3, <1>4 DEF Counted

\* One more turn.
LEMMA CountedStep ==
  ASSUME NEW lo \in Nat \ {0}, NEW hi \in Nat, NEW v, NEW k \in Nat,
         v[k + 1] \in Nat, NEW s, Counted(v, lo, hi, k, s)
  PROVE  Counted(v, lo, hi, k + 1, CountOne(lo, hi, s, v[k + 1]))
  <1> DEFINE a == v[k + 1]
             t == CountOne(lo, hi, s, a)
             e == [addr |-> s.last, count |-> s.cnt]
  <1>1. /\ s \in Counter /\ s.last \in Nat /\ s.cnt \in Nat /\ s.cnt >= 1
        /\ s.out \in Seq(Entry)
        /\ s.last \in lo..hi \/ (s.last = 0 /\ s.out = <<>> /\ s.cnt = 1)
        /\ \A i \in 1..Len(s.out) : s.out[i].addr \in lo..hi /\ s.out[i].count >= 1
        /\ s.out # <<>> => s.out[Len(s.out)].addr # s.last
        /\ \A R \in SUBSET (lo..hi) :
             Tally(s.out, R) + (IF s.last \in R THEN s.cnt ELSE 0) = Seen(v, k, R)
    BY DEF Counted, Counter
  <1>2. /\ t \in Counter
        /\ a \notin lo..hi => t = s
        /\ a \in lo..hi /\ s.last = 0 =>
             t.last = a /\ t.cnt = s.cnt /\ t.out = s.out
        /\ a \in lo..hi /\ s.last # 0 /\ s.last = a =>
             t.last = a /\ t.cnt = s.cnt + 1 /\ t.out = s.out
        /\ a \in lo..hi /\ s.last # 0 /\ s.last # a =>
             t.last = a /\ t.cnt = 1 /\ t.out = Append(s.out, e)
    BY <1>1, OneTurn
  <1>3. e \in Entry /\ e.addr = s.last /\ e.count = s.cnt
    BY <1>1 DEF Entry
  <1>4. ASSUME NEW R
        PROVE  /\ Tally(s.out, R) \in Int
               /\ Tally(Append(s.out, e), R)
                    = Tally(s.out, R) + (IF s.last \in R THEN s.cnt ELSE 0)
    BY <1>1, <1>3, TallyAppend
  <1>5. ASSUME NEW R
        PROVE  /\ Seen(v, k, R) \in Nat
               /\ Seen(v, k + 1, R) = Seen(v, k, R) + (IF a \in R THEN 1 ELSE 0)
    BY SeenStep
  <1>6. \A R \in SUBSET (lo..hi) : 0 \notin R
    OBVIOUS
  <1> HIDE DEF a, t, e
  <1>7. CASE a \notin lo..hi
    <2>1. ASSUME NEW R \in SUBSET (lo..hi)
          PROVE  Seen(v, k + 1, R) = Seen(v, k, R)
      <3>1. a \notin R
        BY <1>7
      <3> QED
        BY <1>5, <3>1
    <2> QED
      BY <1>1, <1>2, <1>7, <2>1 DEF Counted, a, t
  <1>8. CASE a \in lo..hi /\ s.last = 0
    <2>1. s.out = <<>> /\ s.cnt = 1
      BY <1>1, <1>8
    <2>2. t.last = a /\ t.cnt = 1 /\ t.out = <<>>
      BY <1>2, <1>8, <2>1
    <2>3. ASSUME NEW R \in SUBSET (lo..hi)
          PROVE  Tally(t.out, R) + (IF t.last \in R THEN t.cnt ELSE 0) = Seen(v, k + 1, R)
      <3>1. Tally(s.out, R) + (IF s.last \in R THEN s.cnt ELSE 0) = Seen(v, k, R)
        BY <1>1
      <3>2. s.last \notin R
        BY <1>6, <1>8
      <3> QED
        BY <1>4, <1>5, <2>1, <2>2, <3>1, <3>2
    <2>4. \A i \in 1..Len(t.out) : FALSE
      BY <2>2
    <2> QED
      BY <1>2, <1>8, <2>2, <2>3, <2>4 DEF Counted, a, t
  <1>9. CASE a \in lo..hi /\ s.last # 0 /\ s.last = a
    <2>1. t.last = a /\ t.cnt = s.cnt + 1 /\ t.out = s.out
      BY <1>2, <1>9
    <2>2. ASSUME NEW R \in SUBSET (lo..hi)
          PROVE  Tally(t.out, R) + (IF t.last \in R THEN t.cnt ELSE 0) = Seen(v, k + 1, R)
      <3>1. Tally(s.out, R) + (IF s.last \in R THEN s.cnt ELSE 0) = Seen(v, k, R)
        BY <1>1
      <3> QED
        BY <1>1, <1>4, <1>5, <1>9, <2>1, <3>1
    <2>3. t.cnt >= 1
      BY <1>1, <2>1
    <2> QED
      BY <1>1, <1>2, <1>9, <2>1, <2>2, <2>3 DEF Counted, a, t
  <1>10. CASE a \in lo..hi /\ s.last # 0 /\ s.last # a
    <2>1. t.last = a /\ t.cnt = 1 /\ t.out = Append(s.out, e)
      BY <1>2, <1>10
    <2>2. ASSUME NEW R \in SUBSET (lo..hi)
          PROVE  Tally(t.out, R) + (IF t.last \in R THEN t.cnt ELSE 0) = Seen(v, k + 1, R)
      <3>1. Tally(s.out, R) + (IF s.last \in R THEN s.cnt ELSE 0) = Seen(v, k, R)
        BY <1>1
      <3> QED
        BY <1>4, <1>5, <2>1, <3>1
    <2>3. /\ Len(t.out) = Len(s.out) + 1 /\ Len(s.out) \in Nat
          /\ t.out[Len(s.out) + 1] = e
          /\ \A i \in 1..Len(s.out) : t.out[i] = s.out[i]
      BY <1>1, <1>3, <2>1
    <2>4. s.last \in lo..hi
      BY <1>1, <1>10
    <2>5. ASSUME NEW i \in 1..Len(t.out)
          PROVE  t.out[i].addr \in lo..hi /\ t.out[i].count >= 1
      <3>1. CASE i = Len(s.out) + 1
        BY <1>1, <1>3, <2>3, <2>4, <3>1
      <3>2. CASE i # Len(s.out) + 1
        <4>1. i \in 1..Len(s.out)
          BY <2>3, <3>2
        <4> QED
          BY <1>1, <2>3, <4>1
      <3> QED
        BY <3>1, <3>2
    <2>6. t.out[Len(t.out)].addr # t.last
      BY <1>3, <1>10, <2>1, <2>3
    <2>7. t.cnt >= 1
      BY <2>1
    <2> QED
      BY <1>2, <1>10, <2>1, <2>2, <2>5, <2>6, <2>7 DEF Counted, a, t
  <1> QED
    BY <1>7, <1>8, <1>9, <1>10

\* What RunLengths makes of a batch: entries of its addresses in the space, at
\* least one below the end of the space if they are more than one, that count
\* each access once (sort_count_unique_process_mod).
LEMMA RunLengthsCount ==
  ASSUME NEW lo \in Nat \ {0}, NEW hi \in Nat, NEW batch \in Seq(Nat)
  PROVE  LET entries == RunLengths(batch, lo, hi)
         IN  /\ entries \in Seq(Entry)
             /\ Len(entries) >= 1
             /\ Len(entries) > 1 => \E i \in DOMAIN entries :
                  entries[i].addr \in lo..hi - 1 /\ entries[i].count >= 1
             /\ \A R \in SUBSET (lo..hi) :
                  Tally(entries, R) = Cardinality({k \in DOMAIN batch : batch[k] \in R})
  <1> DEFINE v == Sorted(batch)
             n == Len(batch)
             entries == RunLengths(batch, lo, hi)
  <1>1. /\ v \in Seq(Nat) /\ DOMAIN v = 1..n /\ n \in Nat /\ DOMAIN batch = 1..n
        /\ \A k \in 1..n : v[k] \in Nat
    <2>1. v \in Seq(Nat) /\ DOMAIN v = DOMAIN batch
      BY SortedKeeps
    <2> HIDE DEF v
    <2> QED
      BY <2>1
  <1>2. \A R : Seen(v, n, R) = Cardinality({k \in DOMAIN batch : batch[k] \in R})
    BY <1>1, SortedKeeps DEF Seen
  <1>3. PICK it :
          /\ Turns(v, lo, hi, it)
          /\ entries = Append(it[DOMAIN v].out, [addr |-> it[DOMAIN v].last,
                                                 count |-> it[DOMAIN v].cnt])
    BY RunLengthsByTurns
  <1> HIDE DEF v, n, entries
  <1>4. \A T \in SUBSET (1..n) :
          it[T] = IF T = {} THEN AtFirst
                  ELSE CountOne(lo, hi, it[T \ {Max(T)}], v[Max(T)])
    BY <1>1, <1>3 DEF Turns
  <1> DEFINE P == {k \in Nat : k <= n => Counted(v, lo, hi, k, it[1..k])}
  <1>5. 0 \in P
    <2>1. 1..0 = {} /\ {} \in SUBSET (1..n)
      OBVIOUS
    <2>2. it[1..0] = AtFirst
      BY <1>4, <2>1, Zenon
    <2>3. Counted(v, lo, hi, 0, it[1..0])
      BY <2>2, CountedAtFirst
    <2> QED
      BY <2>3
  <1>6. ASSUME NEW k \in P
        PROVE  k + 1 \in P
    <2> SUFFICES ASSUME k + 1 <= n
                 PROVE  Counted(v, lo, hi, k + 1, it[1..k + 1])
      OBVIOUS
    <2>1. k \in Nat /\ Counted(v, lo, hi, k, it[1..k]) /\ v[k + 1] \in Nat
      BY <1>1
    <2> HIDE DEF P
    <2>2. 1..k + 1 \in SUBSET (1..n) /\ 1..k + 1 # {} /\ k + 1 \in Nat
      <3>1. k + 1 \in Nat /\ k + 1 \in 1..k + 1
        BY <2>1
      <3>2. 1..k + 1 \subseteq 1..n
        BY <1>1, <2>1
      <3> QED
        BY <3>1, <3>2, Zenon
    <2>3. Max(1..k + 1) = k + 1
      <3>1. Max(1..k + 1) \in 1..k + 1 /\ \A y \in 1..k + 1 : y <= Max(1..k + 1)
        BY <1>1, <2>2, LastIndex
      <3>2. k + 1 \in 1..k + 1
        BY <2>2
      <3> QED
        BY <2>2, <3>1, <3>2
    <2>4. (1..k + 1) \ {k + 1} = 1..k
      BY <2>1
    <2>5. it[1..k + 1] = CountOne(lo, hi, it[1..k], v[k + 1])
      BY <1>4, <2>2, <2>3, <2>4, Zenon
    <2>6. Counted(v, lo, hi, k + 1, CountOne(lo, hi, it[1..k], v[k + 1]))
      BY <2>1, CountedStep
    <2> QED
      BY <2>5, <2>6
  <1> DEFINE s == it[1..n]
             e == [addr |-> s.last, count |-> s.cnt]
  <1>7. Counted(v, lo, hi, n, s)
    <2>1. P \in SUBSET Nat
      OBVIOUS
    <2>2. \A k \in P : k + 1 \in P
      BY <1>6
    <2> HIDE DEF P
    <2>3. n \in P
      BY <1>1, <1>5, <2>1, <2>2, NaturalInduction
    <2> QED
      BY <1>1, <2>3 DEF P
  <1>8. entries = Append(s.out, e)
    BY <1>1, <1>3
  <1> HIDE DEF s
  <1>9. /\ s \in Counter /\ s.last \in Nat /\ s.cnt \in Nat /\ s.cnt >= 1
        /\ s.out \in Seq(Entry)
        /\ s.last \in lo..hi \/ (s.last = 0 /\ s.out = <<>> /\ s.cnt = 1)
        /\ \A i \in 1..Len(s.out) : s.out[i].addr \in lo..hi /\ s.out[i].count >= 1
        /\ s.out # <<>> => s.out[Len(s.out)].addr # s.last
        /\ \A R \in SUBSET (lo..hi) :
             Tally(s.out, R) + (IF s.last \in R THEN s.cnt ELSE 0) = Seen(v, n, R)
    BY <1>7 DEF Counted, Counter
  <1>10. e \in Entry /\ e.addr = s.last /\ e.count = s.cnt
    BY <1>9 DEF Entry
  <1> HIDE DEF e
  <1>11. /\ entries \in Seq(Entry) /\ Len(entries) = Len(s.out) + 1
         /\ Len(s.out) \in Nat /\ DOMAIN entries = 1..Len(s.out) + 1
         /\ entries[Len(s.out) + 1] = e
         /\ \A i \in 1..Len(s.out) : entries[i] = s.out[i]
    BY <1>8, <1>9, <1>10
  <1>12. ASSUME NEW R \in SUBSET (lo..hi)
         PROVE  Tally(entries, R) = Cardinality({k \in DOMAIN batch : batch[k] \in R})
    <2>1. Tally(Append(s.out, e), R)
            = Tally(s.out, R) + (IF e.addr \in R THEN e.count ELSE 0)
      BY <1>9, <1>10, TallyAppend
    <2> QED
      BY <1>2, <1>8, <1>9, <1>10, <2>1, Zenon
  <1>13. ASSUME Len(entries) > 1
         PROVE  \E i \in DOMAIN entries :
                  entries[i].addr \in lo..hi - 1 /\ entries[i].count >= 1
    <2> DEFINE m == Len(s.out)
    <2>1. m \in 1..m /\ s.out # <<>> /\ m + 1 \in DOMAIN entries /\ m \in DOMAIN entries
      BY <1>9, <1>11, <1>13
    <2>2. s.out[m].addr # s.last /\ s.last \in lo..hi /\ s.out[m].addr \in lo..hi
          /\ s.out[m].count >= 1
      BY <1>9, <2>1
    <2>3. CASE s.last = hi
      <3>1. entries[m].addr \in lo..hi - 1 /\ entries[m].count >= 1
        BY <1>11, <2>1, <2>2, <2>3
      <3> QED
        BY <2>1, <3>1
    <2>4. CASE s.last # hi
      <3>1. entries[m + 1].addr \in lo..hi - 1 /\ entries[m + 1].count >= 1
        BY <1>9, <1>10, <1>11, <2>2, <2>4
      <3> QED
        BY <2>1, <3>1
    <2> QED
      BY <2>3, <2>4
  <1>14. Len(entries) >= 1
    BY <1>11
  <1> QED
    BY <1>11, <1>12, <1>13, <1>14 DEF entries

(***************************************************************************)
(* The counts of the regions.                                              *)
(***************************************************************************)

\* The accesses of a batch that region i counts.
InRegion(lo, hi, i) == {a \in lo..hi : IndexOf(lo, a) = i}

\* They are those between its bounds.
LEMMA InRegionBounds ==
  ASSUME NEW lo \in Nat, NEW hi \in Nat, NEW i \in Filled(lo, hi), NEW a \in Nat
  PROVE  a \in InRegion(lo, hi, i)
           <=> /\ a \in RegionStart(lo, i)..RegionStart(lo, i) + RegionSize - 1
               /\ a <= hi
  <1> DEFINE q == IndexOf(lo, a)
             r == (a - lo) % RegionSize
  <1>1. /\ RegionSize \in Nat /\ RegionSize > 0 /\ i \in Nat
        /\ RegionStart(lo, i) \in Int /\ RegionStart(lo, i) = lo + i * RegionSize
    BY RegionSizeAssumption, StartIsInt DEF Filled
  <1>2. lo <= RegionStart(lo, i)
    <2>1. i * RegionSize \in Nat
      BY <1>1
    <2> QED
      BY <1>1, <2>1
  <1>3. ASSUME lo <= a
        PROVE  /\ q \in Int /\ RegionStart(lo, q) \in Int
               /\ a \in RegionStart(lo, q)..RegionStart(lo, q) + RegionSize - 1
    <2>1. q \in 0..a - lo /\ RegionStart(lo, q) = a - r /\ r \in 0..RegionSize - 1
      BY <1>3, IndexContains
    <2> HIDE DEF q, r
    <2>2. RegionStart(lo, q) \in Int
      BY <2>1, StartIsInt
    <2> QED
      BY <1>1, <2>1, <2>2
  <1> HIDE DEF q
  <1>4. ASSUME lo <= a, a \in RegionStart(lo, i)..RegionStart(lo, i) + RegionSize - 1
        PROVE  q = i
    <2>1. ~(q < i)
      BY <1>1, <1>3, <1>4, StartsApart
    <2>2. ~(i < q)
      BY <1>1, <1>3, <1>4, StartsApart
    <2> QED
      BY <1>1, <1>3, <1>4, <2>1, <2>2
  <1>5. a \in InRegion(lo, hi, i) <=> lo <= a /\ a <= hi /\ q = i
    BY DEF InRegion, q
  <1> QED
    BY <1>1, <1>2, <1>3, <1>4, <1>5

\* An address below the end of the space has a region.
LEMMA HasRegion ==
  ASSUME NEW lo \in Nat, NEW hi \in Nat, NEW a \in lo..hi - 1
  PROVE  IndexOf(lo, a) \in Filled(lo, hi)
  BY OneRegion

\* The counts of the regions are those of the batch: each access in the space
\* is counted once, in the region it lies in; if the batch has more than one
\* entry then some region is hot (assign_events_to_regions).
LEMMA CollectedCounts ==
  ASSUME NEW lo \in Nat \ {0}, NEW hi \in Nat, NEW batch \in Seq(Nat)
  PROVE  LET entries == RunLengths(batch, lo, hi)
             counts == Collected(entries, lo, hi, Filled(lo, hi))
         IN  /\ counts \in [Filled(lo, hi) -> Nat]
             /\ \A i \in Filled(lo, hi) :
                  counts[i] = Cardinality({k \in DOMAIN batch :
                                             batch[k] \in InRegion(lo, hi, i)})
             /\ Len(entries) > 1 => \E i \in Filled(lo, hi) : counts[i] > 0
  <1> DEFINE entries == RunLengths(batch, lo, hi)
             dom == Filled(lo, hi)
             counts == Collected(entries, lo, hi, dom)
             f == [k \in DOMAIN entries |-> entries[k].count]
             Of(R) == {k \in DOMAIN entries : entries[k].addr \in R}
             Mine(i) == {k \in DOMAIN entries :
                           entries[k].addr \in lo..hi /\ IndexOf(lo, entries[k].addr) = i}
  <1>1. /\ entries \in Seq(Entry)
        /\ Len(entries) > 1 => \E k \in DOMAIN entries :
             entries[k].addr \in lo..hi - 1 /\ entries[k].count >= 1
        /\ \A R \in SUBSET (lo..hi) :
             Tally(entries, R) = Cardinality({k \in DOMAIN batch : batch[k] \in R})
    BY RunLengthsCount
  <1>2. counts = [i \in dom |-> SumFunction([k \in Mine(i) |-> entries[k].count])]
    BY DEF Collected
  <1> HIDE DEF entries, dom, counts
  <1>3. \A k \in DOMAIN entries : f[k] = entries[k].count /\ f[k] \in Nat
    <2>1. \A k \in DOMAIN entries : entries[k] \in Entry
      BY <1>1
    <2>2. \A x \in Entry : x.count \in Nat
      BY DEF Entry
    <2> QED
      BY <2>1, <2>2
  <1>4. ASSUME NEW i
        PROVE  Mine(i) = Of(InRegion(lo, hi, i))
    BY DEF InRegion
  <1>5. ASSUME NEW R
        PROVE  IsFiniteSet(Of(R)) /\ Of(R) \subseteq DOMAIN entries
    <2>1. DOMAIN entries = 1..Len(entries) /\ Len(entries) \in Nat
      BY <1>1
    <2>2. IsFiniteSet(DOMAIN entries)
      BY <2>1, Counting
    <2>3. Of(R) \in SUBSET DOMAIN entries
      OBVIOUS
    <2> HIDE DEF Of
    <2> QED
      BY <2>2, <2>3, FS_Subset
  <1>6. ASSUME NEW R
        PROVE  [k \in Of(R) |-> entries[k].count] = [k \in Of(R) |-> f[k]]
    OBVIOUS
  <1>7. \A R : Tally(entries, R) = SumOn(f, Of(R))
    BY DEF Tally
  <1> HIDE DEF f, Of, Mine
  <1>8. ASSUME NEW R
        PROVE  /\ Tally(entries, R) \in Nat
               /\ \A k \in Of(R) : entries[k].count <= Tally(entries, R)
    <2>1. \A k \in Of(R) : f[k] \in Nat /\ f[k] = entries[k].count
      BY <1>3, <1>5
    <2>2. SumOn(f, Of(R)) \in Nat /\ \A k \in Of(R) : f[k] <= SumOn(f, Of(R))
      BY <1>5, <2>1, SumOnNat
    <2> QED
      BY <1>7, <2>1, <2>2
  <1>9. ASSUME NEW i \in dom
        PROVE  counts[i] = Tally(entries, InRegion(lo, hi, i))
    <2> DEFINE R == InRegion(lo, hi, i)
    <2>1. counts[i] = SumFunction([k \in Mine(i) |-> entries[k].count])
      BY <1>2
    <2>2. Mine(i) = Of(R)
      BY <1>4
    <2> HIDE DEF R
    <2>3. [k \in Of(R) |-> entries[k].count] = [k \in Of(R) |-> f[k]]
      BY <1>6
    <2>4. SumFunction([k \in Of(R) |-> f[k]]) = SumOn(f, Of(R))
      BY DEF SumOn
    <2>5. counts[i] = Tally(entries, R)
      BY <1>7, <2>1, <2>2, <2>3, <2>4, Zenon
    <2> QED
      BY <2>5 DEF R
  <1>10. counts \in [dom -> Nat]
    <2>1. \A i \in dom : counts[i] \in Nat
      BY <1>8, <1>9
    <2> QED
      BY <1>2, <2>1
  <1>11. ASSUME NEW i \in dom
         PROVE  counts[i] = Cardinality({k \in DOMAIN batch :
                                           batch[k] \in InRegion(lo, hi, i)})
    <2>1. InRegion(lo, hi, i) \in SUBSET (lo..hi)
      BY DEF InRegion
    <2> QED
      BY <1>1, <1>9, <2>1
  <1>12. ASSUME Len(entries) > 1
         PROVE  \E i \in dom : counts[i] > 0
    <2>1. PICK k \in DOMAIN entries :
            entries[k].addr \in lo..hi - 1 /\ entries[k].count >= 1
      BY <1>1, <1>12
    <2> DEFINE a == entries[k].addr
               i == IndexOf(lo, a)
    <2>2. a \in lo..hi - 1 /\ a \in lo..hi
      BY <2>1
    <2> HIDE DEF a
    <2>3. i \in dom
      BY <2>2, HasRegion DEF dom
    <2>4. a \in InRegion(lo, hi, i)
      BY <2>2 DEF InRegion
    <2> HIDE DEF i
    <2>5. k \in Of(InRegion(lo, hi, i))
      BY <2>1, <2>4 DEF Of, a
    <2>6. counts[i] = Tally(entries, InRegion(lo, hi, i))
      BY <1>9, <2>3
    <2>7. /\ counts[i] \in Nat
          /\ entries[k].count <= counts[i] /\ entries[k].count \in Nat
      BY <1>3, <1>8, <2>1, <2>5, <2>6
    <2> QED
      BY <2>1, <2>3, <2>7
  <1> QED
    BY <1>10, <1>11, <1>12 DEF entries, dom, counts

(***************************************************************************)
(* The threshold.                                                          *)
(***************************************************************************)

\* A region keeps at least its own count.
LEMMA ConvolvedKeeps ==
  ASSUME NEW S, IsFiniteSet(S), S \subseteq Int, NEW counts \in [S -> Nat]
  PROVE  /\ Convolved(counts) \in [S -> Nat]
         /\ \A k \in S : counts[k] <= Convolved(counts)[k]
  <1> DEFINE n == Cardinality(DOMAIN counts)
             shift == IF n >= Len(Weights) THEN 3 ELSE (n - 1) \div 2
             Near(k) == {j \in S : k + shift - j \in 0..6}
             weighed(k) == [j \in Near(k) |-> counts[j] * Weights[k + shift - j + 1]]
             w(k) == SumFunction(weighed(k)) \div 10
  <1>1. DOMAIN counts = S
    OBVIOUS
  <1>2. Convolved(counts) = [k \in S |-> IF w(k) > counts[k] THEN w(k) ELSE counts[k]]
    BY <1>1, Zenon DEF Convolved
  <1>3. shift \in Int
    <2>1. n \in Nat
      BY <1>1, FS_CardinalityType
    <2> HIDE DEF n
    <2>2. (n - 1) \div 2 \in Int
      BY <2>1
    <2> QED
      BY <2>2
  <1> HIDE DEF shift
  <1>4. \A m \in 1..7 : Weights[m] \in Int
    BY DEF Weights
  <1>5. ASSUME NEW k \in S PROVE w(k) \in Int
    <2>1. ASSUME NEW j \in Near(k)
          PROVE  weighed(k)[j] \in Int
      <3>1. /\ j \in S /\ counts[j] \in Int
            /\ k + shift - j + 1 \in 1..7
        BY <1>3
      <3>2. Weights[k + shift - j + 1] \in Int
        BY <1>4, <3>1
      <3>3. weighed(k)[j] = counts[j] * Weights[k + shift - j + 1]
        OBVIOUS
      <3> HIDE DEF weighed
      <3> QED
        BY <3>1, <3>2, <3>3
    <2>2. IsFiniteSet(Near(k)) /\ DOMAIN weighed(k) = Near(k)
          /\ weighed(k) = [j \in DOMAIN weighed(k) |-> weighed(k)[j]]
      BY FS_Subset
    <2> HIDE DEF weighed, Near
    <2>3. SumFunction(weighed(k)) = SumOn(weighed(k), Near(k))
      BY <2>2, SumOfFunction
    <2>4. SumOn(weighed(k), Near(k)) \in Int
      BY <2>1, <2>2, SumOnInt
    <2> QED
      BY <2>3, <2>4
  <1> HIDE DEF w
  <1>6. ASSUME NEW k \in S
        PROVE  /\ Convolved(counts)[k] \in Nat
               /\ counts[k] <= Convolved(counts)[k]
    <2>1. Convolved(counts)[k] = IF w(k) > counts[k] THEN w(k) ELSE counts[k]
      BY <1>2
    <2>2. counts[k] \in Nat
      OBVIOUS
    <2> QED
      BY <1>5, <2>1, <2>2
  <1> QED
    BY <1>2, <1>6

\* Between two natural numbers, rounded down.
LEMMA Interpolated ==
  ASSUME NEW low \in Nat, NEW high \in Nat, low <= high, NEW r \in 0..99
  PROVE  low + (r * (high - low)) \div 100 \in low..high
  <1> DEFINE d == high - low
             q == (r * d) \div 100
             e == (r * d) % 100
  <1>1. d \in Nat /\ r \in Nat /\ r * d \in Nat
    OBVIOUS
  <1>2. r * d <= 100 * d
    <2>1. d * r <= d * 100 /\ d * r = r * d
      BY <1>1, ProductMono
    <2> QED
      BY <1>1, <2>1
  <1>3. q \in Int /\ e \in 0..99 /\ r * d = 100 * q + e
    BY <1>1
  <1> HIDE DEF q, e
  <1>4. 0 <= q /\ q <= d
    BY <1>1, <1>2, <1>3
  <1> QED
    BY <1>1, <1>3, <1>4 DEF q

\* A percentile lies between two of the values, or is one.
LEMMA PercentileInRange ==
  ASSUME NEW conv, NEW hot, IsFiniteSet(hot), hot # {},
         \A k \in hot : conv[k] \in Nat, NEW p \in 0..100
  PROVE  \E k, l \in hot : PercentileAmong(p, conv, hot) \in conv[k]..conv[l]
  <1> DEFINE m == Cardinality(hot)
             u == [j \in 1..m |-> conv[SetToSeq(hot)[j]]]
             v == Sorted(u)
             at == (m - 1) * p
             b == at \div 100
             r == at % 100
  <1>1. m \in Nat /\ ExistsBijection(1..m, hot)
    BY FS_CardinalityType
  <1>2. m >= 1
    BY <1>1, FS_EmptySet
  <1>3. SetToSeq(hot) \in [1..m -> hot]
    <2>1. \E f \in [1..m -> hot] : IsInjective(f)
      BY <1>1 DEF ExistsBijection, Bijection, Injection
    <2> QED
      BY <2>1 DEF SetToSeq
  <1> HIDE DEF m
  <1>4. \A j \in 1..m : \E k \in hot : u[j] = conv[k]
    BY <1>3
  <1>5. u \in Seq(Nat) /\ Len(u) = m /\ DOMAIN u = 1..m
    <2>1. u \in [1..m -> Nat]
      BY <1>3
    <2> HIDE DEF u
    <2> QED
      BY <1>1, <2>1
  <1> HIDE DEF u
  <1>6. /\ Len(v) = m
        /\ \A j \in 1..m : \E k \in hot : v[j] = conv[k]
        /\ \A i, j \in 1..m : i < j => v[i] <= v[j]
    <2>1. /\ Len(v) = Len(u)
          /\ \A j \in DOMAIN u : \E i \in DOMAIN u : v[j] = u[i]
          /\ \A i, j \in DOMAIN u : i < j => v[i] <= v[j]
      BY <1>5, SortedKeeps
    <2> HIDE DEF v
    <2>2. \A j \in 1..m : \E i \in 1..m : v[j] = u[i]
      BY <1>5, <2>1
    <2>3. \A j \in 1..m : \E k \in hot : v[j] = conv[k]
      <3>1. ASSUME NEW j \in 1..m PROVE \E k \in hot : v[j] = conv[k]
        <4>1. PICK i \in 1..m : v[j] = u[i]
          BY <2>2
        <4>2. PICK k \in hot : u[i] = conv[k]
          BY <1>4
        <4> QED
          BY <4>1, <4>2
      <3> QED
        BY <3>1
    <2>4. Len(v) = m /\ \A i, j \in 1..m : i < j => v[i] <= v[j]
      BY <1>5, <2>1
    <2> QED
      BY <2>3, <2>4
  <1> HIDE DEF v
  <1>7. at \in Nat /\ at <= 100 * (m - 1)
    <2>1. m - 1 \in Nat /\ p \in Int /\ p <= 100 /\ p >= 0
      BY <1>1, <1>2
    <2>2. (m - 1) * p <= (m - 1) * 100 /\ (m - 1) * p \in Int
      BY <2>1, ProductMono
    <2>3. (m - 1) * p >= 0
      BY <2>1
    <2> QED
      BY <2>1, <2>2, <2>3
  <1> HIDE DEF at
  <1>8. b \in Int /\ r \in 0..99 /\ at = 100 * b + r
    BY <1>7
  <1> HIDE DEF b, r
  <1>9. b \in Int /\ b + 1 \in 1..m /\ (r # 0 => b + 2 \in 1..m)
    BY <1>1, <1>2, <1>7, <1>8
  <1>10. PercentileAmong(p, conv, hot)
           = IF r = 0 THEN v[b + 1]
             ELSE v[b + 1] + (r * (v[b + 2] - v[b + 1])) \div 100
    <2>1. PercentileAmong(p, conv, hot)
            = LET a == (Len(v) - 1) * p
              IN  IF a % 100 = 0 THEN v[a \div 100 + 1]
                  ELSE v[a \div 100 + 1]
                         + ((a % 100) * (v[a \div 100 + 2] - v[a \div 100 + 1])) \div 100
      BY DEF PercentileAmong, m, u, v
    <2> QED
      BY <1>6, <2>1, Zenon DEF at, b, r
  <1>11. PICK k \in hot : v[b + 1] = conv[k]
    BY <1>6, <1>9
  <1>12. CASE r = 0
    <2>1. PercentileAmong(p, conv, hot) = conv[k]
      BY <1>10, <1>11, <1>12
    <2>2. conv[k] \in conv[k]..conv[k]
      OBVIOUS
    <2> QED
      BY <2>1, <2>2
  <1>13. CASE r # 0
    <2>1. PICK l \in hot : v[b + 2] = conv[l]
      BY <1>6, <1>9, <1>13
    <2>2. v[b + 1] <= v[b + 2]
      BY <1>6, <1>9, <1>13
    <2>3. conv[k] \in Nat /\ conv[l] \in Nat /\ conv[k] <= conv[l]
      BY <1>11, <2>1, <2>2
    <2>4. conv[k] + (r * (conv[l] - conv[k])) \div 100 \in conv[k]..conv[l]
      BY <1>8, <2>3, Interpolated
    <2>5. PercentileAmong(p, conv, hot) = conv[k] + (r * (conv[l] - conv[k])) \div 100
      BY <1>10, <1>11, <1>13, <2>1
    <2> QED
      BY <2>4, <2>5
  <1> QED
    BY <1>12, <1>13

\* The threshold that convolve.py leaves when some region has been accessed: at
\* least 1, so that an idle region is below it, and not more than what the
\* convolution makes of some region's count.
THEOREM ThresholdInRange ==
  ASSUME NEW S, IsFiniteSet(S), S \subseteq Int, NEW counts \in [S -> Nat],
         \E i \in S : counts[i] > 0, NEW p \in 0..100
  PROVE  /\ PercentileOf(p, counts) \in Nat \ {0}
         /\ \E i \in S : PercentileOf(p, counts) <= Convolved(counts)[i]
  <1> DEFINE conv == Convolved(counts)
             hot == {k \in DOMAIN conv : conv[k] > 0}
  <1>1. conv \in [S -> Nat] /\ \A k \in S : counts[k] <= conv[k]
    BY ConvolvedKeeps
  <1>2. PercentileOf(p, counts) = PercentileAmong(p, conv, hot)
    BY DEF PercentileOf
  <1> HIDE DEF conv
  <1>3. /\ hot \in SUBSET S /\ hot # {}
        /\ \A k \in hot : conv[k] \in Nat /\ conv[k] > 0
    BY <1>1
  <1> HIDE DEF hot
  <1>4. IsFiniteSet(hot)
    BY <1>3, FS_Subset
  <1>5. PICK k \in hot, l \in hot : PercentileAmong(p, conv, hot) \in conv[k]..conv[l]
    BY <1>3, <1>4, PercentileInRange
  <1>6. conv[k] \in Nat /\ conv[k] > 0 /\ conv[l] \in Nat /\ l \in S
    BY <1>3
  <1> QED
    BY <1>2, <1>5, <1>6 DEF conv

=============================================================================
