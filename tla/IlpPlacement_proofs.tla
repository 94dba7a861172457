------------------------ MODULE IlpPlacement_proofs ------------------------
(***************************************************************************)
(* Proofs about IlpPlacement, for requests of any length and hotness, any  *)
(* size of the groups and of the regions, and any width of an int.         *)
(***************************************************************************)
EXTENDS IlpPlacement, SumTheorems, TLAPS

(***************************************************************************)
(* The request and the order of its regions.                               *)
(***************************************************************************)

NrGroups == (Len(hotness) + GroupSize - 1) \div GroupSize

\* The regions in the order o, in groups, and the place of region k in o.
InOrder(o) == [i \in Ids |-> [hotness |-> ToInt(hotness[o[i]]), id |-> o[i],
                              group |-> GroupOf(i)]]
At(o, k) == CHOOSE i \in Ids : o[i] = k

\* A request is a sequence that is not empty; its regions are numbered from 1.
LEMMA RequestFacts ==
  ASSUME hotness \in Requests
  PROVE  /\ hotness \in Seq(Nat)
         /\ Len(hotness) \in Nat \ {0}
         /\ IsFiniteSet(Ids) /\ Cardinality(Ids) = Len(hotness)
         /\ 1 \in Ids
         /\ \A r \in Ids : r \in Nat /\ hotness[r] \in Nat
  <1>1. hotness \in Seq(Nat) /\ hotness # <<>>
    BY PlacementAssumption
  <1>2. Len(hotness) \in Nat \ {0}
    BY <1>1
  <1>3. IsFiniteSet(Ids) /\ Cardinality(Ids) = Len(hotness)
    BY <1>2, FS_Interval DEF Ids
  <1> QED
    BY <1>1, <1>2, <1>3 DEF Ids

\* What std::sort leaves is a permutation of the regions.
LEMMA OrderFacts ==
  ASSUME hotness \in Requests, NEW o \in Orders
  PROVE  /\ o \in [Ids -> Ids] /\ Len(o) = Len(hotness)
         /\ \A i, j \in Ids : o[i] = o[j] => i = j
         /\ \A k \in Ids : At(o, k) \in Ids /\ o[At(o, k)] = k
         /\ \A i \in Ids : At(o, o[i]) = i
  <1>1. 1..Cardinality(Ids) = Ids /\ Len(hotness) \in Nat /\ IsFiniteSet(Ids)
    BY RequestFacts DEF Ids
  <1>2. o \in [Ids -> Ids] /\ \A i, j \in Ids : i # j => o[i] # o[j]
    BY <1>1 DEF Orders, SetToSeqs
  <1>3. Len(o) = Len(hotness)
    BY <1>1, <1>2 DEF Ids
  <1>4. o \in Injection(Ids, Ids)
    BY <1>2 DEF Injection, IsInjective
  <1>5. o \in Surjection(Ids, Ids)
    BY <1>1, <1>4, FS_Injection
  <1>6. \A k \in Ids : \E i \in Ids : o[i] = k
    BY <1>5 DEF Surjection
  <1>7. \A k \in Ids : At(o, k) \in Ids /\ o[At(o, k)] = k
    BY <1>6 DEF At
  <1> QED
    BY <1>2, <1>3, <1>7

\* mod_region keeps what fits an int.
LEMMA ToIntRange ==
  ASSUME NEW h \in Nat
  PROVE  /\ IntWidth \in Nat /\ IntWidth \div 2 \in Nat \ {0}
         /\ ToInt(h) \in Int /\ ToInt(h) < IntWidth \div 2
  <1>1. PICK n \in 1..IntWidth : IntWidth = 2 * n
    BY PlacementAssumption
  <1>2. n \in Nat \ {0} /\ IntWidth \in Nat \ {0} /\ IntWidth \div 2 = n
    BY <1>1
  <1>3. (h + n) % IntWidth \in 0..IntWidth - 1
    BY <1>2
  <1> QED
    BY <1>1, <1>2, <1>3 DEF ToInt

\* Every region is in a group.
LEMMA GroupFacts ==
  ASSUME hotness \in Requests
  PROVE  /\ NrGroups \in Nat \ {0}
         /\ \A i \in Ids : GroupOf(i) \in 1..NrGroups
  <1>1. Len(hotness) \in Nat \ {0} /\ GroupSize \in Nat \ {0}
    BY RequestFacts, PlacementAssumption
  <1>2. NrGroups \in Int
    BY <1>1, DivMod DEF NrGroups
  <1>3. ASSUME NEW i \in Ids
        PROVE  GroupOf(i) \in Nat \ {0} /\ GroupOf(i) <= NrGroups
    <2> DEFINE d == (i - 1) \div GroupSize
               e == (i - 1) % GroupSize
    <2>1. i \in Nat /\ 1 <= i /\ i <= Len(hotness)
      BY <1>1 DEF Ids
    <2>2. i - 1 \in Int /\ 0 <= i - 1
      BY <2>1
    <2>3. d \in Int /\ e \in 0..GroupSize - 1 /\ i - 1 = GroupSize * d + e
      BY <1>1, <2>2, DivMod
    <2>4. 0 <= d
      BY <1>1, <2>2, QuotientAtLeast
    <2> HIDE DEF d, e
    <2>5. GroupSize * (d + 1) = GroupSize * d + GroupSize /\ GroupSize * d \in Int
      BY <1>1, <2>3
    <2>6. GroupSize * (d + 1) <= Len(hotness) + GroupSize - 1
      BY <1>1, <2>1, <2>3, <2>5
    <2>7. d + 1 <= NrGroups
      <3>1. Len(hotness) + GroupSize - 1 \in Int /\ d + 1 \in Int
        BY <1>1, <2>3
      <3> QED
        BY <1>1, <2>6, <3>1, QuotientAtLeast DEF NrGroups
    <2> QED
      BY <2>3, <2>4, <2>7 DEF GroupOf, d
  <1>4. 1 \in Ids
    BY RequestFacts
  <1> QED
    BY <1>2, <1>3, <1>4

\* The hotness of a group is at least 1.
LEMMA ClampedFacts ==
  ASSUME NEW t \in Nat
  PROVE  /\ Clamped(t) \in Nat \ {0} /\ t <= Clamped(t)
         /\ Clamped(t) = 1 \/ (Clamped(t) = t /\ t # 0)
  BY DEF Clamped

\* The hotness of a group is that of its hottest region, or 1.
LEMMA HottestFacts ==
  ASSUME NEW mod, IsFiniteSet(DOMAIN mod), \A k \in DOMAIN mod : mod[k].hotness \in Int,
         NEW g
  PROVE  /\ HottestOf(mod, g) \in Nat \ {0}
         /\ \A k \in DOMAIN mod :
              mod[k].group = g => mod[k].hotness <= HottestOf(mod, g)
         /\ \/ HottestOf(mod, g) = 1
            \/ \E k \in DOMAIN mod :
                 mod[k].group = g /\ mod[k].hotness = HottestOf(mod, g)
  <1> DEFINE D == {k \in DOMAIN mod : mod[k].group = g}
             f == [k \in D |-> mod[k].hotness]
             top == FoldFunction(LAMBDA h, m : IF h > m THEN h ELSE m, 0, f)
  <1>1. DOMAIN f = D /\ IsFiniteSet(D) /\ \A k \in D : f[k] = mod[k].hotness
    BY FS_Subset
  <1>2. HottestOf(mod, g) = Clamped(top)
    BY DEF HottestOf
  <1>3. \A k \in D : k \in DOMAIN mod /\ mod[k].group = g /\ mod[k].hotness \in Int
    OBVIOUS
  <1>4. \A k \in DOMAIN mod : mod[k].group = g => k \in D
    OBVIOUS
  <1>5. /\ top \in Nat
        /\ \A k \in DOMAIN f : f[k] <= top
        /\ top = 0 \/ \E k \in DOMAIN f : f[k] = top
    <2> HIDE DEF f, D
    <2>1. IsFiniteSet(DOMAIN f) /\ \A k \in DOMAIN f : f[k] \in Int
      BY <1>1, <1>3
    <2> QED
      BY <2>1, FoldIsMaximum
  <1> HIDE DEF top, f, D
  <1>6. Clamped(top) \in Nat \ {0} /\ top <= Clamped(top)
        /\ (Clamped(top) = 1 \/ (Clamped(top) = top /\ top # 0))
    BY <1>5, ClampedFacts
  <1>7. ASSUME NEW k \in DOMAIN mod, mod[k].group = g
        PROVE  mod[k].hotness <= Clamped(top)
    <2>1. mod[k].hotness \in Int /\ mod[k].hotness <= top
      BY <1>1, <1>3, <1>4, <1>5, <1>7
    <2> QED
      BY <1>5, <1>6, <2>1
  <1>8. Clamped(top) = 1
        \/ \E k \in DOMAIN mod : mod[k].group = g /\ mod[k].hotness = Clamped(top)
    BY <1>1, <1>3, <1>5, <1>6
  <1> QED
    BY <1>2, <1>6, <1>7, <1>8

\* A sequence of the numbers 1 to n that grows from each to the next is the
\* identity.
LEMMA GrowingIsIdentity ==
  ASSUME NEW n \in Nat, NEW s \in [1..n -> 1..n],
         \A i \in 1..n - 1 : s[i] < s[i + 1]
  PROVE  \A i \in 1..n : s[i] = i
  <1>1. \A i \in 1..n : s[i] \in 1..n
    OBVIOUS
  <1> DEFINE P == {m \in Nat : m + 1 \in 1..n => m + 1 <= s[m + 1]}
             Q == {m \in Nat : n - m \in 1..n => s[n - m] <= n - m}
  <1>2. \A m \in Nat : m \in P
    <2>1. 0 \in P
      BY <1>1
    <2>2. ASSUME NEW m \in P, (m + 1) + 1 \in 1..n
          PROVE  (m + 1) + 1 <= s[(m + 1) + 1]
      <3>1. m \in Nat /\ m + 1 \in 1..n - 1 /\ m + 1 \in 1..n
        BY <2>2
      <3>2. m + 1 <= s[m + 1]
        BY <3>1
      <3>3. s[m + 1] < s[(m + 1) + 1]
        BY <3>1
      <3>4. s[m + 1] \in Int /\ s[(m + 1) + 1] \in Int
        BY <1>1, <2>2, <3>1
      <3> QED
        BY <3>1, <3>2, <3>3, <3>4
    <2>3. \A m \in P : m + 1 \in P
      BY <2>2
    <2>4. P \in SUBSET Nat
      OBVIOUS
    <2> HIDE DEF P
    <2> QED
      BY <2>1, <2>3, <2>4, NaturalInduction
  <1>3. \A m \in Nat : m \in Q
    <2>1. 0 \in Q
      BY <1>1
    <2>2. ASSUME NEW m \in Q, n - (m + 1) \in 1..n
          PROVE  s[n - (m + 1)] <= n - (m + 1)
      <3> DEFINE i == n - (m + 1)
      <3>1. m \in Nat /\ i \in 1..n - 1 /\ i + 1 = n - m /\ n - m \in 1..n
        BY <2>2
      <3>2. s[n - m] <= n - m
        BY <3>1
      <3>3. s[i] < s[i + 1]
        BY <3>1
      <3>4. s[i] \in Int /\ s[i + 1] \in Int
        BY <1>1, <2>2, <3>1
      <3> QED
        BY <3>1, <3>2, <3>3, <3>4
    <2>3. \A m \in Q : m + 1 \in Q
      BY <2>2
    <2>4. Q \in SUBSET Nat
      OBVIOUS
    <2> HIDE DEF Q
    <2> QED
      BY <2>1, <2>3, <2>4, NaturalInduction
  <1> SUFFICES ASSUME NEW i \in 1..n
               PROVE  s[i] = i
    OBVIOUS
  <1>4. i - 1 \in P /\ n - i \in Q
    <2>1. i - 1 \in Nat /\ n - i \in Nat
      OBVIOUS
    <2> HIDE DEF P, Q
    <2> QED
      BY <1>2, <1>3, <2>1
  <1>5. (i - 1) + 1 = i /\ n - (n - i) = i
    OBVIOUS
  <1>6. i <= s[i] /\ s[i] <= i
    BY <1>4, <1>5
  <1> QED
    BY <1>1, <1>6

(***************************************************************************)
(* The states of one request.  Every step computes a function of what the  *)
(* steps before it left, up to the order of equally hot regions and the    *)
(* choice among optimal placements: Computed says so, and the properties   *)
(* follow from it.                                                         *)
(***************************************************************************)

\* The regions back in the order of the request.
SortedBack(o) == [k \in Ids |-> InOrder(o)[At(o, k)]]

Arranged(o) ==
  /\ grpHotness = [g \in 1..NrGroups |-> HottestOf(InOrder(o), g)]
  /\ modRegions = IF step = "answered" THEN SortedBack(o) ELSE InOrder(o)
  /\ step = "answered" => dstTiers = [k \in Ids |-> place[GroupOf(At(o, k))]]

LimitOf == (MinTCO * 100 + (MaxTCO - MinTCO) * percent) \div 100

PacketOf ==
  [final |-> Objective(place),
   other |-> Cut(Sum([g \in Groups |-> GroupCost(place[g])])),
   limit |-> limit,
   minTCO |-> MinTCO, maxTCO |-> MaxTCO,
   minPerf |-> MinPerfLoss, maxPerf |-> MaxPerfLoss]

Computed ==
  /\ hotness \in Requests /\ percent \in Percents
  /\ step \in {"read", "limit", "solve", "packet", "answered", "failed"}
  /\ step # "read" => \E o \in Orders : Arranged(o)
  /\ limit = IF step \in {"read", "limit"} THEN 0 ELSE LimitOf
  /\ step \in {"packet", "answered"} => place \in Optimal
  /\ step = "answered" => packet = PacketOf

\* Sorting by id undoes the sort by hotness.
LEMMA ByIdSortsBack ==
  ASSUME hotness \in Requests, NEW o \in Orders, modRegions = InOrder(o)
  PROVE  ById = SortedBack(o)
  <1> DEFINE q == CHOOSE q \in SetToSeqs(DOMAIN modRegions) :
                    \A i \in 1..Len(q) - 1 :
                      modRegions[q[i]].id < modRegions[q[i + 1]].id
             n == Len(hotness)
             back == [k \in Ids |-> At(o, k)]
  <1>1. n \in Nat /\ 1..Cardinality(Ids) = Ids /\ Ids = 1..n
    BY RequestFacts DEF Ids
  <1>2. /\ o \in [Ids -> Ids]
        /\ \A k \in Ids : At(o, k) \in Ids /\ o[At(o, k)] = k
        /\ \A i \in Ids : At(o, o[i]) = i
    BY OrderFacts
  <1>3. \A i \in Ids : modRegions[i].id = o[i]
    BY DEF InOrder
  <1>4. DOMAIN modRegions = Ids
    BY DEF InOrder
  <1>5. ById = [k \in Ids |-> modRegions[q[k]]]
    <2>1. ById = [k \in DOMAIN modRegions |-> modRegions[q[k]]]
      BY DEF ById
    <2> HIDE DEF q
    <2> QED
      BY <1>4, <2>1
  <1>6. back \in SetToSeqs(DOMAIN modRegions) /\ Len(back) = n
    <2>1. back \in [Ids -> Ids] /\ \A i, j \in Ids : i # j => back[i] # back[j]
      BY <1>2
    <2>2. Len(back) = n
      BY <1>1, <2>1
    <2> HIDE DEF back
    <2>3. back \in SetToSeqs(Ids)
      BY <1>1, <2>1 DEF SetToSeqs
    <2> QED
      BY <1>4, <2>2, <2>3
  <1>7. \A i \in 1..Len(back) - 1 :
          modRegions[back[i]].id < modRegions[back[i + 1]].id
    <2> SUFFICES ASSUME NEW i \in 1..n - 1
                 PROVE  modRegions[back[i]].id < modRegions[back[i + 1]].id
      BY <1>6
    <2>1. i \in Ids /\ i + 1 \in Ids
      BY <1>1
    <2>2. modRegions[back[i]].id = i /\ modRegions[back[i + 1]].id = i + 1
      BY <1>2, <1>3, <2>1
    <2> QED
      BY <2>2
  <1>8. /\ q \in SetToSeqs(DOMAIN modRegions)
        /\ \A i \in 1..Len(q) - 1 : modRegions[q[i]].id < modRegions[q[i + 1]].id
    <2> HIDE DEF back
    <2> QED
      BY <1>6, <1>7
  <1> HIDE DEF q
  <1>9. q \in [Ids -> Ids] /\ Len(q) = n
    <2>1. q \in [Ids -> Ids]
      BY <1>1, <1>4, <1>8 DEF SetToSeqs
    <2> QED
      BY <1>1, <2>1
  <1> DEFINE s == [i \in Ids |-> o[q[i]]]
  <1>10. s \in [Ids -> Ids]
    BY <1>2, <1>9
  <1>11. \A i \in 1..n - 1 : s[i] < s[i + 1]
    <2> SUFFICES ASSUME NEW i \in 1..n - 1
                 PROVE  s[i] < s[i + 1]
      OBVIOUS
    <2>1. i \in Ids /\ i + 1 \in Ids
      BY <1>1
    <2>2. s[i] = modRegions[q[i]].id /\ s[i + 1] = modRegions[q[i + 1]].id
      BY <1>3, <1>9, <2>1
    <2> QED
      BY <1>8, <1>9, <2>2
  <1>12. \A i \in Ids : s[i] = i
    <2> HIDE DEF s, n
    <2> QED
      BY <1>1, <1>10, <1>11, GrowingIsIdentity
  <1>13. \A k \in Ids : q[k] = At(o, k)
    BY <1>2, <1>9, <1>12
  <1> QED
    BY <1>5, <1>13 DEF SortedBack

\* What a step computes stays as it is while the variables it uses do.
LEMMA ComputedFrame ==
  ASSUME UNCHANGED <<hotness, percent, grpHotness>>
  PROVE  /\ Ids' = Ids /\ Groups' = Groups /\ NrGroups' = NrGroups /\ Orders' = Orders
         /\ \A o : InOrder(o)' = InOrder(o)
         /\ LimitOf' = LimitOf /\ MinTCO' = MinTCO /\ MaxTCO' = MaxTCO
         /\ MinPerfLoss' = MinPerfLoss /\ MaxPerfLoss' = MaxPerfLoss
         /\ \A p : Objective(p)' = Objective(p)
         /\ limit' = limit => Optimal' = Optimal
  <1>1. Ids' = Ids /\ Groups' = Groups
    BY DEF Ids, Groups
  <1>2. NrGroups' = NrGroups /\ Orders' = Orders
    BY <1>1 DEF NrGroups, Orders
  <1>3. \A o : InOrder(o)' = InOrder(o)
    BY <1>1 DEF InOrder
  <1>4. MinTCO' = MinTCO /\ MaxTCO' = MaxTCO /\ LimitOf' = LimitOf
    BY DEF MinTCO, MaxTCO, LimitOf
  <1>5. MinPerfLoss' = MinPerfLoss /\ MaxPerfLoss' = MaxPerfLoss
    BY <1>1 DEF MinPerfLoss, MaxPerfLoss
  <1>6. \A p : Objective(p)' = Objective(p)
    BY <1>1 DEF Objective
  <1>7. limit' = limit => Optimal' = Optimal
    BY <1>1 DEF Optimal, Feasible, Objective
  <1> QED
    BY <1>1, <1>2, <1>3, <1>4, <1>5, <1>6, <1>7

\* The steps compute what Computed says.
LEMMA ComputedNext == Computed /\ [Next]_vars => Computed'
  <1> SUFFICES ASSUME Computed, [Next]_vars
               PROVE  Computed'
    OBVIOUS
  <1>1. CASE InitData
    <2>1. UNCHANGED <<hotness, percent, limit, place>> /\ step = "read" /\ step' = "limit"
      BY <1>1 DEF InitData
    <2>2. PICK o \in Orders :
            modRegions' = [i \in Ids |-> [hotness |-> ToInt(hotness[o[i]]),
                                          id |-> o[i], group |-> GroupOf(i)]]
      BY <1>1 DEF InitData
    <2>3. modRegions' = InOrder(o)
      BY <2>2 DEF InOrder
    <2>4. grpHotness' = [g \in 1..NrGroups |-> HottestOf(InOrder(o), g)]
      BY <1>1, <2>3 DEF InitData, NrGroups
    <2>5. Ids' = Ids /\ Orders' = Orders /\ InOrder(o)' = InOrder(o) /\ NrGroups' = NrGroups
      BY <2>1 DEF Ids, Orders, InOrder, NrGroups
    <2>6. Arranged(o)'
      BY <2>1, <2>3, <2>4, <2>5 DEF Arranged
    <2> QED
      BY <2>1, <2>5, <2>6 DEF Computed
  <1>2. CASE UNCHANGED <<hotness, percent, grpHotness>> /\ step # "read"
    <2>1. PICK o \in Orders : Arranged(o)
      BY <1>2 DEF Computed
    <2>2. /\ Ids' = Ids /\ NrGroups' = NrGroups /\ Orders' = Orders
          /\ InOrder(o)' = InOrder(o)
          /\ LimitOf' = LimitOf /\ MinTCO' = MinTCO /\ MaxTCO' = MaxTCO
          /\ MinPerfLoss' = MinPerfLoss /\ MaxPerfLoss' = MaxPerfLoss
          /\ Groups' = Groups /\ \A p : Objective(p)' = Objective(p)
          /\ limit' = limit => Optimal' = Optimal
      BY <1>2, ComputedFrame
    <2>3. SortedBack(o)' = SortedBack(o)
      BY <2>2 DEF SortedBack, At
    <2>4. CASE UNCHANGED vars
      <3>1. Arranged(o)'
        BY <2>1, <2>2, <2>3, <2>4 DEF Arranged, vars, At
      <3>2. PacketOf' = PacketOf
        BY <2>2, <2>4 DEF PacketOf, vars
      <3> QED
        BY <2>2, <2>4, <3>1, <3>2 DEF Computed, vars
    <2>5. CASE SetLimit \/ Solve \/ SolveFails
      <3>1. step \in {"limit", "solve"} /\ modRegions' = modRegions
            /\ step' \in {"solve", "packet", "failed"}
            /\ (step = "limit" => step' = "solve" /\ limit' = LimitOf)
            /\ (step = "solve" => limit' = limit)
            /\ (step' = "packet" => place' \in Optimal /\ limit' = limit)
        BY <2>5 DEF SetLimit, Solve, SolveFails, LimitOf
      <3>2. Arranged(o)'
        BY <1>2, <2>1, <2>2, <2>3, <3>1 DEF Arranged
      <3>3. limit' = LimitOf
        BY <3>1 DEF Computed
      <3> QED
        BY <1>2, <2>2, <3>1, <3>2, <3>3 DEF Computed
    <2>6. CASE PreparePacket
      <3>1. step = "packet" /\ step' = "answered" /\ UNCHANGED <<limit, place>>
            /\ modRegions' = ById /\ dstTiers' = [k \in Ids |-> place[modRegions'[k].group]]
            /\ packet' = PacketOf
        BY <2>6 DEF PreparePacket, PacketOf
      <3>2. modRegions' = SortedBack(o)
        BY <2>1, <3>1, ByIdSortsBack DEF Computed, Arranged
      <3>3. \A k \in Ids : modRegions'[k].group = GroupOf(At(o, k))
        BY <3>2, OrderFacts DEF SortedBack, InOrder, Computed
      <3>4. dstTiers' = [k \in Ids |-> place[GroupOf(At(o, k))]]
        BY <3>1, <3>3
      <3>5. \A k : At(o, k)' = At(o, k)
        BY <2>2 DEF At
      <3>6. Arranged(o)'
        BY <1>2, <2>1, <2>2, <2>3, <3>1, <3>2, <3>4, <3>5 DEF Arranged
      <3>7. PacketOf' = PacketOf
        BY <2>2, <3>1 DEF PacketOf
      <3> QED
        BY <1>2, <2>2, <3>1, <3>6, <3>7 DEF Computed
    <2> QED
      BY <1>2, <2>4, <2>5, <2>6 DEF Next, Finished, InitData
  <1>3. CASE step = "read" /\ UNCHANGED vars
    BY <1>3 DEF Computed, vars
  <1> QED
    BY <1>1, <1>2, <1>3 DEF Next, SetLimit, Solve, SolveFails, PreparePacket, Finished, vars

\* So they do throughout.
LEMMA ComputedInvariant == Spec => []Computed
  <1>1. Init => Computed
    BY DEF Init, Computed
  <1> QED
    BY <1>1, ComputedNext, PTL DEF Spec

(***************************************************************************)
(* The groups.                                                             *)
(***************************************************************************)

\* Every region of the request has one entry, with its hotness and its group.
LEMMA MemberFacts ==
  ASSUME Computed, NEW o \in Orders, Arranged(o), step # "read"
  PROVE  /\ DOMAIN modRegions = Ids
         /\ \A i \in Ids :
              /\ modRegions[i].id \in Ids
              /\ modRegions[i].hotness = ToInt(hotness[modRegions[i].id])
              /\ modRegions[i].group = GroupOf(At(o, modRegions[i].id))
         /\ \A r \in Ids : \E i \in Ids : modRegions[i].id = r
  <1>1. /\ o \in [Ids -> Ids]
        /\ \A k \in Ids : At(o, k) \in Ids /\ o[At(o, k)] = k
        /\ \A i \in Ids : At(o, o[i]) = i
    BY OrderFacts DEF Computed
  <1>2. CASE step = "answered"
    <2>1. modRegions = SortedBack(o)
      BY <1>2 DEF Arranged
    <2>2. DOMAIN modRegions = Ids
      BY <2>1 DEF SortedBack
    <2>3. \A k \in Ids : /\ modRegions[k].id = k
                         /\ modRegions[k].hotness = ToInt(hotness[k])
                         /\ modRegions[k].group = GroupOf(At(o, k))
      BY <1>1, <2>1 DEF SortedBack, InOrder
    <2> QED
      BY <2>2, <2>3
  <1>3. CASE step # "answered"
    <2>1. modRegions = InOrder(o)
      BY <1>3 DEF Arranged
    <2>2. DOMAIN modRegions = Ids
      BY <2>1 DEF InOrder
    <2>3. \A i \in Ids : /\ modRegions[i].id = o[i]
                         /\ modRegions[i].hotness = ToInt(hotness[o[i]])
                         /\ modRegions[i].group = GroupOf(i)
      BY <2>1 DEF InOrder
    <2>4. ASSUME NEW i \in Ids
          PROVE  /\ modRegions[i].id \in Ids
                 /\ modRegions[i].hotness = ToInt(hotness[modRegions[i].id])
                 /\ modRegions[i].group = GroupOf(At(o, modRegions[i].id))
      <3>1. modRegions[i].id = o[i] /\ o[i] \in Ids /\ At(o, o[i]) = i
        BY <1>1, <2>3
      <3> QED
        BY <2>3, <3>1, Zenon
    <2>5. ASSUME NEW r \in Ids
          PROVE  \E i \in Ids : modRegions[i].id = r
      BY <1>1, <2>3
    <2> QED
      BY <2>2, <2>4, <2>5
  <1> QED
    BY <1>2, <1>3

\* A group is as hot as its hottest region, at least 1, and fits an int.
LEMMA GroupHotness ==
  ASSUME Computed, NEW o \in Orders, Arranged(o), step # "read"
  PROVE  /\ Groups = 1..NrGroups /\ Len(grpHotness) = NrGroups
         /\ IsFiniteSet(Groups) /\ Cardinality(Groups) = NrGroups
         /\ \A g \in Groups : grpHotness[g] \in 1..IntWidth \div 2
         /\ \A i \in Ids : /\ GroupOf(i) \in Groups
                           /\ ToInt(hotness[o[i]]) <= grpHotness[GroupOf(i)]
         /\ \A g \in Groups :
              \/ grpHotness[g] = 1
              \/ \E i \in Ids : GroupOf(i) = g /\ ToInt(hotness[o[i]]) = grpHotness[g]
  <1> DEFINE mod == InOrder(o)
  <1>1. NrGroups \in Nat \ {0} /\ \A i \in Ids : GroupOf(i) \in 1..NrGroups
    BY GroupFacts DEF Computed
  <1>2. Len(grpHotness) = NrGroups
    BY <1>1 DEF Arranged
  <1>3. Groups = 1..NrGroups /\ IsFiniteSet(Groups) /\ Cardinality(Groups) = NrGroups
    BY <1>1, <1>2, FS_Interval DEF Groups
  <1>4. /\ DOMAIN mod = Ids /\ IsFiniteSet(Ids)
        /\ \A i \in Ids : mod[i].hotness = ToInt(hotness[o[i]]) /\ mod[i].group = GroupOf(i)
    BY RequestFacts DEF InOrder, Computed
  <1>5. \A i \in Ids : hotness[o[i]] \in Nat
    BY OrderFacts, RequestFacts DEF Computed
  <1>6. \A i \in Ids : mod[i].hotness \in Int /\ mod[i].hotness < IntWidth \div 2
    BY <1>4, <1>5, ToIntRange
  <1>7. \A g \in Groups : grpHotness[g] = HottestOf(mod, g)
    BY <1>3 DEF Arranged
  <1> HIDE DEF mod
  <1>8. \A g : /\ HottestOf(mod, g) \in Nat \ {0}
               /\ \A k \in Ids : mod[k].group = g => mod[k].hotness <= HottestOf(mod, g)
               /\ \/ HottestOf(mod, g) = 1
                  \/ \E k \in Ids : mod[k].group = g /\ mod[k].hotness = HottestOf(mod, g)
    BY <1>4, <1>6, HottestFacts
  <1>9. IntWidth \div 2 \in Nat \ {0}
    BY ToIntRange
  <1>10. \A g \in Groups : grpHotness[g] \in 1..IntWidth \div 2
    <2> SUFFICES ASSUME NEW g \in Groups
                 PROVE  HottestOf(mod, g) \in 1..IntWidth \div 2
      BY <1>7
    <2>1. HottestOf(mod, g) \in Nat \ {0}
      BY <1>8
    <2>2. HottestOf(mod, g) = 1 \/ HottestOf(mod, g) < IntWidth \div 2
      BY <1>6, <1>8
    <2> HIDE DEF mod
    <2> QED
      BY <1>9, <2>1, <2>2
  <1>11. \A i \in Ids : GroupOf(i) \in Groups
    BY <1>1, <1>3
  <1>12. \A i \in Ids : ToInt(hotness[o[i]]) <= grpHotness[GroupOf(i)]
    BY <1>4, <1>7, <1>8, <1>11
  <1>13. \A g \in Groups :
          \/ grpHotness[g] = 1
          \/ \E i \in Ids : GroupOf(i) = g /\ ToInt(hotness[o[i]]) = grpHotness[g]
    BY <1>4, <1>7, <1>8
  <1> QED
    BY <1>2, <1>3, <1>10, <1>11, <1>12, <1>13

\* printHistogram finds an element at nine tenths of the groups, and never
\* divides by zero, whatever the request.
THEOREM HistogramIsDefined == Spec => []HistogramDefined
  <1>1. Computed => HistogramDefined
    <2> SUFFICES ASSUME Computed, step # "read"
                 PROVE  NrBuckets >= 1 /\ BucketWidth >= 1
      BY DEF HistogramDefined
    <2>1. PICK o \in Orders : Arranged(o)
      BY DEF Computed
    <2>2. /\ Groups = 1..NrGroups /\ Len(grpHotness) = NrGroups
          /\ \A g \in Groups : grpHotness[g] \in 1..IntWidth \div 2
      BY <2>1, GroupHotness
    <2>3. NrGroups \in Nat \ {0} /\ IntWidth \div 2 \in Nat
      BY GroupFacts, ToIntRange DEF Computed
    <2>4. (NrGroups * 90) \div 100 + 1 \in 1..NrGroups
      BY <2>3
    <2>5. NinthTenth \in Nat \ {0}
      BY <2>2, <2>3, <2>4 DEF NinthTenth
    <2>6. NrBuckets \in Nat \ {0} /\ NrBuckets <= NinthTenth
      BY <2>5 DEF NrBuckets
    <2>7. NrBuckets * 1 <= NinthTenth
      BY <2>5, <2>6
    <2>8. 1 <= BucketWidth
      BY <2>5, <2>6, <2>7, QuotientAtLeast DEF BucketWidth
    <2>9. BucketWidth \in Int
      BY <2>5, <2>6, DivMod DEF BucketWidth
    <2> QED
      BY <2>6, <2>8, <2>9
  <1> QED
    BY <1>1, ComputedInvariant, PTL

(***************************************************************************)
(* The table of tiers, and the limit.                                      *)
(***************************************************************************)

\* A tier has a latency, and a price that is the product of its cost and its
\* compression ratio.
LEMMA TableFacts ==
  /\ 0 \in TierIdx
  /\ \A t \in TierIdx : /\ Product(t) \in Nat \ {0}
                        /\ Latency(t) \in Nat \ {0}
                        /\ GroupCost(t) = (RegionMB * GroupSize) * Product(t)
  /\ \E t \in TierIdx : \A u \in TierIdx : Product(t) >= Product(u)
  /\ \E t \in TierIdx : \A u \in TierIdx : Product(t) <= Product(u)
  /\ \E t \in TierIdx : \A u \in TierIdx : Latency(t) <= Latency(u)
  /\ \E t \in TierIdx : \A u \in TierIdx : Latency(t) >= Latency(u)
  <1>1. TierIdx = 0..4 \/ TierIdx = 0..1
    BY DEF TierIdx, NrTiers, TierVector
  <1>2. /\ Product(0) = 100 /\ Product(1) = 30 /\ Product(2) = 80
        /\ Product(3) = 50 /\ Product(4) = 15
    BY DEF Product, Cost, Com
  <1>3. /\ Latency(0) = 2 /\ Latency(1) = 4 /\ Latency(2) = 5
        /\ Latency(3) = 6 /\ Latency(4) = 7
    BY DEF Latency
  <1> DEFINE K == RegionMB * GroupSize
  <1>4. K \in Nat
    BY PlacementAssumption
  <1>5. \A t \in 0..4 : GroupCost(t) = K * Product(t)
    <2>1. \A t \in 0..4 : GroupCost(t) = K * Cost(t) * Com(t)
      BY DEF GroupCost
    <2> HIDE DEF K
    <2>2. \A t \in 0..4 : t = 0 \/ t = 1 \/ t = 2 \/ t = 3 \/ t = 4
      OBVIOUS
    <2>3. /\ K * Cost(0) * Com(0) = K * 100 /\ K * Cost(1) * Com(1) = K * 30
          /\ K * Cost(2) * Com(2) = K * 80 /\ K * Cost(3) * Com(3) = K * 50
          /\ K * Cost(4) * Com(4) = K * 15
      BY <1>4 DEF Cost, Com
    <2> QED
      BY <1>2, <2>1, <2>2, <2>3
  <1> HIDE DEF K
  <1>6. \A t \in 0..4 : Product(t) \in Nat \ {0} /\ Latency(t) \in Nat \ {0}
    <2>1. \A t \in 0..4 : t = 0 \/ t = 1 \/ t = 2 \/ t = 3 \/ t = 4
      OBVIOUS
    <2> QED
      BY <1>2, <1>3, <2>1
  <1>7. CASE TierIdx = 0..4
    <2>1. \A t \in TierIdx : t = 0 \/ t = 1 \/ t = 2 \/ t = 3 \/ t = 4
      BY <1>7
    <2>2. \A u \in TierIdx : /\ Product(0) >= Product(u) /\ Product(4) <= Product(u)
                             /\ Latency(0) <= Latency(u) /\ Latency(4) >= Latency(u)
      BY <1>2, <1>3, <2>1
    <2>3. 0 \in TierIdx /\ 4 \in TierIdx
      BY <1>7
    <2> QED
      BY <1>5, <1>6, <1>7, <2>2, <2>3, Zenon DEF K
  <1>8. CASE TierIdx = 0..1
    <2>1. \A t \in TierIdx : t = 0 \/ t = 1
      BY <1>8
    <2>2. \A u \in TierIdx : /\ Product(0) >= Product(u) /\ Product(1) <= Product(u)
                             /\ Latency(0) <= Latency(u) /\ Latency(1) >= Latency(u)
      BY <1>2, <1>3, <2>1
    <2>3. 0 \in TierIdx /\ 1 \in TierIdx /\ \A t \in TierIdx : t \in 0..4
      BY <1>8
    <2> QED
      BY <1>5, <1>6, <2>2, <2>3, Zenon DEF K
  <1> QED
    BY <1>1, <1>7, <1>8

\* The extreme tiers of the table.
LEMMA ExtremeTiers ==
  /\ Dearest \in TierIdx /\ \A u \in TierIdx : Product(u) <= Product(Dearest)
  /\ Cheapest \in TierIdx /\ \A u \in TierIdx : Product(Cheapest) <= Product(u)
  /\ Fastest \in TierIdx /\ \A u \in TierIdx : Latency(Fastest) <= Latency(u)
  /\ Slowest \in TierIdx /\ \A u \in TierIdx : Latency(u) <= Latency(Slowest)
  <1>1. /\ Dearest \in TierIdx /\ \A u \in TierIdx : Product(Dearest) >= Product(u)
        /\ Slowest \in TierIdx /\ \A u \in TierIdx : Latency(Slowest) >= Latency(u)
    BY TableFacts DEF Dearest, Slowest
  <1>2. /\ Cheapest \in TierIdx /\ \A u \in TierIdx : Product(Cheapest) <= Product(u)
        /\ Fastest \in TierIdx /\ \A u \in TierIdx : Latency(Fastest) <= Latency(u)
    BY TableFacts DEF Cheapest, Fastest
  <1>3. \A u \in TierIdx : Product(u) \in Int /\ Latency(u) \in Int
    BY TableFacts
  <1> QED
    BY <1>1, <1>2, <1>3

\* A dearer tier costs a group no less, and neither does cutting.
LEMMA CostFacts ==
  /\ \A t \in TierIdx : GroupCost(t) \in Nat \ {0} /\ Cut(GroupCost(t)) \in Nat
  /\ \A t, u \in TierIdx :
       Product(t) <= Product(u) => GroupCost(t) <= GroupCost(u)
  <1> DEFINE K == RegionMB * GroupSize
  <1>1. K \in Nat \ {0}
    BY PlacementAssumption
  <1> HIDE DEF K
  <1>2. \A t \in TierIdx : Product(t) \in Nat \ {0} /\ GroupCost(t) = K * Product(t)
    BY TableFacts DEF K
  <1>3. \A a, b \in Nat \ {0} : K * a \in Nat \ {0} /\ (a <= b => K * a <= K * b)
    <2> SUFFICES ASSUME NEW a \in Nat \ {0}, NEW b \in Nat \ {0}
                 PROVE  K * a \in Nat \ {0} /\ (a <= b => K * a <= K * b)
      OBVIOUS
    <2>1. K * a \in Nat \ {0}
      BY <1>1
    <2>2. ASSUME a <= b
          PROVE  K * a <= K * b
      <3>1. b - a \in Nat /\ K * (b - a) \in Nat
        BY <1>1, <2>2
      <3>2. K * (b - a) = K * b - K * a /\ K * b \in Int /\ K * a \in Int
        BY <1>1
      <3> QED
        BY <3>1, <3>2
    <2> QED
      BY <2>1, <2>2
  <1>4. \A t \in TierIdx : GroupCost(t) \in Nat \ {0}
    BY <1>2, <1>3
  <1>5. \A t \in TierIdx : Cut(GroupCost(t)) \in Nat
    BY <1>4 DEF Cut
  <1> QED
    BY <1>2, <1>3, <1>4, <1>5

\* Cutting keeps the order, and what is cut is less than one.
LEMMA CutFacts ==
  ASSUME NEW a \in Int, NEW b \in Int
  PROVE  /\ Cut(a) \in Int /\ 10 * Cut(a) <= a /\ a < 10 * Cut(a) + 10
         /\ a <= b => Cut(a) <= Cut(b)
  BY DEF Cut

\* The cheapest tier of the two tables costs 30 or 15 tenths per megabyte: the
\* cut loses nothing if a group has an even number of megabytes.
LEMMA CheapestIsWhole ==
  ASSUME (RegionMB * GroupSize) % 2 = 0
  PROVE  GroupCost(Cheapest) = 10 * Cut(GroupCost(Cheapest))
  <1>1. TierIdx = 0..4 \/ TierIdx = 0..1
    BY DEF TierIdx, NrTiers, TierVector
  <1>2. /\ Product(0) = 100 /\ Product(1) = 30 /\ Product(2) = 80
        /\ Product(3) = 50 /\ Product(4) = 15
    BY DEF Product, Cost, Com
  <1>3. Product(Cheapest) = 15 \/ Product(Cheapest) = 30
    <2>1. Cheapest \in TierIdx /\ \A u \in TierIdx : Product(Cheapest) <= Product(u)
      BY ExtremeTiers
    <2>2. CASE TierIdx = 0..4
      <3>1. Cheapest = 0 \/ Cheapest = 1 \/ Cheapest = 2 \/ Cheapest = 3 \/ Cheapest = 4
        BY <2>1, <2>2
      <3>2. Product(Cheapest) <= Product(4)
        BY <2>1, <2>2
      <3> QED
        BY <1>2, <3>1, <3>2
    <2>3. CASE TierIdx = 0..1
      <3>1. Cheapest = 0 \/ Cheapest = 1
        BY <2>1, <2>3
      <3>2. Product(Cheapest) <= Product(1)
        BY <2>1, <2>3
      <3> QED
        BY <1>2, <3>1, <3>2
    <2> QED
      BY <1>1, <2>2, <2>3
  <1> DEFINE K == RegionMB * GroupSize
  <1>4. K \in Nat /\ K % 2 = 0
    BY PlacementAssumption
  <1>5. GroupCost(Cheapest) = K * Product(Cheapest)
    BY ExtremeTiers, TableFacts
  <1> HIDE DEF K
  <1>6. K * Product(Cheapest) = K * 15 \/ K * Product(Cheapest) = K * 30
    BY <1>3
  <1> QED
    BY <1>4, <1>5, <1>6 DEF Cut

\* The limit is between the cheapest placement, as cut, and the dearest.
LEMMA LimitFacts ==
  ASSUME Computed, step # "read"
  PROVE  /\ MinTCO \in Nat /\ MaxTCO \in Nat /\ LimitOf \in Nat
         /\ MinTCO <= LimitOf /\ LimitOf <= MaxTCO
  <1>1. PICK o \in Orders : Arranged(o)
    BY DEF Computed
  <1>2. Len(grpHotness) \in Nat
    BY <1>1, GroupHotness, GroupFacts DEF Computed
  <1> DEFINE N == Len(grpHotness)
             lo == Cut(GroupCost(Cheapest))
             hi == Cut(GroupCost(Dearest))
  <1>3. lo \in Nat /\ hi \in Nat /\ lo <= hi
    BY CostFacts, ExtremeTiers, CutFacts
  <1> HIDE DEF N, lo, hi
  <1>4. N * lo \in Nat /\ N * hi \in Nat /\ N * lo <= N * hi
    BY <1>2, <1>3, ProductMono DEF N
  <1>5. MinTCO = N * lo /\ MaxTCO = N * hi
    BY DEF MinTCO, MaxTCO, N, lo, hi
  <1> DEFINE d == MaxTCO - MinTCO
             x == MinTCO * 100 + d * percent
  <1>6. MinTCO \in Nat /\ MaxTCO \in Nat /\ d \in Nat
    BY <1>4, <1>5
  <1>7. percent \in 1..99
    BY PlacementAssumption DEF Computed
  <1>8. d * 1 <= d * percent /\ d * percent <= d * 99 /\ d * percent \in Nat
    <2>1. percent \in Nat /\ 1 <= percent /\ percent <= 99
      BY <1>7
    <2> HIDE DEF d
    <2> QED
      BY <1>6, <2>1, ProductMono
  <1>9. x \in Nat /\ MinTCO * 100 + d <= x /\ x <= MaxTCO * 100
    <2>1. MaxTCO = MinTCO + d
      BY <1>6
    <2> HIDE DEF d
    <2> QED
      BY <1>6, <1>8, <2>1
  <1>10. LimitOf = x \div 100
    BY DEF LimitOf
  <1> HIDE DEF x, d
  <1> QED
    BY <1>6, <1>9, <1>10 DEF d

(***************************************************************************)
(* The placements the solver chooses from.                                 *)
(***************************************************************************)

\* What a placement costs, and the cost and the loss of each group in it.
Spent(p) == Sum([g \in Groups |-> GroupCost(p[g])])
Costs(p) == [g \in Groups |-> GroupCost(p[g])]
Losses(p) == [g \in Groups |-> grpHotness[g] * Latency(p[g])]

\* Both are sums of natural numbers over the groups.
LEMMA PlacementSums ==
  ASSUME Computed, step # "read", NEW p \in [Groups -> TierIdx]
  PROVE  /\ IsFiniteSet(Groups)
         /\ \A g \in Groups : /\ Costs(p)[g] = GroupCost(p[g]) /\ Costs(p)[g] \in Nat
                              /\ Losses(p)[g] = grpHotness[g] * Latency(p[g])
                              /\ Losses(p)[g] \in Nat
         /\ Spent(p) = SumOn(Costs(p), Groups) /\ Spent(p) \in Int
         /\ Objective(p) = SumOn(Losses(p), Groups) /\ Objective(p) \in Int
  <1>1. PICK o \in Orders : Arranged(o)
    BY DEF Computed
  <1>2. IsFiniteSet(Groups) /\ \A g \in Groups : grpHotness[g] \in Nat
    <2>1. IsFiniteSet(Groups) /\ \A g \in Groups : grpHotness[g] \in 1..IntWidth \div 2
      BY <1>1, GroupHotness
    <2> QED
      BY <2>1
  <1>3. \A g \in Groups : p[g] \in TierIdx
    OBVIOUS
  <1>4. \A g \in Groups : GroupCost(p[g]) \in Nat /\ Latency(p[g]) \in Nat
    BY <1>3, CostFacts, TableFacts
  <1>5. \A g \in Groups : grpHotness[g] * Latency(p[g]) \in Nat
    BY <1>2, <1>4
  <1>6. \A g \in Groups : /\ Costs(p)[g] = GroupCost(p[g])
                          /\ Losses(p)[g] = grpHotness[g] * Latency(p[g])
    BY DEF Costs, Losses
  <1>7. Spent(p) = SumOn(Costs(p), Groups)
    BY SumOfFunction DEF Spent, Sum, Costs
  <1>8. Objective(p) = SumOn(Losses(p), Groups)
    BY SumOfFunction DEF Objective, Sum, Losses
  <1>9. SumOn(Costs(p), Groups) \in Int /\ SumOn(Losses(p), Groups) \in Int
    <2>1. \A g \in Groups : Costs(p)[g] \in Int /\ Losses(p)[g] \in Int
      BY <1>4, <1>5, <1>6
    <2> QED
      BY <1>2, <2>1, SumOnInt
  <1> QED
    BY <1>2, <1>4, <1>5, <1>6, <1>7, <1>8, <1>9

\* What changes when one group moves to another tier.
LEMMA MoveOneGroup ==
  ASSUME Computed, step # "read", NEW p \in [Groups -> TierIdx],
         NEW q \in [Groups -> TierIdx],
         NEW g \in Groups, \A h \in Groups \ {g} : q[h] = p[h]
  PROVE  /\ Spent(q) = Spent(p) - GroupCost(p[g]) + GroupCost(q[g])
         /\ Objective(q) = Objective(p) - grpHotness[g] * Latency(p[g])
                                        + grpHotness[g] * Latency(q[g])
  <1>2. /\ IsFiniteSet(Groups)
        /\ \A h \in Groups : /\ Costs(p)[h] = GroupCost(p[h]) /\ Costs(p)[h] \in Int
                             /\ Costs(q)[h] = GroupCost(q[h]) /\ Costs(q)[h] \in Int
                             /\ Losses(p)[h] = grpHotness[h] * Latency(p[h])
                             /\ Losses(p)[h] \in Int
                             /\ Losses(q)[h] = grpHotness[h] * Latency(q[h])
                             /\ Losses(q)[h] \in Int
        /\ Spent(p) = SumOn(Costs(p), Groups) /\ Objective(p) = SumOn(Losses(p), Groups)
        /\ Spent(q) = SumOn(Costs(q), Groups) /\ Objective(q) = SumOn(Losses(q), Groups)
    <2>1. \A n \in Nat : n \in Int
      OBVIOUS
    <2> QED
      BY <2>1, PlacementSums, Zenon
  <1>3. \A h \in Groups \ {g} : Costs(q)[h] = Costs(p)[h] /\ Losses(q)[h] = Losses(p)[h]
    BY <1>2
  <1>0. \A a, b : /\ IsFiniteSet(Groups)
                  /\ \A h \in Groups : a[h] \in Int /\ b[h] \in Int
                  /\ \A h \in Groups \ {g} : b[h] = a[h]
                  => SumOn(b, Groups) = SumOn(a, Groups) - a[g] + b[g]
    BY SumOnUpdate
  <1>4. SumOn(Costs(q), Groups) = SumOn(Costs(p), Groups) - Costs(p)[g] + Costs(q)[g]
    <2>1. /\ IsFiniteSet(Groups)
          /\ \A h \in Groups : Costs(p)[h] \in Int /\ Costs(q)[h] \in Int
          /\ \A h \in Groups \ {g} : Costs(q)[h] = Costs(p)[h]
      BY <1>2, <1>3
    <2> QED
      BY <1>0, <2>1, Zenon
  <1>5. SumOn(Losses(q), Groups) = SumOn(Losses(p), Groups) - Losses(p)[g] + Losses(q)[g]
    <2>1. /\ IsFiniteSet(Groups)
          /\ \A h \in Groups : Losses(p)[h] \in Int /\ Losses(q)[h] \in Int
          /\ \A h \in Groups \ {g} : Losses(q)[h] = Losses(p)[h]
      BY <1>2, <1>3
    <2> QED
      BY <1>0, <2>1, Zenon
  <1> QED
    BY <1>2, <1>4, <1>5

\* All groups on one tier.
AllOn(t) == [g \in Groups |-> t]

\* That costs as often the one group as there are groups.
LEMMA AllOnOneTier ==
  ASSUME Computed, step # "read", NEW t \in TierIdx
  PROVE  /\ AllOn(t) \in [Groups -> TierIdx] /\ \A g \in Groups : AllOn(t)[g] = t
         /\ Len(grpHotness) \in Nat
         /\ Spent(AllOn(t)) = Len(grpHotness) * GroupCost(t)
  <1>1. AllOn(t) \in [Groups -> TierIdx] /\ \A g \in Groups : AllOn(t)[g] = t
    BY DEF AllOn
  <1>2. /\ IsFiniteSet(Groups) /\ Cardinality(Groups) = Len(grpHotness)
        /\ Len(grpHotness) \in Nat
    <2>1. PICK o \in Orders : Arranged(o)
      BY DEF Computed
    <2> QED
      BY <2>1, GroupHotness, GroupFacts DEF Computed
  <1>3. GroupCost(t) \in Int
    BY CostFacts
  <1>4. \A g \in Groups : Costs(AllOn(t))[g] = GroupCost(t)
    BY <1>1, PlacementSums
  <1>5. SumOn(Costs(AllOn(t)), Groups) = Cardinality(Groups) * GroupCost(t)
    BY <1>2, <1>3, <1>4, SumOnConstant
  <1> QED
    BY <1>1, <1>2, <1>5, PlacementSums

\* Cheaper and faster tiers for every group, for the whole placement.
LEMMA PlacementMono ==
  ASSUME Computed, step # "read",
         NEW p \in [Groups -> TierIdx], NEW q \in [Groups -> TierIdx]
  PROVE  /\ (\A g \in Groups : Product(p[g]) <= Product(q[g])) => Spent(p) <= Spent(q)
         /\ (\A g \in Groups : Latency(p[g]) <= Latency(q[g]))
              => Objective(p) <= Objective(q)
  <1>0. \A n \in Nat : n \in Int
    OBVIOUS
  <1>1. \A g \in Groups : p[g] \in TierIdx /\ q[g] \in TierIdx
    OBVIOUS
  <1>2. /\ IsFiniteSet(Groups)
        /\ \A g \in Groups : /\ Costs(p)[g] \in Int /\ Costs(q)[g] \in Int
                             /\ Losses(p)[g] \in Int /\ Losses(q)[g] \in Int
        /\ Spent(p) = SumOn(Costs(p), Groups) /\ Spent(q) = SumOn(Costs(q), Groups)
        /\ Objective(p) = SumOn(Losses(p), Groups)
        /\ Objective(q) = SumOn(Losses(q), Groups)
    BY <1>0, PlacementSums, Zenon
  <1>3. \A a, b : /\ \A g \in Groups : a[g] \in Int /\ b[g] \in Int /\ a[g] <= b[g]
                  => SumOn(a, Groups) <= SumOn(b, Groups)
    BY <1>2, SumOnMono
  <1>4. ASSUME \A g \in Groups : Product(p[g]) <= Product(q[g])
        PROVE  Spent(p) <= Spent(q)
    <2>1. \A g \in Groups : GroupCost(p[g]) <= GroupCost(q[g])
      BY <1>1, <1>4, CostFacts
    <2>2. \A g \in Groups : Costs(p)[g] <= Costs(q)[g]
      BY <2>1, PlacementSums, Zenon
    <2> QED
      BY <1>2, <1>3, <2>2, Zenon
  <1>5. ASSUME \A g \in Groups : Latency(p[g]) <= Latency(q[g])
        PROVE  Objective(p) <= Objective(q)
    <2>1. \A g \in Groups : grpHotness[g] \in Nat
      <3>1. PICK o \in Orders : Arranged(o)
        BY DEF Computed
      <3>2. \A g \in Groups : grpHotness[g] \in 1..IntWidth \div 2
        BY <3>1, GroupHotness
      <3> QED
        BY <3>2
    <2>2. \A g \in Groups : Latency(p[g]) \in Int /\ Latency(q[g]) \in Int
      BY <1>1, TableFacts
    <2>3. \A g \in Groups :
            grpHotness[g] * Latency(p[g]) <= grpHotness[g] * Latency(q[g])
      BY <1>5, <2>1, <2>2, ProductMono
    <2>4. \A g \in Groups : Losses(p)[g] <= Losses(q)[g]
      BY <2>3, PlacementSums, Zenon
    <2> QED
      BY <1>2, <1>3, <2>4, Zenon
  <1> QED
    BY <1>4, <1>5

\* The placement that is answered is one within the limit, and no other one
\* within it loses less.
LEMMA PlaceFacts ==
  ASSUME Computed, step \in {"packet", "answered"}
  PROVE  /\ place \in [Groups -> TierIdx]
         /\ Spent(place) <= 10 * limit
         /\ \A q \in [Groups -> TierIdx] :
              Spent(q) <= 10 * limit => Objective(place) <= Objective(q)
  BY DEF Computed, Optimal, Feasible, Spent

\* Each region of an answer is on the tier of its group.
LEMMA AnswerFacts ==
  ASSUME Computed, step = "answered", NEW o \in Orders, Arranged(o)
  PROVE  /\ dstTiers \in [Ids -> TierIdx]
         /\ \A r \in Ids : /\ GroupOf(At(o, r)) \in Groups
                           /\ dstTiers[r] = place[GroupOf(At(o, r))]
  <1>1. \A r \in Ids : At(o, r) \in Ids
    BY OrderFacts DEF Computed
  <1>2. \A i \in Ids : GroupOf(i) \in Groups
    BY GroupHotness
  <1>3. place \in [Groups -> TierIdx]
    BY PlaceFacts
  <1>4. dstTiers = [k \in Ids |-> place[GroupOf(At(o, k))]]
    BY DEF Arranged
  <1> QED
    BY <1>1, <1>2, <1>3, <1>4

(***************************************************************************)
(* What the server promises.                                               *)
(***************************************************************************)

\* The vectors fit each other: no entry of one indexes past the end of
\* another.
THEOREM TypeCorrect == Spec => []TypeOK
  <1>1. Computed => TypeOK
    <2> SUFFICES ASSUME Computed
                 PROVE  TypeOK
      OBVIOUS
    <2>1. limit \in Nat
      BY LimitFacts DEF Computed
    <2>2. ASSUME step # "read"
          PROVE  /\ \A i \in DOMAIN modRegions : modRegions[i].group \in Groups
                 /\ DOMAIN modRegions = Ids
                 /\ {modRegions[i].id : i \in Ids} = Ids
                 /\ \A g \in Groups : grpHotness[g] \in 1..IntWidth \div 2
      <3>1. PICK o \in Orders : Arranged(o)
        BY <2>2 DEF Computed
      <3>2. /\ DOMAIN modRegions = Ids
            /\ \A i \in Ids : /\ modRegions[i].id \in Ids
                              /\ modRegions[i].group = GroupOf(At(o, modRegions[i].id))
            /\ \A r \in Ids : \E i \in Ids : modRegions[i].id = r
        BY <2>2, <3>1, MemberFacts
      <3>3. /\ \A g \in Groups : grpHotness[g] \in 1..IntWidth \div 2
            /\ \A i \in Ids : GroupOf(i) \in Groups
        BY <2>2, <3>1, GroupHotness
      <3>4. \A r \in Ids : At(o, r) \in Ids
        BY <3>1, OrderFacts DEF Computed
      <3> QED
        BY <3>2, <3>3, <3>4
    <2>3. step = "answered" => dstTiers \in [Ids -> TierIdx]
      BY AnswerFacts DEF Computed
    <2> QED
      BY <2>1, <2>2, <2>3 DEF Computed, TypeOK
  <1> QED
    BY <1>1, ComputedInvariant, PTL

\* A region that is on a tier which another one beats in latency at no higher
\* price could have been moved there, within the limit.
THEOREM NoTierIsDominated == Spec => []NoDominatedTier
  <1>1. Computed => NoDominatedTier
    <2> SUFFICES ASSUME Computed, step = "answered", NEW r \in Ids, NEW t \in TierIdx,
                        Latency(t) < Latency(dstTiers[r]),
                        Product(t) <= Product(dstTiers[r])
                 PROVE  FALSE
      BY DEF NoDominatedTier
    <2>1. PICK o \in Orders : Arranged(o)
      BY DEF Computed
    <2> DEFINE g == GroupOf(At(o, r))
               q == [place EXCEPT ![g] = t]
    <2>2. g \in Groups /\ dstTiers[r] = place[g]
      BY <2>1, AnswerFacts
    <2>3. /\ place \in [Groups -> TierIdx] /\ Spent(place) <= 10 * limit
          /\ \A p \in [Groups -> TierIdx] :
               Spent(p) <= 10 * limit => Objective(place) <= Objective(p)
      BY PlaceFacts
    <2> HIDE DEF g
    <2>4. /\ q \in [Groups -> TierIdx]
          /\ Spent(q) = Spent(place) - GroupCost(place[g]) + GroupCost(t)
          /\ Objective(q) = Objective(place) - grpHotness[g] * Latency(place[g])
                                             + grpHotness[g] * Latency(t)
      <3>1. /\ q \in [Groups -> TierIdx] /\ q[g] = t
            /\ \A h \in Groups \ {g} : q[h] = place[h]
        BY <2>2, <2>3
      <3> HIDE DEF q
      <3> QED
        BY <2>2, <2>3, <3>1, MoveOneGroup
    <2>5. place[g] \in TierIdx
      BY <2>2, <2>3
    <2> HIDE DEF q
    <2>6. Spent(place) \in Int /\ Objective(place) \in Int
      BY <2>3, PlacementSums
    <2>7. Spent(q) <= 10 * limit
      <3>1. GroupCost(t) <= GroupCost(place[g])
        BY <2>2, <2>5, CostFacts
      <3>2. GroupCost(t) \in Int /\ GroupCost(place[g]) \in Int
        BY <2>5, CostFacts
      <3>3. limit \in Int
        BY LimitFacts DEF Computed
      <3> QED
        BY <2>3, <2>4, <2>6, <3>1, <3>2, <3>3
    <2>8. grpHotness[g] * Latency(t) < grpHotness[g] * Latency(place[g])
          /\ grpHotness[g] * Latency(t) \in Int
          /\ grpHotness[g] * Latency(place[g]) \in Int
      <3>1. grpHotness[g] \in Nat \ {0}
        <4>1. grpHotness[g] \in 1..IntWidth \div 2
          BY <2>1, <2>2, GroupHotness
        <4> QED
          BY <4>1
      <3>2. Latency(t) \in Int /\ Latency(place[g]) \in Int
        BY <2>5, TableFacts
      <3>3. Latency(t) + 1 <= Latency(place[g])
        BY <2>2, <3>2
      <3>4. grpHotness[g] * (Latency(t) + 1) <= grpHotness[g] * Latency(place[g])
        BY <3>1, <3>2, <3>3, ProductMono
      <3>5. grpHotness[g] * (Latency(t) + 1) = grpHotness[g] * Latency(t) + grpHotness[g]
            /\ grpHotness[g] * Latency(t) \in Int
            /\ grpHotness[g] * Latency(place[g]) \in Int
        BY <3>1, <3>2
      <3> QED
        BY <3>1, <3>4, <3>5
    <2>9. Objective(place) <= Objective(q)
      BY <2>3, <2>4, <2>7
    <2> QED
      BY <2>4, <2>6, <2>8, <2>9
  <1> QED
    BY <1>1, ComputedInvariant, PTL

\* With regions as long as the code has them, of 2 MB in groups of 10, nothing
\* is lost where the cost of a group is cut, so that the cheapest placement is
\* always within the limit and the request can be met.  (With a group of one
\* region of 1 MB the limit may be less than what the cheapest one costs.)
THEOREM RequestsCanBeMet ==
  ASSUME (RegionMB * GroupSize) % 2 = 0
  PROVE  Spec => []CanBeMet
  <1>1. Computed => CanBeMet
    <2> SUFFICES ASSUME Computed, step = "solve"
                 PROVE  limit >= MinTCO /\ Feasible # {}
      BY DEF CanBeMet
    <2>1. PICK o \in Orders : Arranged(o)
      BY DEF Computed
    <2>2. /\ limit = LimitOf /\ MinTCO \in Nat /\ LimitOf \in Nat /\ MinTCO <= LimitOf
      BY LimitFacts DEF Computed
    <2> DEFINE p == AllOn(Cheapest)
               N == Len(grpHotness)
    <2>3. /\ p \in [Groups -> TierIdx] /\ N \in Nat
          /\ Spent(p) = N * GroupCost(Cheapest)
      BY ExtremeTiers, AllOnOneTier
    <2> HIDE DEF p, N
    <2>4. GroupCost(Cheapest) = 10 * Cut(GroupCost(Cheapest))
      BY CheapestIsWhole
    <2>5. N * GroupCost(Cheapest) = 10 * MinTCO
      <3>1. Cut(GroupCost(Cheapest)) \in Nat
        BY CostFacts, ExtremeTiers
      <3>2. MinTCO = N * Cut(GroupCost(Cheapest))
        BY DEF MinTCO, N
      <3>3. \A c \in Nat : N * (10 * c) = 10 * (N * c)
        BY <2>3
      <3> QED
        BY <2>4, <3>1, <3>2, <3>3
    <2>6. Spent(p) <= 10 * limit
      BY <2>2, <2>3, <2>5
    <2>7. p \in Feasible
      BY <2>3, <2>6 DEF Feasible, Spent
    <2> QED
      BY <2>2, <2>7
  <1> QED
    BY <1>1, ComputedInvariant, PTL

\* Exchanging the tiers of two groups, of which the hotter one is on the slower
\* tier, costs the same and loses less.
LEMMA HotterGroupNotSlower ==
  ASSUME Computed, step = "answered", NEW a \in Groups, NEW b \in Groups,
         grpHotness[a] > grpHotness[b]
  PROVE  Latency(place[a]) <= Latency(place[b])
  <1> DEFINE p == [place EXCEPT ![a] = place[b]]
             q == [p EXCEPT ![b] = place[a]]
             ha == grpHotness[a]
             hb == grpHotness[b]
             la == Latency(place[a])
             lb == Latency(place[b])
  <1>1. /\ place \in [Groups -> TierIdx] /\ Spent(place) <= 10 * limit
        /\ \A r \in [Groups -> TierIdx] :
             Spent(r) <= 10 * limit => Objective(place) <= Objective(r)
    BY PlaceFacts
  <1>2. place[a] \in TierIdx /\ place[b] \in TierIdx
    BY <1>1
  <1>3. ha \in Nat /\ hb \in Nat
    <2>1. PICK o \in Orders : Arranged(o)
      BY DEF Computed
    <2>2. ha \in 1..IntWidth \div 2 /\ hb \in 1..IntWidth \div 2
      BY <2>1, GroupHotness
    <2> QED
      BY <2>2
  <1>4. a # b
    BY <1>3
  <1>5. la \in Nat /\ lb \in Nat
    BY <1>2, TableFacts
  <1> HIDE DEF p, q, ha, hb, la, lb
  <1>6. /\ p \in [Groups -> TierIdx] /\ p[a] = place[b]
        /\ \A h \in Groups \ {a} : p[h] = place[h]
        /\ q \in [Groups -> TierIdx] /\ q[b] = place[a]
        /\ \A h \in Groups \ {b} : q[h] = p[h]
    BY <1>1, <1>2 DEF p, q
  <1>7. /\ Spent(p) = Spent(place) - GroupCost(place[a]) + GroupCost(place[b])
        /\ Objective(p) = Objective(place) - ha * la + ha * lb
    <2>1. /\ Spent(p) = Spent(place) - GroupCost(place[a]) + GroupCost(p[a])
          /\ Objective(p) = Objective(place) - grpHotness[a] * Latency(place[a])
                                             + grpHotness[a] * Latency(p[a])
      BY <1>1, <1>6, MoveOneGroup
    <2> QED
      BY <1>6, <2>1, Zenon DEF ha, la, lb
  <1>8. /\ Spent(q) = Spent(p) - GroupCost(place[b]) + GroupCost(place[a])
        /\ Objective(q) = Objective(p) - hb * lb + hb * la
    <2>1. /\ Spent(q) = Spent(p) - GroupCost(p[b]) + GroupCost(q[b])
          /\ Objective(q) = Objective(p) - grpHotness[b] * Latency(p[b])
                                         + grpHotness[b] * Latency(q[b])
      BY <1>6, MoveOneGroup
    <2>2. p[b] = place[b]
      BY <1>4, <1>6
    <2> QED
      BY <1>6, <2>1, <2>2, Zenon DEF hb, la, lb
  <1>9. Spent(place) \in Int /\ Objective(place) \in Int
    BY <1>1, PlacementSums
  <1>10. GroupCost(place[a]) \in Int /\ GroupCost(place[b]) \in Int
    BY <1>2, CostFacts
  <1>11. Spent(q) = Spent(place)
    BY <1>7, <1>8, <1>9, <1>10
  <1>12. Objective(place) <= Objective(q)
    BY <1>1, <1>6, <1>11
  <1>13. ha * la + hb * lb <= ha * lb + hb * la
    <2>1. ha * la \in Int /\ ha * lb \in Int /\ hb * la \in Int /\ hb * lb \in Int
      BY <1>3, <1>5
    <2> QED
      BY <1>7, <1>8, <1>9, <1>12, <2>1
  <1>14. (ha - hb) * la <= (ha - hb) * lb
    <2>1. (ha - hb) * la = ha * la - hb * la /\ (ha - hb) * lb = ha * lb - hb * lb
      BY <1>3, <1>5
    <2>2. ha * la \in Int /\ ha * lb \in Int /\ hb * la \in Int /\ hb * lb \in Int
      BY <1>3, <1>5
    <2> QED
      BY <1>13, <2>1, <2>2
  <1>15. ha - hb \in Nat \ {0}
    BY <1>3 DEF ha, hb
  <1>16. ~ (lb + 1 <= la)
    <2> SUFFICES ASSUME lb + 1 <= la
                 PROVE  FALSE
      OBVIOUS
    <2> DEFINE d == ha - hb
    <2>1. d \in Nat \ {0} /\ d * la <= d * lb
      BY <1>14, <1>15
    <2> HIDE DEF d
    <2>2. d * (lb + 1) <= d * la /\ d * la \in Int
      BY <1>5, <2>1, ProductMono
    <2>3. d * (lb + 1) = d * lb + d /\ d * lb \in Int
      BY <1>5, <2>1
    <2> QED
      BY <2>1, <2>2, <2>3
  <1> QED
    BY <1>5, <1>16 DEF la, lb

\* Sorting by hotness, cutting the order into groups, solving for the groups
\* and sorting back leave no region on a slower tier than one whose whole group
\* is colder, whatever ties the sort broke.
THEOREM HotterIsNotSlower == Spec => []HotterNotSlower
  <1>1. Computed => HotterNotSlower
    <2> SUFFICES ASSUME Computed, step = "answered", NEW r \in Ids, NEW s \in Ids,
                        \A c \in Companions(s) : Heat(r) > Heat(c)
                 PROVE  Latency(dstTiers[r]) <= Latency(dstTiers[s])
      BY DEF HotterNotSlower
    <2>1. PICK o \in Orders : Arranged(o)
      BY DEF Computed
    <2> DEFINE a == GroupOf(At(o, r))
               b == GroupOf(At(o, s))
    <2>2. /\ a \in Groups /\ b \in Groups
          /\ dstTiers[r] = place[a] /\ dstTiers[s] = place[b]
      BY <2>1, AnswerFacts
    <2>3. \A k \in Ids : At(o, k) \in Ids /\ o[At(o, k)] = k
      BY OrderFacts DEF Computed
    <2>4. \A i \in Ids : o[i] \in Ids /\ At(o, o[i]) = i
      BY OrderFacts DEF Computed
    <2>5. \A c \in Ids : GroupOf(At(o, c)) = b => c \in Companions(s)
      <3>1. /\ \A i \in Ids : modRegions[i].group = GroupOf(At(o, modRegions[i].id))
            /\ \A k \in Ids : \E i \in Ids : modRegions[i].id = k
        BY <2>1, MemberFacts
      <3> QED
        BY <3>1 DEF Companions
    <2>6. \A k \in Ids : ToInt(hotness[k]) \in Int
      <3>1. \A k \in Ids : hotness[k] \in Nat
        BY RequestFacts DEF Computed
      <3> QED
        BY <3>1, ToIntRange
    <2>7. \A k \in Ids : /\ Heat(k) \in Int /\ Heat(k) >= 1 /\ Heat(k) >= ToInt(hotness[k])
                         /\ Heat(k) > 1 => Heat(k) = ToInt(hotness[k])
      BY <2>6 DEF Heat
    <2>8. /\ grpHotness[a] \in Int /\ grpHotness[b] \in Int
          /\ \A i \in Ids : ToInt(hotness[o[i]]) <= grpHotness[GroupOf(i)]
          /\ \/ grpHotness[b] = 1
             \/ \E i \in Ids : GroupOf(i) = b /\ ToInt(hotness[o[i]]) = grpHotness[b]
      <3>1. /\ \A g \in Groups : grpHotness[g] \in 1..IntWidth \div 2
            /\ \A i \in Ids : ToInt(hotness[o[i]]) <= grpHotness[GroupOf(i)]
            /\ \A g \in Groups :
                 \/ grpHotness[g] = 1
                 \/ \E i \in Ids : GroupOf(i) = g /\ ToInt(hotness[o[i]]) = grpHotness[g]
        BY <2>1, GroupHotness
      <3> QED
        BY <2>2, <3>1
    <2>9. Heat(r) > 1
      <3>1. Heat(r) > Heat(s)
        BY <2>5
      <3> QED
        BY <2>7, <3>1
    <2>10. Heat(r) <= grpHotness[a]
      <3>1. Heat(r) = ToInt(hotness[o[At(o, r)]]) /\ At(o, r) \in Ids
        BY <2>3, <2>7, <2>9
      <3> QED
        BY <2>8, <3>1
    <2>11. grpHotness[b] < Heat(r)
      <3>1. CASE grpHotness[b] = 1
        BY <2>9, <3>1
      <3>2. ASSUME NEW i \in Ids, GroupOf(i) = b, ToInt(hotness[o[i]]) = grpHotness[b]
            PROVE  grpHotness[b] < Heat(r)
        <4>1. o[i] \in Ids /\ o[i] \in Companions(s)
          BY <2>4, <2>5, <3>2
        <4>2. Heat(r) > Heat(o[i]) /\ Heat(o[i]) >= grpHotness[b]
          BY <2>7, <3>2, <4>1
        <4> QED
          BY <2>7, <2>8, <4>1, <4>2
      <3> QED
        BY <2>8, <3>1, <3>2
    <2>12. grpHotness[a] > grpHotness[b]
      BY <2>7, <2>8, <2>10, <2>11
    <2> HIDE DEF a, b
    <2> QED
      BY <2>2, <2>12, HotterGroupNotSlower
  <1> QED
    BY <1>1, ComputedInvariant, PTL

\* What the packet says was spent, and lost, is between the bounds it gives.
\* The upper bound of the loss leaves out the groups above the cap.
THEOREM PacketIsInBounds == Spec => []PacketInBounds
  <1>1. Computed => PacketInBounds
    <2> SUFFICES ASSUME Computed, step = "answered"
                 PROVE  /\ packet.minTCO <= packet.other /\ packet.other <= packet.limit
                        /\ packet.limit <= packet.maxTCO
                        /\ packet.minPerf <= packet.final
                        /\ (\A g \in Groups : grpHotness[g] < HotCap)
                             => packet.final <= packet.maxPerf
      BY DEF PacketInBounds
    <2>1. /\ packet.minTCO = MinTCO /\ packet.maxTCO = MaxTCO
          /\ packet.other = Cut(Spent(place)) /\ packet.limit = limit
          /\ packet.minPerf = MinPerfLoss /\ packet.final = Objective(place)
          /\ packet.maxPerf = MaxPerfLoss
      BY DEF Computed, PacketOf, Spent
    <2>2. place \in [Groups -> TierIdx] /\ Spent(place) <= 10 * limit
      BY PlaceFacts
    <2>3. Spent(place) \in Int
      BY <2>2, PlacementSums
    <2>4. /\ limit = LimitOf /\ limit \in Nat /\ MinTCO \in Nat /\ MaxTCO \in Nat
          /\ limit <= MaxTCO
      BY LimitFacts DEF Computed
    <2>5. MinTCO <= Cut(Spent(place))
      <3> DEFINE N == Len(grpHotness)
                 c == GroupCost(Cheapest)
      <3>1. /\ AllOn(Cheapest) \in [Groups -> TierIdx]
            /\ \A g \in Groups : AllOn(Cheapest)[g] = Cheapest
            /\ N \in Nat /\ Spent(AllOn(Cheapest)) = N * c
        BY ExtremeTiers, AllOnOneTier
      <3>2. Spent(AllOn(Cheapest)) <= Spent(place)
        <4>1. \A g \in Groups : Product(AllOn(Cheapest)[g]) <= Product(place[g])
          BY <2>2, <3>1, ExtremeTiers
        <4> QED
          BY <2>2, <3>1, <4>1, PlacementMono
      <3>3. c \in Int /\ Cut(c) \in Nat /\ 10 * Cut(c) <= c
        BY CostFacts, ExtremeTiers, CutFacts
      <3>4. MinTCO = N * Cut(c)
        BY DEF MinTCO
      <3> HIDE DEF N, c
      <3>5. N * (10 * Cut(c)) <= N * c /\ N * c \in Int
        BY <3>1, <3>3, ProductMono
      <3>6. N * (10 * Cut(c)) = 10 * (N * Cut(c)) /\ N * Cut(c) \in Int
        BY <3>1, <3>3
      <3>7. 10 * MinTCO <= Spent(place)
        BY <2>3, <3>1, <3>2, <3>4, <3>5, <3>6
      <3> QED
        BY <2>3, <2>4, <3>7, QuotientAtLeast DEF Cut
    <2>6. Cut(Spent(place)) <= limit
      BY <2>2, <2>3, <2>4 DEF Cut
    <2>7. MinPerfLoss <= Objective(place)
      <3>1. /\ AllOn(Fastest) \in [Groups -> TierIdx]
            /\ \A g \in Groups : AllOn(Fastest)[g] = Fastest
        BY ExtremeTiers, AllOnOneTier
      <3>2. \A g \in Groups : Latency(AllOn(Fastest)[g]) <= Latency(place[g])
        BY <2>2, <3>1, ExtremeTiers
      <3>3. MinPerfLoss = Objective(AllOn(Fastest))
        BY <3>1 DEF MinPerfLoss, Objective
      <3> QED
        BY <2>2, <3>1, <3>2, <3>3, PlacementMono
    <2>8. ASSUME \A g \in Groups : grpHotness[g] < HotCap
          PROVE  Objective(place) <= MaxPerfLoss
      <3>1. /\ AllOn(Slowest) \in [Groups -> TierIdx]
            /\ \A g \in Groups : AllOn(Slowest)[g] = Slowest
        BY ExtremeTiers, AllOnOneTier
      <3>2. \A g \in Groups : Latency(place[g]) <= Latency(AllOn(Slowest)[g])
        BY <2>2, <3>1, ExtremeTiers
      <3>3. {g \in Groups : grpHotness[g] < HotCap} = Groups
        BY <2>8
      <3>4. MaxPerfLoss = Objective(AllOn(Slowest))
        BY <3>1, <3>3 DEF MaxPerfLoss, Objective
      <3> QED
        BY <2>2, <3>1, <3>2, <3>4, PlacementMono
    <2> QED
      BY <2>1, <2>4, <2>5, <2>6, <2>7, <2>8
  <1> QED
    BY <1>1, ComputedInvariant, PTL

\* A group has no more regions than its size.
LEMMA GroupIsSmall ==
  ASSUME Computed, NEW o \in Orders, Arranged(o), NEW g \in Groups, step # "read"
  PROVE  /\ IsFiniteSet({r \in Ids : GroupOf(At(o, r)) = g})
         /\ Cardinality({r \in Ids : GroupOf(At(o, r)) = g}) <= GroupSize
  <1> DEFINE members == {r \in Ids : GroupOf(At(o, r)) = g}
             span == (g - 1) * GroupSize + 1 .. (g - 1) * GroupSize + GroupSize
             f == [r \in members |-> At(o, r)]
  <1>1. GroupSize \in Nat \ {0} /\ g \in Int
    BY PlacementAssumption DEF Groups
  <1>2. (g - 1) * GroupSize \in Int
    BY <1>1
  <1>3. IsFiniteSet(span) /\ Cardinality(span) = GroupSize
    <2> DEFINE d == (g - 1) * GroupSize
    <2> HIDE DEF d
    <2>1. d + 1 \in Int /\ d + GroupSize \in Int
      BY <1>1, <1>2 DEF d
    <2>2. IsFiniteSet(d + 1 .. d + GroupSize)
          /\ Cardinality(d + 1 .. d + GroupSize)
               = IF d + 1 > d + GroupSize THEN 0 ELSE (d + GroupSize) - (d + 1) + 1
      BY <2>1, FS_Interval
    <2>3. ~ (d + 1 > d + GroupSize) /\ (d + GroupSize) - (d + 1) + 1 = GroupSize
      BY <1>1, <1>2 DEF d
    <2> QED
      BY <2>2, <2>3 DEF d
  <1>4. \A k \in Ids : At(o, k) \in Ids /\ o[At(o, k)] = k
    BY OrderFacts DEF Computed
  <1>5. ASSUME NEW i \in Ids, GroupOf(i) = g
        PROVE  i \in span
    <2> DEFINE d == (i - 1) \div GroupSize
               e == (i - 1) % GroupSize
    <2>1. i \in Int /\ i - 1 \in Int
      BY DEF Ids
    <2>2. d \in Int /\ e \in 0..GroupSize - 1 /\ i - 1 = GroupSize * d + e
      BY <1>1, <2>1, DivMod
    <2>3. d = g - 1
      BY <1>1, <1>5, <2>2 DEF GroupOf
    <2> HIDE DEF d, e
    <2>4. i - 1 = (g - 1) * GroupSize + e
      <3>1. GroupSize * (g - 1) = (g - 1) * GroupSize
        BY <1>1
      <3> QED
        BY <2>2, <2>3, <3>1
    <2> QED
      BY <1>1, <1>2, <2>1, <2>2, <2>4
  <1> HIDE DEF span
  <1>6. f \in Injection(members, span)
    BY <1>4, <1>5 DEF Injection, IsInjective
  <1> HIDE DEF f, members
  <1>7. IsFiniteSet(members) /\ Cardinality(members) <= Cardinality(span)
    BY <1>3, <1>6, FS_Injection
  <1> QED
    BY <1>3, <1>7 DEF members

\* What the regions of a request really cost is within the limit: the last
\* group is counted as a full one, and no region is in two groups.
THEOREM LimitIsKept == Spec => []LimitKept
  <1>1. Computed => LimitKept
    <2> SUFFICES ASSUME Computed, step = "answered"
                 PROVE  LET real == Sum([r \in Ids |-> RegionMB * Product(dstTiers[r])])
                        IN  real <= 10 * limit /\ Cut(real) <= packet.other
      BY DEF LimitKept
    <2>1. PICK o \in Orders : Arranged(o)
      BY DEF Computed
    <2> DEFINE cost == [r \in Ids |-> RegionMB * Product(dstTiers[r])]
               class == [r \in Ids |-> GroupOf(At(o, r))]
    <2>2. place \in [Groups -> TierIdx] /\ Spent(place) <= 10 * limit
      BY PlaceFacts
    <2>3. /\ class \in [Ids -> Groups] /\ IsFiniteSet(Ids)
          /\ \A r \in Ids : dstTiers[r] = place[class[r]]
      BY <2>1, AnswerFacts, RequestFacts DEF Computed
    <2>4. /\ IsFiniteSet(Groups) /\ \A g \in Groups : Costs(place)[g] \in Int
          /\ \A g \in Groups : Costs(place)[g] = GroupCost(place[g])
          /\ Spent(place) = SumOn(Costs(place), Groups) /\ Spent(place) \in Int
      <3>1. \A n \in Nat : n \in Int
        OBVIOUS
      <3> QED
        BY <2>2, <3>1, PlacementSums
    <2>5. RegionMB \in Nat /\ GroupSize \in Nat
      BY PlacementAssumption
    <2>6. \A t \in TierIdx : Product(t) \in Nat /\ RegionMB * Product(t) \in Nat
                             /\ GroupCost(t) = GroupSize * (RegionMB * Product(t))
      <3> SUFFICES ASSUME NEW t \in TierIdx
                   PROVE  Product(t) \in Nat /\ RegionMB * Product(t) \in Nat
                          /\ GroupCost(t) = GroupSize * (RegionMB * Product(t))
        OBVIOUS
      <3>1. Product(t) \in Nat /\ GroupCost(t) = (RegionMB * GroupSize) * Product(t)
        BY TableFacts
      <3>2. \A n \in Nat : (RegionMB * GroupSize) * n = GroupSize * (RegionMB * n)
                           /\ RegionMB * n \in Nat
        BY <2>5
      <3> QED
        BY <3>1, <3>2
    <2>7. \A r \in Ids : cost[r] = RegionMB * Product(place[class[r]]) /\ cost[r] \in Int
      <3>1. \A r \in Ids : class[r] \in Groups /\ cost[r] = RegionMB * Product(dstTiers[r])
        BY <2>3
      <3> HIDE DEF cost, class
      <3>2. \A r \in Ids : place[class[r]] \in TierIdx
        BY <2>2, <3>1
      <3> QED
        BY <2>3, <2>6, <3>1, <3>2
    <2>8. ASSUME NEW g \in Groups
          PROVE  SumOn(cost, {r \in Ids : class[r] = g}) <= Costs(place)[g]
      <3> DEFINE C == {r \in Ids : class[r] = g}
                 c == RegionMB * Product(place[g])
      <3>1. IsFiniteSet(C) /\ Cardinality(C) <= GroupSize
        <4>1. C = {r \in Ids : GroupOf(At(o, r)) = g}
          OBVIOUS
        <4> QED
          BY <2>1, <4>1, GroupIsSmall
      <3>2. place[g] \in TierIdx
        BY <2>2
      <3>3. c \in Nat /\ Costs(place)[g] = GroupSize * c
        BY <2>4, <2>6, <3>2
      <3>4. \A r \in C : cost[r] = c
        BY <2>7
      <3>5. Cardinality(C) \in Nat
        BY <3>1, FS_CardinalityType
      <3> HIDE DEF C, c
      <3>6. SumOn(cost, C) = Cardinality(C) * c
        BY <3>1, <3>3, <3>4, SumOnConstant
      <3>7. c * Cardinality(C) <= c * GroupSize
        BY <2>5, <3>1, <3>3, <3>5, ProductMono
      <3>8. c * Cardinality(C) = Cardinality(C) * c /\ c * GroupSize = GroupSize * c
        BY <2>5, <3>3, <3>5
      <3> QED
        BY <3>3, <3>6, <3>7, <3>8, Zenon DEF C
    <2>9. Sum(cost) = SumOn(cost, Ids)
      BY SumOfFunction DEF Sum
    <2> DEFINE w == Costs(place)
    <2> HIDE DEF cost, class
    <2>10. SumOn(cost, Ids) <= Spent(place)
      <3>1. /\ \A r \in Ids : cost[r] \in Int
            /\ \A g \in Groups : w[g] \in Int
            /\ \A g \in Groups : SumOn(cost, {r \in Ids : class[r] = g}) <= w[g]
        BY <2>4, <2>7, <2>8
      <3> HIDE DEF w
      <3>2. SumOn(cost, Ids) <= SumOn(w, Groups)
        BY <2>3, <2>4, <3>1, SumByClasses
      <3> QED
        BY <2>4, <3>2 DEF w
    <2>11. SumOn(cost, Ids) \in Int
      BY <2>3, <2>7, SumOnInt
    <2>12. limit \in Int
      BY LimitFacts DEF Computed
    <2>13. Sum(cost) <= 10 * limit /\ Cut(Sum(cost)) <= Cut(Spent(place))
      BY <2>2, <2>4, <2>9, <2>10, <2>11, <2>12, CutFacts
    <2>14. packet.other = Cut(Spent(place))
      BY DEF Computed, PacketOf, Spent
    <2> QED
      BY <2>13, <2>14 DEF cost
  <1> QED
    BY <1>1, ComputedInvariant, PTL

=============================================================================
