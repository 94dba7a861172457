------------------------ MODULE ProfileWindow_proofs ------------------------
(***************************************************************************)
(* Proofs about ProfileWindow, for any address spaces, batches and size of *)
(* region, any number of windows, and convolve.py failing or not.          *)
(***************************************************************************)
EXTENDS ProfileWindow, RegionSpace_proofs, TLAPS

(***************************************************************************)
(* The vector of regions is that of the space the daemon believes in.      *)
(***************************************************************************)

DomInv ==
  /\ space \in Spaces
  /\ step = "init" => Dom = {}
  /\ step \notin {"init", "exited"} => Dom = Filled(space.lo, space.hi)

\* What main relies on of a space.
LEMMA SpaceType ==
  ASSUME NEW s \in Spaces
  PROVE  s.lo \in Nat /\ s.hi \in Nat /\ s.lo <= s.hi
  BY WindowAssumption

\* A new vector is that of the new space, and all its regions are in the
\* fast node with nothing recommended.
LEMMA RefillCuts ==
  ASSUME NEW new, Refill(new)
  PROVE  /\ space' = new
         /\ DOMAIN regions' = Filled(new.lo, new.hi)
         /\ \A j \in DOMAIN regions' : /\ regions'[j].curr = FAST_NODE
                                       /\ regions'[j].dst = NoTier
                                       /\ coldFor'[j] = 0
  BY DEF Refill

\* The vector is that of the space in every state of a running daemon.
LEMMA DomInvariant == Spec => []DomInv
  <1>1. Init => DomInv
    BY DEF Init, DomInv, Dom
  <1>2. ASSUME DomInv, [Next]_vars PROVE DomInv'
    <2>1. CASE RangeFails
      BY <1>2, <2>1 DEF RangeFails, Exit, DomInv, Dom
    <2>2. CASE InitRegions
      <3>1. PICK s \in Spaces :
              Refill(IF (s.hi - s.lo) \div MegaByte = 0 THEN space ELSE s)
        BY <2>2 DEF InitRegions
      <3>2. (IF (s.hi - s.lo) \div MegaByte = 0 THEN space ELSE s) \in Spaces
        BY <1>2 DEF DomInv
      <3>3. PICK new \in Spaces : Refill(new)
        BY <3>1, <3>2
      <3>4. space' = new /\ DOMAIN regions' = Filled(new.lo, new.hi)
        BY <3>3, RefillCuts
      <3>5. step' = "fix"
        BY <2>2 DEF InitRegions
      <3> QED
        BY <3>4, <3>5 DEF DomInv, Dom
    <2>3. CASE FixRegions
      <3>1. step = "fix" /\ step' = "assign"
        BY <2>3 DEF FixRegions
      <3>2. PICK s \in Spaces : UNCHANGED <<space, regions>> \/ Refill(s)
        BY <2>3 DEF FixRegions
      <3>3. CASE UNCHANGED <<space, regions>>
        BY <1>2, <3>1, <3>3 DEF DomInv, Dom
      <3>4. CASE Refill(s)
        <4>1. space' = s /\ DOMAIN regions' = Filled(s.lo, s.hi)
          BY <3>4, RefillCuts
        <4> QED
          BY <3>1, <4>1 DEF DomInv, Dom
      <3> QED
        BY <3>2, <3>3, <3>4
    <2>4. CASE AssignNothing
      BY <1>2, <2>4 DEF AssignNothing, DomInv, Dom
    <2>5. CASE AssignFails
      BY <1>2, <2>5 DEF AssignFails, Exit, DomInv, Dom
    <2>6. CASE AssignEvents
      <3>1. step = "assign" /\ step' = "map" /\ space' = space
        BY <2>6 DEF AssignEvents
      <3>2. regions' = [i \in Dom |-> [regions[i] EXCEPT !.hotness = Counts[i]]]
        BY <2>6 DEF AssignEvents
      <3>3. DOMAIN regions' = Dom
        BY <3>2
      <3> QED
        BY <1>2, <3>1, <3>3 DEF DomInv, Dom
    <2>7. CASE AssignAborts
      BY <1>2, <2>7 DEF AssignAborts, DomInv, Dom
    <2>8. CASE MapFails
      BY <1>2, <2>8 DEF MapFails, Exit, DomInv, Dom
    <2>9. CASE Map
      <3>1. step = "map" /\ step' = "migrate" /\ space' = space
        BY <2>9 DEF Map
      <3>2. DOMAIN regions' = Dom
        BY <2>9 DEF Map, MapHemem, MapWaterfall, Recommend
      <3> QED
        BY <1>2, <3>1, <3>2 DEF DomInv, Dom
    <2>10. CASE MapShutdown
      BY <1>2, <2>10 DEF MapShutdown, DomInv, Dom
    <2>11. CASE Migrate
      <3>1. step = "migrate" /\ step' \in {"fix", "exited"} /\ space' = space
        BY <2>11 DEF Migrate
      <3>2. DOMAIN regions' = Dom
        BY <2>11 DEF Migrate
      <3> QED
        BY <1>2, <3>1, <3>2 DEF DomInv, Dom
    <2>12. CASE UNCHANGED vars
      BY <1>2, <2>12 DEF DomInv, Dom, vars
    <2>13. CASE Finished
      BY <2>12, <2>13 DEF Finished
    <2> QED
      BY <1>2, <2>1, <2>2, <2>3, <2>4, <2>5, <2>6, <2>7, <2>8, <2>9, <2>10,
         <2>11, <2>12, <2>13 DEF Next
  <1> QED
    BY <1>1, <1>2, PTL DEF Spec

\* Every address of the space lies in exactly one region, for any spaces and
\* any size of region (fill_regions).
THEOREM RegionsTile == Spec => []Tiling
  <1>1. DomInv => Tiling
    <2>1. SUFFICES ASSUME DomInv, step \notin {"init", "exited"},
                          NEW a \in space.lo..space.hi - 1
                   PROVE  Cardinality({i \in Dom :
                            a \in Start(i)..Start(i) + RegionSize - 1}) = 1
      BY DEF Tiling
    <2>2. space.lo \in Nat /\ space.hi \in Nat
      BY <2>1, SpaceType DEF DomInv
    <2>3. Dom = Filled(space.lo, space.hi)
      BY <2>1 DEF DomInv
    <2>4. {i \in Dom : a \in Start(i)..Start(i) + RegionSize - 1}
            = {IndexOf(space.lo, a)}
      BY <2>2, <2>3, OneRegion DEF Start
    <2>5. \A x : Cardinality({x}) = 1
      BY FS_Singleton
    <2>6. Cardinality({IndexOf(space.lo, a)}) = 1
      BY <2>5
    <2> QED
      BY <2>4, <2>6, Zenon
  <1> QED
    BY <1>1, DomInvariant, PTL

\* The index of an access lies in the vector, but for an access exactly at
\* the end of a space of whole regions (assign_events_to_regions).
THEOREM IndexInBounds == Spec => []AssignInBounds
  <1>1. DomInv => AssignInBounds
    <2>1. SUFFICES ASSUME DomInv, step = "assign",
                          NEW k \in Beyond(Entries, space.lo, space.hi, Dom)
                   PROVE  /\ Entries[k].addr = space.hi
                          /\ (space.hi - space.lo) % RegionSize = 0
      BY DEF AssignInBounds
    <2> DEFINE lo == space.lo
               hi == space.hi
               a == Entries[k].addr
               r == (a - lo) % RegionSize
    <2>2. lo \in Nat /\ hi \in Nat /\ lo <= hi /\ Dom = Filled(lo, hi)
      BY <2>1, SpaceType DEF DomInv
    <2>3. a \in lo..hi /\ IndexOf(lo, a) \notin Filled(lo, hi)
      BY <2>2 DEF Beyond
    <2> HIDE DEF lo, hi, a
    <2>4. a \in Nat /\ lo <= a /\ a <= hi
      BY <2>2, <2>3
    <2>5. /\ IndexOf(lo, a) \in 0..a - lo
          /\ RegionStart(lo, IndexOf(lo, a)) = a - r
          /\ r \in 0..RegionSize - 1
      BY <2>2, <2>4, IndexContains
    <2> HIDE DEF r
    <2>6. IndexOf(lo, a) \in 0..hi - lo
      BY <2>2, <2>4, <2>5
    <2>7. ~(RegionStart(lo, IndexOf(lo, a)) < hi)
      BY <2>2, <2>3, <2>6, FilledStarts
    <2>8. r \in Nat
      BY <2>5, RegionSizeAssumption
    <2>9. a = hi /\ r = 0
      BY <2>2, <2>4, <2>5, <2>7, <2>8
    <2> QED
      BY <2>9 DEF lo, hi, a, r
  <1> QED
    BY <1>1, DomInvariant, PTL

(***************************************************************************)
(* Hotness and the range it was counted for.                               *)
(***************************************************************************)

\* A region takes over hotness only from one that starts where it starts.
LEMMA InheritsSameStart ==
  ASSUME NEW old \in Int, NEW new \in Int, Inherits(old, new)
  PROVE  old = new
  BY RegionSizeAssumption DEF Inherits

\* What a new vector takes over from the old one.
LEMMA RefillKeepsRanges ==
  ASSUME NEW new, new.lo \in Int, space.lo \in Int, Dom \subseteq Int,
         Filled(new.lo, new.hi) \subseteq Int, Refill(new),
         NEW j \in DOMAIN regions', regions'[j].hotness # 0
  PROVE  \E i \in Dom : /\ Start(i) = RegionStart(new.lo, j)
                        /\ regions[i].hotness = regions'[j].hotness
  <1> DEFINE dom == Filled(new.lo, new.hi)
             to(i) == {m \in dom : /\ Inherits(Start(i), RegionStart(new.lo, m))
                                   /\ \A k \in dom : k < m =>
                                        ~Inherits(Start(i), RegionStart(new.lo, k))}
             from(kept, m) == {i \in kept : m \in to(i)}
             heir(kept, m) == CHOOSE i \in from(kept, m) :
                                \A k \in from(kept, m) : k <= i
  <1>1. PICK kept \in SUBSET {i \in Dom : regions[i].hotness > 0} :
          regions' = [m \in dom |->
            [curr |-> FAST_NODE, dst |-> NoTier, hotness |->
               IF from(kept, m) = {} THEN 0
               ELSE regions[heir(kept, m)].hotness]]
    BY DEF Refill
  <1>2. j \in dom /\ j \in Int /\ RegionStart(new.lo, j) \in Int
    BY <1>1, StartIsInt
  <1>3. regions'[j].hotness = IF from(kept, j) = {} THEN 0
                              ELSE regions[heir(kept, j)].hotness
    BY <1>1, <1>2
  <1>4. from(kept, j) # {}
    BY <1>3
  <1>5. ASSUME NEW i \in from(kept, j)
        PROVE  /\ i \in Dom /\ i \in Int
               /\ Start(i) = RegionStart(new.lo, j)
    <2>1. i \in Dom /\ i \in Int /\ Inherits(Start(i), RegionStart(new.lo, j))
      OBVIOUS
    <2>2. Start(i) \in Int
      BY <2>1, StartIsInt DEF Start
    <2> QED
      BY <1>2, <2>1, <2>2, InheritsSameStart
  <1> HIDE DEF from
  <1>6. PICK i \in from(kept, j) : TRUE
    BY <1>4
  <1>7. ASSUME NEW k \in from(kept, j) PROVE k = i
    <2>1. i \in Int /\ k \in Int /\ Start(i) = Start(k)
      BY <1>5, <1>6
    <2> QED
      BY <2>1, SameStart DEF Start
  <1>8. \A k \in from(kept, j) : k <= i
    BY <1>5, <1>7
  <1>9. heir(kept, j) \in from(kept, j)
    BY <1>6, <1>8
  <1> HIDE DEF heir
  <1> QED
    BY <1>3, <1>4, <1>5, <1>9

\* Hotness stays with the addresses it was counted for when the vector is
\* made anew, whichever regions the freed memory still shows (fill_regions).
THEOREM HotnessStays == Spec => HotnessMovesWithItsRange
  <1> DEFINE Stays ==
        space' # space => \A j \in DOMAIN regions' : regions'[j].hotness # 0 =>
          \E i \in Dom : /\ Start(i) = RegionStart(space'.lo, j)
                         /\ regions[i].hotness = regions'[j].hotness
  <1>1. ASSUME DomInv, [Next]_vars PROVE [Stays]_vars
    <2>1. ASSUME NEW new \in Spaces, Refill(new), step \in {"init", "fix"}
          PROVE  Stays
      <3>1. space' = new
        BY <2>1, RefillCuts
      <3>2. /\ new.lo \in Nat /\ new.hi \in Nat
            /\ space.lo \in Nat /\ space.hi \in Nat
        BY <1>1, <2>1, SpaceType DEF DomInv
      <3>3. Dom = {} \/ Dom = Filled(space.lo, space.hi)
        BY <1>1, <2>1 DEF DomInv
      <3>4. Dom \subseteq Int /\ Filled(new.lo, new.hi) \subseteq Int
        BY <3>2, <3>3, FilledStarts
      <3>5. new.lo \in Int /\ space.lo \in Int
        BY <3>2
      <3> QED
        BY <2>1, <3>1, <3>4, <3>5, RefillKeepsRanges
    <2>2. CASE InitRegions
      <3>1. PICK s \in Spaces :
              Refill(IF (s.hi - s.lo) \div MegaByte = 0 THEN space ELSE s)
        BY <2>2 DEF InitRegions
      <3>2. (IF (s.hi - s.lo) \div MegaByte = 0 THEN space ELSE s) \in Spaces
        BY <1>1 DEF DomInv
      <3>3. step = "init"
        BY <2>2 DEF InitRegions
      <3> QED
        BY <2>1, <3>1, <3>2, <3>3
    <2>3. CASE FixRegions
      <3>1. step = "fix"
        BY <2>3 DEF FixRegions
      <3>2. PICK s \in Spaces : UNCHANGED space \/ Refill(s)
        BY <2>3 DEF FixRegions
      <3> QED
        BY <2>1, <3>1, <3>2
    <2>4. CASE UNCHANGED space
      BY <2>4
    <2>5. InitRegions \/ FixRegions \/ UNCHANGED space
      BY <1>1 DEF Next, vars, RangeFails, AssignNothing, AssignFails,
                  AssignEvents, AssignAborts, MapFails, Map, MapShutdown,
                  Migrate, Finished
    <2> QED
      BY <2>2, <2>3, <2>4, <2>5
  <1>2. HotnessMovesWithItsRange <=> [][Stays]_vars
    BY PTL DEF HotnessMovesWithItsRange
  <1> QED
    BY <1>1, <1>2, DomInvariant, PTL DEF Spec

(***************************************************************************)
(* Gradual demotion.                                                       *)
(***************************************************************************)

\* The table of tiers: the ids in order.
LEMMA TableOfTiers ==
  /\ NrTiers \in {2, 5}
  /\ TierIds = {TierVector[i] : i \in 1..NrTiers}
  /\ \A i \in 1..NrTiers : TierVector[i] \in Nat
  /\ \A i, j \in 1..NrTiers : TierVector[i] = TierVector[j] => i = j
  /\ TierVector[1] = FAST_NODE
  <1>1. CASE EnableNtier
    <2>1. TierVector = <<0, 1, 10, 11, 12>> /\ NrTiers = 5
      BY <1>1 DEF TierVector, NrTiers
    <2>2. TierIds = {0, 1} \union {10 + i : i \in 0..2}
      BY <1>1 DEF TierIds, ByteTiers, CompressedTiers, COMPRESSED_TIERS_BASE,
                  FAST_NODE, SLOW_NODE
    <2>3. {10 + i : i \in 0..2} = {10, 11, 12}
      <3>1. 0..2 = {0, 1, 2}
        OBVIOUS
      <3>2. 10 + 0 = 10 /\ 10 + 1 = 11 /\ 10 + 2 = 12
        OBVIOUS
      <3> QED
        BY <3>1, <3>2
    <2>4. /\ TierVector[1] = 0 /\ TierVector[2] = 1 /\ TierVector[3] = 10
          /\ TierVector[4] = 11 /\ TierVector[5] = 12
      BY <2>1
    <2>5. 1..5 = {1, 2, 3, 4, 5}
      OBVIOUS
    <2>6. {TierVector[i] : i \in 1..5} = {0, 1, 10, 11, 12}
      BY <2>4, <2>5
    <2>7. TierIds = {0, 1, 10, 11, 12}
      BY <2>2, <2>3
    <2> QED
      BY <2>1, <2>4, <2>5, <2>6, <2>7 DEF FAST_NODE
  <1>2. CASE ~EnableNtier
    <2>1. TierVector = <<0, 1>> /\ NrTiers = 2
      BY <1>2 DEF TierVector, NrTiers
    <2>2. TierIds = {0, 1}
      BY <1>2 DEF TierIds, ByteTiers, CompressedTiers, FAST_NODE, SLOW_NODE
    <2>3. TierVector[1] = 0 /\ TierVector[2] = 1 /\ 1..2 = {1, 2}
      BY <2>1
    <2>4. {TierVector[i] : i \in 1..2} = {0, 1}
      BY <2>3
    <2> QED
      BY <2>1, <2>2, <2>3, <2>4 DEF FAST_NODE
  <1> QED
    BY <1>1, <1>2

\* An id of the table and its index.
LEMMA IndexOfId ==
  ASSUME NEW i \in 1..NrTiers
  PROVE  TierVector[i] \in TierIds /\ IdxOf(TierVector[i]) = i - 1
  <1>1. TierVector[i] \in TierIds
    BY TableOfTiers
  <1>2. (CHOOSE j \in 1..NrTiers : TierVector[j] = TierVector[i]) = i
    BY TableOfTiers
  <1> QED
    BY <1>1, <1>2 DEF IdxOf

\* Every tier has an index, and the fast tier the first.
LEMMA TierHasIndex ==
  /\ \A t \in TierIds : /\ t \in Nat
                        /\ \E i \in 1..NrTiers : t = TierVector[i] /\ IdxOf(t) = i - 1
  /\ FastTier \in TierIds /\ FastTier = FAST_NODE /\ IdxOf(FastTier) = 0
  <1>1. ASSUME NEW t \in TierIds
        PROVE  t \in Nat /\ \E i \in 1..NrTiers : t = TierVector[i] /\ IdxOf(t) = i - 1
    <2>1. PICK i \in 1..NrTiers : t = TierVector[i]
      BY TableOfTiers
    <2> QED
      BY <2>1, IndexOfId, TableOfTiers
  <1>2. 0 \in 0..NrTiers - 1 /\ 1 \in 1..NrTiers
    BY TableOfTiers
  <1>3. FastTier = TierVector[1]
    BY <1>2 DEF FastTier, IdOf
  <1> QED
    BY <1>1, <1>2, <1>3, IndexOfId, TableOfTiers

\* Down is one index further, or where one was.
LEMMA NextTierIsNext ==
  ASSUME NEW t \in TierIds
  PROVE  NextTier(t) \in TierIds /\ IdxOf(NextTier(t)) <= IdxOf(t) + 1
  <1>1. PICK i \in 1..NrTiers : t = TierVector[i] /\ IdxOf(t) = i - 1
    BY TierHasIndex
  <1>2. NrTiers \in {2, 5}
    BY TableOfTiers
  <1>3. CASE i = NrTiers
    <2>1. NextTier(t) = TierVector[NrTiers]
      BY <1>1, <1>2, <1>3 DEF NextTier, IdOf
    <2> QED
      BY <1>1, <1>2, <1>3, <2>1
  <1>4. CASE i # NrTiers
    <2>1. i + 1 \in 1..NrTiers
      BY <1>2, <1>4
    <2>2. NextTier(t) = TierVector[i + 1]
      BY <1>1, <1>2, <1>4, <2>1 DEF NextTier, IdOf
    <2>3. TierVector[i + 1] \in TierIds /\ IdxOf(TierVector[i + 1]) = i
      BY <2>1, IndexOfId
    <2> QED
      BY <1>1, <1>2, <2>2, <2>3
  <1> QED
    BY <1>3, <1>4

\* The record with these fields, and what it means to be one.
Region(curr, dst, hotness) ==
  [curr : {curr}, dst : {dst}, hotness : {hotness}]
IsRegion(r) == r \in Region(r.curr, r.dst, r.hotness)

LEMMA FieldsOf ==
  ASSUME NEW curr, NEW dst, NEW hotness, NEW r \in Region(curr, dst, hotness)
  PROVE  /\ IsRegion(r)
         /\ r.curr = curr /\ r.dst = dst /\ r.hotness = hotness
  BY DEF Region, IsRegion

\* What an assignment to a field leaves of a region.
LEMMA FieldSet ==
  ASSUME NEW r, IsRegion(r), NEW x
  PROVE  /\ [r EXCEPT !.dst = x] \in Region(r.curr, x, r.hotness)
         /\ [r EXCEPT !.hotness = x] \in Region(r.curr, r.dst, x)
  BY DEF IsRegion, Region

\* Where a region is bound for.
Bound(r) == IF r.dst = NoTier THEN r.curr ELSE r.dst

\* What one run of Waterfall does to one region.
LEMMA WaterfallGoesOneDown ==
  ASSUME NEW hotness, NEW threshold, NEW curr \in TierIds,
         NEW dst \in TierIds \union {NoTier}, NEW noneSwapped \in BOOLEAN
  PROVE  LET from == IF dst = NoTier THEN curr ELSE dst
             to == WaterfallTier(hotness, threshold, curr, dst, noneSwapped)
         IN  /\ from \in TierIds /\ to \in TierIds
             /\ IdxOf(to) <= IdxOf(from) + 1
             /\ hotness >= threshold => IdxOf(to) = 0
  <1> DEFINE from == IF dst = NoTier THEN curr ELSE dst
             to == WaterfallTier(hotness, threshold, curr, dst, noneSwapped)
  <1>1. from \in TierIds /\ IdxOf(from) \in Nat
    <2>1. from \in TierIds
      OBVIOUS
    <2> QED
      BY <2>1, TierHasIndex, TableOfTiers
  <1>2. from = IF dst < 0 THEN curr ELSE dst
    BY TierHasIndex DEF NoTier
  <1>3. to \in {FastTier, NextTier(from)}
    BY <1>2 DEF WaterfallTier
  <1>4. hotness >= threshold => to = FastTier
    BY DEF WaterfallTier
  <1> HIDE DEF from, to
  <1>5. NextTier(from) \in TierIds /\ IdxOf(NextTier(from)) <= IdxOf(from) + 1
    BY <1>1, NextTierIsNext
  <1>6. FastTier \in TierIds /\ IdxOf(FastTier) = 0
    BY TierHasIndex
  <1>7. /\ from \in TierIds /\ to \in TierIds
        /\ IdxOf(to) <= IdxOf(from) + 1
        /\ hotness >= threshold => IdxOf(to) = 0
    BY <1>1, <1>3, <1>4, <1>5, <1>6
  <1> QED
    BY <1>7 DEF from, to

\* The tiers of the regions are tiers, and in Waterfall none is bound deeper
\* than it has been cold for.
GradualInv ==
  policy = "WATERFALL" =>
    /\ DOMAIN coldFor = Dom
    /\ \A i \in Dom : /\ IsRegion(regions[i])
                      /\ regions[i].curr \in TierIds
                      /\ regions[i].dst \in TierIds \union {NoTier}
                      /\ coldFor[i] \in Nat
                      /\ IdxOf(Bound(regions[i])) <= coldFor[i]

\* A new vector is in the fast tier.
LEMMA RefillIsFast == ASSUME NEW new, Refill(new) PROVE GradualInv'
  <1>1. DOMAIN coldFor' = DOMAIN regions'
    BY DEF Refill
  <1>2. ASSUME NEW j \in DOMAIN regions'
        PROVE  /\ IsRegion(regions'[j])
               /\ regions'[j].curr \in TierIds
               /\ regions'[j].dst \in TierIds \union {NoTier}
               /\ coldFor'[j] \in Nat
               /\ IdxOf(Bound(regions'[j])) <= coldFor'[j]
    <2>1. regions'[j].curr = FAST_NODE /\ regions'[j].dst = NoTier /\ coldFor'[j] = 0
      BY RefillCuts
    <2>2. IsRegion(regions'[j])
      BY DEF Refill, IsRegion, Region
    <2> QED
      BY <2>1, <2>2, TierHasIndex DEF Bound
  <1> QED
    BY <1>1, <1>2 DEF GradualInv, Dom

\* A run of Waterfall.
LEMMA WaterfallIsGradual == ASSUME GradualInv, MapWaterfall, UNCHANGED policy
                            PROVE  GradualInv'
  <1>1. policy = "WATERFALL"
    BY DEF MapWaterfall
  <1>2. PICK noneSwapped \in SUBSET Dom :
          regions' = [i \in Dom |-> [regions[i] EXCEPT !.dst =
            WaterfallTier(regions[i].hotness, Threshold, regions[i].curr,
                          regions[i].dst, i \in noneSwapped)]]
    BY DEF MapWaterfall, Recommend
  <1>3. coldFor' = [i \in Dom |-> IF Hot(i) THEN 0 ELSE coldFor[i] + 1]
    BY DEF MapWaterfall
  <1>4. Dom' = Dom /\ DOMAIN coldFor' = Dom
    BY <1>2, <1>3 DEF Dom
  <1>5. ASSUME NEW i \in Dom
        PROVE  /\ IsRegion(regions'[i])
               /\ regions'[i].curr \in TierIds
               /\ regions'[i].dst \in TierIds \union {NoTier}
               /\ coldFor'[i] \in Nat
               /\ IdxOf(Bound(regions'[i])) <= coldFor'[i]
    <2> DEFINE to == WaterfallTier(regions[i].hotness, Threshold, regions[i].curr,
                                   regions[i].dst, i \in noneSwapped)
    <2>1. /\ IsRegion(regions[i])
          /\ regions[i].curr \in TierIds
          /\ regions[i].dst \in TierIds \union {NoTier}
          /\ coldFor[i] \in Nat
          /\ IdxOf(Bound(regions[i])) <= coldFor[i]
      BY <1>1 DEF GradualInv
    <2>2. /\ Bound(regions[i]) \in TierIds
          /\ to \in TierIds
          /\ IdxOf(to) <= IdxOf(Bound(regions[i])) + 1
          /\ Hot(i) => IdxOf(to) = 0
      <3>1. (i \in noneSwapped) \in BOOLEAN
        OBVIOUS
      <3> QED
        BY <2>1, <3>1, WaterfallGoesOneDown DEF Bound, Hot
    <2>3. IdxOf(to) \in Int /\ IdxOf(Bound(regions[i])) \in Int
      BY <2>2, TierHasIndex, TableOfTiers
    <2>4. coldFor'[i] = IF Hot(i) THEN 0 ELSE coldFor[i] + 1
      BY <1>3
    <2> HIDE DEF to
    <2>5. coldFor'[i] \in Nat /\ IdxOf(to) <= coldFor'[i]
      BY <2>1, <2>2, <2>3, <2>4
    <2>6. regions'[i] \in Region(regions[i].curr, to, regions[i].hotness)
      BY <1>2, <2>1, FieldSet DEF to
    <2>7. to # NoTier
      BY <2>2, TierHasIndex DEF NoTier
    <2> QED
      BY <2>1, <2>2, <2>5, <2>6, <2>7, FieldsOf DEF Bound
  <1> QED
    BY <1>4, <1>5 DEF GradualInv

\* Counting changes no tier.
LEMMA CountingIsGradual == ASSUME GradualInv, AssignEvents PROVE GradualInv'
  <1>1. /\ regions' = [i \in Dom |-> [regions[i] EXCEPT !.hotness = Counts[i]]]
        /\ UNCHANGED <<policy, coldFor>>
    BY DEF AssignEvents
  <1>2. Dom' = Dom
    BY <1>1 DEF Dom
  <1>3. ASSUME NEW i \in Dom, IsRegion(regions[i])
        PROVE  /\ IsRegion(regions'[i])
               /\ regions'[i].curr = regions[i].curr
               /\ regions'[i].dst = regions[i].dst
    <2>1. regions'[i] = [regions[i] EXCEPT !.hotness = Counts[i]]
      BY <1>1
    <2>2. \A x : [regions[i] EXCEPT !.hotness = x]
                   \in Region(regions[i].curr, regions[i].dst, x)
      BY <1>3, FieldSet
    <2>3. regions'[i] \in Region(regions[i].curr, regions[i].dst, Counts[i])
      BY <2>1, <2>2
    <2> QED
      BY <2>3, FieldsOf
  <1> QED
    BY <1>1, <1>2, <1>3 DEF GradualInv, Bound

\* A push leaves a region bound for where it was bound for.
LEMMA MigrateIsGradual == ASSUME GradualInv, Migrate PROVE GradualInv'
  <1>1. PICK arrived \in SUBSET {i \in Dom : /\ regions[i].dst # NoTier
                                             /\ regions[i].dst # regions[i].curr} :
          regions' = [i \in Dom |-> IF i \in arrived
                        THEN [regions[i] EXCEPT !.curr = regions[i].dst,
                                                !.dst = NoTier]
                        ELSE regions[i]]
    BY DEF Migrate
  <1>2. UNCHANGED <<policy, coldFor>>
    BY DEF Migrate
  <1>3. Dom' = Dom
    BY <1>1 DEF Dom
  <1>4. ASSUME NEW i \in Dom, IsRegion(regions[i]), regions[i].curr \in TierIds,
               regions[i].dst \in TierIds \union {NoTier}
        PROVE  /\ IsRegion(regions'[i])
               /\ regions'[i].curr \in TierIds
               /\ regions'[i].dst \in TierIds \union {NoTier}
               /\ Bound(regions'[i]) = Bound(regions[i])
    <2>1. CASE i \in arrived
      <3>1. regions'[i] = [regions[i] EXCEPT !.curr = regions[i].dst, !.dst = NoTier]
        BY <1>1, <2>1
      <3>2. regions'[i] \in Region(regions[i].dst, NoTier, regions[i].hotness)
        BY <1>4, <3>1 DEF IsRegion, Region
      <3>3. regions[i].dst # NoTier
        BY <2>1
      <3> QED
        BY <1>4, <3>2, <3>3, FieldsOf DEF Bound
    <2>2. CASE i \notin arrived
      <3>1. regions'[i] = regions[i]
        BY <1>1, <2>2
      <3> QED
        BY <1>4, <3>1
    <2> QED
      BY <2>1, <2>2
  <1> QED
    BY <1>2, <1>3, <1>4 DEF GradualInv

\* Waterfall demotes by one tier for each window in a row that has found a
\* region cold, and no further, for any windows, spaces and thresholds, and
\* whatever the pushers have time for (mapping_waterfall.cpp).
THEOREM DemotionIsGradual == Spec => []GradualDemotion
  <1>1. Init => GradualInv
    BY DEF Init, GradualInv, Dom
  <1>2. ASSUME GradualInv, [Next]_vars PROVE GradualInv'
    <2>1. CASE UNCHANGED <<policy, regions, coldFor>>
      BY <1>2, <2>1 DEF GradualInv, Dom
    <2>2. CASE InitRegions
      BY <2>2, RefillIsFast DEF InitRegions
    <2>3. CASE FixRegions
      <3>1. PICK s \in Spaces : UNCHANGED <<regions, coldFor>> \/ Refill(s)
        BY <2>3 DEF FixRegions
      <3>2. UNCHANGED policy
        BY <2>3 DEF FixRegions
      <3> QED
        BY <2>1, <3>1, <3>2, RefillIsFast
    <2>4. CASE AssignEvents
      BY <1>2, <2>4, CountingIsGradual
    <2>5. CASE Map
      <3>1. UNCHANGED policy
        BY <2>5 DEF Map
      <3>2. CASE MapWaterfall
        BY <1>2, <3>1, <3>2, WaterfallIsGradual
      <3>3. CASE MapHemem
        BY <3>1, <3>3 DEF MapHemem, GradualInv
      <3> QED
        BY <2>5, <3>2, <3>3 DEF Map
    <2>6. CASE Migrate
      BY <1>2, <2>6, MigrateIsGradual
    <2>7. CASE RangeFails \/ AssignNothing \/ AssignFails \/ AssignAborts
      BY <2>1, <2>7 DEF RangeFails, AssignNothing, AssignFails, AssignAborts
    <2>8. CASE MapFails \/ MapShutdown \/ Finished \/ UNCHANGED vars
      BY <2>1, <2>8 DEF MapFails, MapShutdown, Finished, vars
    <2> QED
      BY <1>2, <2>2, <2>3, <2>4, <2>5, <2>6, <2>7, <2>8 DEF Next
  <1>3. GradualInv => GradualDemotion
    BY DEF GradualInv, GradualDemotion, Bound
  <1> QED
    BY <1>1, <1>2, <1>3, PTL DEF Spec

(***************************************************************************)
(* Types, the counts of a batch, and the threshold.                        *)
(***************************************************************************)

RegionType == [curr : TierIds, dst : TierIds \union {NoTier}, hotness : Nat]

\* The type of every variable; a window in progress is one of MaxWindows, and
\* the mapping has set every destination.
TypeInv ==
  /\ policy \in Policies
  /\ DomInv
  /\ \A i \in Dom : regions[i] \in RegionType
  /\ regions = [i \in Dom |-> regions[i]]
  /\ DOMAIN coldFor = Dom /\ \A i \in Dom : coldFor[i] \in Nat
  /\ batch \in Seq(Nat)
  /\ comm \in Nat \union {Absent, Empty}
  /\ percentile \in Nat \union {Unallocated}
  /\ step \in {"init", "fix", "assign", "map", "migrate", "exited"}
  /\ window \in 0..MaxWindows
  /\ step \in {"assign", "map", "migrate"} => window < MaxWindows
  /\ alive \in BOOLEAN /\ matched \in BOOLEAN
  /\ step = "migrate" /\ alive => \A i \in Dom : regions[i].dst # NoTier

\* The regions of a space are finitely many.
LEMMA FilledIsFinite ==
  ASSUME NEW lo \in Nat, NEW hi \in Nat
  PROVE  IsFiniteSet(Filled(lo, hi)) /\ Filled(lo, hi) \subseteq Int
  <1>1. IsFiniteSet(0..hi - lo)
    BY FS_Interval
  <1>2. Filled(lo, hi) \in SUBSET (0..hi - lo)
    BY DEF Filled
  <1> QED
    BY <1>1, <1>2, FS_Subset, FilledStarts

\* What a field of a region may be set to.
LEMMA RegionSet ==
  ASSUME NEW r \in RegionType
  PROVE  /\ r.curr \in TierIds /\ r.dst \in TierIds \union {NoTier} /\ r.hotness \in Nat
         /\ \A x \in TierIds : /\ [r EXCEPT !.dst = x] \in RegionType
                               /\ [r EXCEPT !.dst = x].dst = x
                               /\ [r EXCEPT !.dst = x].hotness = r.hotness
         /\ \A x \in Nat : /\ [r EXCEPT !.hotness = x] \in RegionType
                           /\ [r EXCEPT !.hotness = x].hotness = x
         /\ r.dst # NoTier =>
              /\ [r EXCEPT !.curr = r.dst, !.dst = NoTier] \in RegionType
              /\ [r EXCEPT !.curr = r.dst, !.dst = NoTier].hotness = r.hotness
  BY DEF RegionType

\* The counts of a window that is being assigned: each access of the batch,
\* in the region it lies in; and the threshold that convolve.py makes of them.
LEMMA CountsOfBatch ==
  ASSUME TypeInv, step = "assign"
  PROVE  /\ Counts \in [Dom -> Nat]
         /\ \A i \in Dom :
              Counts[i] = Cardinality({k \in DOMAIN batch :
                /\ batch[k] \in Start(i)..Start(i) + RegionSize - 1
                /\ batch[k] <= space.hi})
         /\ Len(Entries) > 1 /\ UsesPercentile =>
              PercentileOf(HotTh, Counts) \in Nat \ {0}
  <1> DEFINE lo == space.lo
             hi == space.hi
  <1>1. /\ lo \in Nat \ {0} /\ hi \in Nat /\ Dom = Filled(lo, hi)
        /\ batch \in Seq(Nat)
    BY WindowAssumption DEF TypeInv, DomInv
  <1>2. Entries = RunLengths(batch, lo, hi) /\ Counts = Collected(Entries, lo, hi, Dom)
    BY DEF Entries, Counts
  <1> HIDE DEF lo, hi
  <1>3. /\ Counts \in [Dom -> Nat]
        /\ \A i \in Dom : Counts[i] = Cardinality({k \in DOMAIN batch :
                                        batch[k] \in InRegion(lo, hi, i)})
        /\ Len(Entries) > 1 => \E i \in Dom : Counts[i] > 0
    BY <1>1, <1>2, CollectedCounts
  <1>4. ASSUME NEW i \in Dom
        PROVE  {k \in DOMAIN batch : batch[k] \in InRegion(lo, hi, i)}
                 = {k \in DOMAIN batch :
                      /\ batch[k] \in Start(i)..Start(i) + RegionSize - 1
                      /\ batch[k] <= hi}
    <2>1. \A k \in DOMAIN batch : batch[k] \in Nat
      BY <1>1
    <2>2. \A a \in Nat : a \in InRegion(lo, hi, i)
            <=> a \in Start(i)..Start(i) + RegionSize - 1 /\ a <= hi
      BY <1>1, InRegionBounds DEF Start, lo
    <2> QED
      BY <2>1, <2>2
  <1>5. ASSUME Len(Entries) > 1, UsesPercentile
        PROVE  PercentileOf(HotTh, Counts) \in Nat \ {0}
    <2>1. HotTh \in 0..100
      BY <1>5 DEF UsesPercentile, PercentileArr
    <2>2. IsFiniteSet(Dom) /\ Dom \subseteq Int
      BY <1>1, FilledIsFinite
    <2>3. \E i \in Dom : Counts[i] > 0
      BY <1>3, <1>5
    <2> QED
      BY <1>3, <2>1, <2>2, <2>3, ThresholdInRange
  <1> QED
    BY <1>3, <1>4, <1>5 DEF hi

\* Counting a batch changes the hotness to the counts.
LEMMA HotnessIsCounts ==
  ASSUME TypeInv, AssignEvents
  PROVE  /\ step = "assign" /\ Len(Entries) > 1
         /\ regions' = [i \in Dom |-> regions'[i]] /\ Dom' = Dom
         /\ \A i \in Dom : /\ regions'[i] \in RegionType
                           /\ regions'[i].hotness = Counts[i]
  <1>1. /\ step = "assign" /\ Len(Entries) > 1
        /\ regions' = [i \in Dom |-> [regions[i] EXCEPT !.hotness = Counts[i]]]
    BY DEF AssignEvents
  <1>2. ASSUME NEW i \in Dom
        PROVE  regions'[i] \in RegionType /\ regions'[i].hotness = Counts[i]
    <2>1. regions'[i] = [regions[i] EXCEPT !.hotness = Counts[i]]
      BY <1>1
    <2>2. Counts[i] \in Nat
      BY <1>1, CountsOfBatch
    <2>3. regions[i] \in RegionType
      BY DEF TypeInv
    <2>4. \A r \in RegionType : \A x \in Nat : /\ [r EXCEPT !.hotness = x] \in RegionType
                                               /\ [r EXCEPT !.hotness = x].hotness = x
      BY RegionSet
    <2> QED
      BY <2>1, <2>2, <2>3, <2>4, Zenon
  <1>3. Dom' = Dom /\ regions' = [i \in Dom |-> regions'[i]]
    BY <1>1 DEF Dom
  <1> QED
    BY <1>1, <1>2, <1>3

\* What convolve.py leaves when it has worked is the threshold of the counts.
LEMMA ScriptLeavesType ==
  ASSUME TypeInv, step = "assign", Len(Entries) > 1, NEW worked \in BOOLEAN,
         NEW c \in ScriptLeaves(worked)
  PROVE  /\ c \in Nat \union {Absent, Empty}
         /\ worked /\ UsesPercentile => c \in Nat \ {0} /\ c = PercentileOf(HotTh, Counts)
  <1>1. comm \in Nat \union {Absent, Empty}
    BY DEF TypeInv
  <1>2. UsesPercentile => PercentileOf(HotTh, Counts) \in Nat \ {0}
    BY CountsOfBatch
  <1> QED
    BY <1>1, <1>2 DEF ScriptLeaves

\* A new vector.
LEMMA RefillType ==
  ASSUME TypeInv, step \in {"init", "fix"}, NEW new \in Spaces, Refill(new)
  PROVE  /\ space' = new
         /\ DOMAIN regions' = Filled(new.lo, new.hi)
         /\ regions' = [j \in DOMAIN regions' |-> regions'[j]]
         /\ \A j \in DOMAIN regions' : regions'[j] \in RegionType
         /\ DOMAIN coldFor' = DOMAIN regions'
         /\ \A j \in DOMAIN regions' : coldFor'[j] \in Nat
         /\ matched' = FALSE
  <1>1. /\ space' = new /\ DOMAIN regions' = Filled(new.lo, new.hi)
        /\ \A j \in DOMAIN regions' : /\ regions'[j].curr = FAST_NODE
                                      /\ regions'[j].dst = NoTier
                                      /\ coldFor'[j] = 0
    BY RefillCuts
  <1>2. /\ DOMAIN coldFor' = DOMAIN regions' /\ matched' = FALSE
        /\ regions' = [j \in DOMAIN regions' |-> regions'[j]]
        /\ \A j \in DOMAIN regions' : IsRegion(regions'[j])
    <2>1. DOMAIN coldFor' = DOMAIN regions' /\ matched' = FALSE
      BY DEF Refill
    <2>2. regions' = [j \in DOMAIN regions' |-> regions'[j]]
      BY DEF Refill
    <2>3. \A j \in DOMAIN regions' : IsRegion(regions'[j])
      BY DEF Refill, IsRegion, Region
    <2> QED
      BY <2>1, <2>2, <2>3
  <1>3. /\ new.lo \in Nat /\ new.hi \in Nat /\ space.lo \in Nat /\ space.hi \in Nat
        /\ Dom = {} \/ Dom = Filled(space.lo, space.hi)
    BY SpaceType DEF TypeInv, DomInv
  <1>4. Dom \subseteq Int /\ Filled(new.lo, new.hi) \subseteq Int
        /\ new.lo \in Int /\ space.lo \in Int
    BY <1>3, FilledStarts
  <1>5. ASSUME NEW j \in DOMAIN regions'
        PROVE  regions'[j] \in RegionType
    <2>1. regions'[j].hotness \in Nat
      <3>1. regions'[j].hotness # 0 =>
              \E i \in Dom : regions[i].hotness = regions'[j].hotness
        BY <1>4, RefillKeepsRanges
      <3>2. \A i \in Dom : regions[i].hotness \in Nat
        BY RegionSet DEF TypeInv
      <3> QED
        BY <3>1, <3>2
    <2>2. IsRegion(regions'[j])
      BY <1>2
    <2>3. regions'[j].curr \in TierIds /\ regions'[j].dst = NoTier
      BY <1>1, TierHasIndex
    <2> QED
      BY <2>1, <2>2, <2>3 DEF IsRegion, Region, RegionType
  <1> QED
    BY <1>1, <1>2, <1>5

\* The mapping changes the destinations only, and sets every one.
LEMMA MapType ==
  ASSUME TypeInv, Map
  PROVE  /\ Dom' = Dom /\ regions' = [i \in Dom |-> regions'[i]]
         /\ \A i \in Dom : /\ regions'[i] \in RegionType
                           /\ regions'[i].dst # NoTier
                           /\ regions'[i].hotness = regions[i].hotness
         /\ DOMAIN coldFor' = Dom /\ \A i \in Dom : coldFor'[i] \in Nat
  <1>1. SlowTierId \in TierIds /\ FastTier \in TierIds
    <2>1. NrTiers \in {2, 5}
      BY TableOfTiers
    <2>2. \A i \in 0..NrTiers - 1 : IdOf(i) \in TierIds
      <3>1. ASSUME NEW i \in 0..NrTiers - 1
            PROVE  IdOf(i) \in TierIds
        <4>1. i + 1 \in 1..NrTiers
          BY <2>1
        <4>2. IdOf(i) = TierVector[i + 1]
          BY DEF IdOf
        <4> QED
          BY <4>1, <4>2, IndexOfId
      <3> QED
        BY <3>1
    <2> QED
      BY <2>1, <2>2, TierHasIndex, SlowTierAssumption DEF SlowTierId
  <1>2. \A t \in TierIds : t # NoTier
    BY TierHasIndex DEF NoTier
  <1>3. \E to \in [Dom -> TierIds] :
          regions' = [i \in Dom |-> [regions[i] EXCEPT !.dst = to[i]]]
    <2>1. CASE MapHemem
      <3> DEFINE to == [i \in Dom |-> HememTier(regions[i].hotness, Threshold)]
      <3>1. to \in [Dom -> TierIds]
        BY <1>1 DEF HememTier
      <3>2. regions' = [i \in Dom |-> [regions[i] EXCEPT !.dst = to[i]]]
        BY <2>1 DEF MapHemem, Recommend
      <3> QED
        BY <3>1, <3>2
    <2>2. CASE MapWaterfall
      <3>1. PICK noneSwapped \in SUBSET Dom :
              Recommend([i \in Dom |->
                WaterfallTier(regions[i].hotness, Threshold, regions[i].curr,
                              regions[i].dst, i \in noneSwapped)])
        BY <2>2 DEF MapWaterfall
      <3> DEFINE to == [i \in Dom |->
                WaterfallTier(regions[i].hotness, Threshold, regions[i].curr,
                              regions[i].dst, i \in noneSwapped)]
      <3>2. ASSUME NEW i \in Dom PROVE to[i] \in TierIds
        <4>1. regions[i].curr \in TierIds /\ regions[i].dst \in TierIds \union {NoTier}
          BY RegionSet DEF TypeInv
        <4>2. (i \in noneSwapped) \in BOOLEAN
          OBVIOUS
        <4> QED
          BY <4>1, <4>2, WaterfallGoesOneDown
      <3>3. to \in [Dom -> TierIds]
        BY <3>2
      <3>4. regions' = [i \in Dom |-> [regions[i] EXCEPT !.dst = to[i]]]
        BY <3>1 DEF Recommend
      <3> QED
        BY <3>3, <3>4
    <2> QED
      BY <2>1, <2>2 DEF Map
  <1>4. coldFor' = [i \in Dom |-> IF Hot(i) THEN 0 ELSE coldFor[i] + 1]
    BY DEF Map, MapHemem, MapWaterfall
  <1>5. PICK to \in [Dom -> TierIds] :
          regions' = [i \in Dom |-> [regions[i] EXCEPT !.dst = to[i]]]
    BY <1>3
  <1>6. ASSUME NEW i \in Dom
        PROVE  /\ regions'[i] \in RegionType
               /\ regions'[i].dst # NoTier
               /\ regions'[i].hotness = regions[i].hotness
    <2>1. regions[i] \in RegionType /\ to[i] \in TierIds
      BY DEF TypeInv
    <2>2. regions'[i] = [regions[i] EXCEPT !.dst = to[i]]
      BY <1>5
    <2>3. \A r \in RegionType : \A x \in TierIds :
            \A q : q = [r EXCEPT !.dst = x] =>
              q \in RegionType /\ q.dst = x /\ q.hotness = r.hotness
      BY DEF RegionType
    <2>4. /\ regions'[i] \in RegionType
          /\ regions'[i].dst = to[i]
          /\ regions'[i].hotness = regions[i].hotness
      BY <2>1, <2>2, <2>3
    <2> QED
      BY <1>2, <2>1, <2>4
  <1>7. \A i \in Dom : coldFor[i] \in Nat
    BY DEF TypeInv
  <1>8. DOMAIN coldFor' = Dom /\ \A i \in Dom : coldFor'[i] \in Nat
    BY <1>4, <1>7
  <1>9. Dom' = Dom /\ regions' = [i \in Dom |-> regions'[i]]
    BY <1>5 DEF Dom
  <1> QED
    BY <1>6, <1>8, <1>9

\* The push changes tiers only.
LEMMA MigrateType ==
  ASSUME TypeInv, Migrate
  PROVE  /\ Dom' = Dom /\ regions' = [i \in Dom |-> regions'[i]]
         /\ \A i \in Dom : /\ regions'[i] \in RegionType
                           /\ regions'[i].hotness = regions[i].hotness
  <1>1. PICK arrived \in SUBSET {i \in Dom : /\ regions[i].dst # NoTier
                                             /\ regions[i].dst # regions[i].curr} :
          regions' = [i \in Dom |-> IF i \in arrived
                        THEN [regions[i] EXCEPT !.curr = regions[i].dst,
                                                !.dst = NoTier]
                        ELSE regions[i]]
    BY DEF Migrate
  <1>2. ASSUME NEW i \in Dom
        PROVE  regions'[i] \in RegionType /\ regions'[i].hotness = regions[i].hotness
    <2>1. regions[i] \in RegionType
      BY DEF TypeInv
    <2>2. CASE i \in arrived
      <3>1. regions'[i] = [regions[i] EXCEPT !.curr = regions[i].dst, !.dst = NoTier]
        BY <1>1, <2>2
      <3>2. regions[i].dst # NoTier
        BY <2>2
      <3>3. \A r \in RegionType : r.dst # NoTier =>
              /\ [r EXCEPT !.curr = r.dst, !.dst = NoTier] \in RegionType
              /\ [r EXCEPT !.curr = r.dst, !.dst = NoTier].hotness = r.hotness
        BY RegionSet
      <3> QED
        BY <2>1, <3>1, <3>2, <3>3, Zenon
    <2>3. CASE i \notin arrived
      BY <1>1, <2>1, <2>3
    <2> QED
      BY <2>2, <2>3
  <1>3. Dom' = Dom /\ regions' = [i \in Dom |-> regions'[i]]
    BY <1>1 DEF Dom
  <1> QED
    BY <1>2, <1>3

\* The types are kept.
LEMMA TypeInvariant == Spec => []TypeInv
  <1>1. Init => TypeInv
    <2>1. SUFFICES ASSUME Init PROVE TypeInv
      OBVIOUS
    <2>2. Dom = {} /\ DOMAIN coldFor = {} /\ regions = [i \in Dom |-> regions[i]]
      BY <2>1 DEF Init, Dom
    <2>3. batch \in Seq(Nat) /\ comm \in Nat \union {Absent, Empty}
      BY <2>1, WindowAssumption DEF Init
    <2>4. DomInv
      BY <2>1, <2>2 DEF Init, DomInv
    <2>5. window \in 0..MaxWindows
      BY <2>1, WindowAssumption DEF Init
    <2> QED
      BY <2>1, <2>2, <2>3, <2>4, <2>5 DEF Init, TypeInv
  <1>2. ASSUME TypeInv, [Next]_vars PROVE TypeInv'
    <2>1. /\ window \in Nat /\ MaxWindows \in Nat /\ window <= MaxWindows
          /\ space \in Spaces
      BY <1>2, WindowAssumption DEF TypeInv, DomInv
    <2>2. ASSUME UNCHANGED <<policy, space, regions, coldFor, comm, percentile,
                             window, alive, matched>>,
                 batch' \in Seq(Nat),
                 step' = "exited" \/ (step = "assign" /\ step' = "map")
          PROVE  TypeInv'
      <3>1. DomInv'
        BY <1>2, <2>2 DEF TypeInv, DomInv, Dom
      <3> QED
        BY <1>2, <2>2, <3>1 DEF TypeInv, Dom
    <2>3. CASE RangeFails \/ AssignFails \/ MapFails
      <3>1. batch' = batch /\ batch \in Seq(Nat)
        BY <1>2, <2>3 DEF RangeFails, AssignFails, MapFails, TypeInv
      <3> QED
        BY <2>2, <2>3, <3>1 DEF RangeFails, AssignFails, MapFails, Exit
    <2>4. CASE AssignNothing
      <3>1. batch' \in Seq(Nat)
        BY <2>4 DEF AssignNothing
      <3> QED
        BY <2>2, <2>4, <3>1 DEF AssignNothing
    <2>5. ASSUME step \in {"init", "fix"}, NEW new \in Spaces, Refill(new),
                 window < MaxWindows,
                 UNCHANGED <<policy, comm, percentile, window, alive>>,
                 batch' \in Seq(Nat), step' \in {"fix", "assign"}
          PROVE  TypeInv'
      <3>1. /\ space' = new
            /\ DOMAIN regions' = Filled(new.lo, new.hi)
            /\ regions' = [j \in DOMAIN regions' |-> regions'[j]]
            /\ \A j \in DOMAIN regions' : regions'[j] \in RegionType
            /\ DOMAIN coldFor' = DOMAIN regions'
            /\ \A j \in DOMAIN regions' : coldFor'[j] \in Nat
            /\ matched' = FALSE
        BY <1>2, <2>5, RefillType
      <3>2. DomInv'
        BY <2>5, <3>1 DEF DomInv, Dom
      <3> QED
        BY <1>2, <2>5, <3>1, <3>2 DEF TypeInv, Dom
    <2>6. CASE InitRegions
      <3>1. PICK s \in Spaces :
              Refill(IF (s.hi - s.lo) \div MegaByte = 0 THEN space ELSE s)
        BY <2>6 DEF InitRegions
      <3>2. (IF (s.hi - s.lo) \div MegaByte = 0 THEN space ELSE s) \in Spaces
        BY <2>1
      <3>3. PICK new \in Spaces : Refill(new)
        BY <3>1, <3>2
      <3>4. batch' = batch /\ batch \in Seq(Nat)
        BY <1>2, <2>6 DEF InitRegions, TypeInv
      <3> QED
        BY <2>5, <2>6, <3>3, <3>4 DEF InitRegions
    <2>7. CASE FixRegions
      <3>1. /\ step = "fix" /\ step' = "assign" /\ window < MaxWindows
            /\ UNCHANGED <<policy, comm, percentile, window, alive>>
        BY <2>7 DEF FixRegions
      <3>2. batch' \in Seq(Nat)
        BY <2>7, WindowAssumption DEF FixRegions
      <3>3. PICK s \in Spaces : \/ UNCHANGED <<space, regions, coldFor, matched>>
                                \/ Refill(s)
        BY <2>7 DEF FixRegions
      <3>4. CASE UNCHANGED <<space, regions, coldFor, matched>>
        <4>1. DomInv'
          BY <1>2, <3>1, <3>4 DEF TypeInv, DomInv, Dom
        <4> QED
          BY <1>2, <3>1, <3>2, <3>4, <4>1 DEF TypeInv, Dom
      <3> QED
        BY <2>5, <3>1, <3>2, <3>3, <3>4
    <2>8. CASE AssignEvents
      <3>1. /\ Len(Entries) > 1 /\ step = "assign"
            /\ regions' = [i \in Dom |-> regions'[i]] /\ Dom' = Dom
            /\ \A i \in Dom : regions'[i] \in RegionType
        BY <1>2, <2>8, HotnessIsCounts
      <3>2. /\ step' = "map" /\ batch' = <<>>
            /\ UNCHANGED <<policy, space, window, alive, coldFor>>
        BY <2>8 DEF AssignEvents
      <3>3. /\ comm' \in Nat \union {Absent} /\ matched' \in BOOLEAN
        <4>1. PICK worked \in {TRUE, ~ScriptMayFail} :
                comm' \in ScriptLeaves(worked) \ {Empty} /\ matched' = worked
          BY <2>8 DEF AssignEvents
        <4>2. worked \in BOOLEAN
          OBVIOUS
        <4> QED
          BY <1>2, <3>1, <4>1, <4>2, ScriptLeavesType
      <3>4. percentile' \in Nat \union {Unallocated}
        <4>1. percentile' = IF comm' = Absent THEN percentile ELSE comm'
          BY <2>8 DEF AssignEvents
        <4> QED
          BY <1>2, <3>3, <4>1 DEF TypeInv
      <3>5. DomInv'
        BY <1>2, <3>1, <3>2 DEF TypeInv, DomInv
      <3>6. batch' \in Seq(Nat)
        BY <3>2
      <3> QED
        BY <1>2, <3>1, <3>2, <3>3, <3>4, <3>5, <3>6 DEF TypeInv
    <2>9. CASE AssignAborts
      <3>1. /\ step = "assign" /\ step' = "fix" /\ window' = window + 1
            /\ comm' = Empty /\ batch' = <<>>
            /\ UNCHANGED <<policy, space, regions, percentile, alive, coldFor, matched>>
        BY <2>9 DEF AssignAborts
      <3>2. window' \in 0..MaxWindows
        BY <1>2, <2>1, <3>1 DEF TypeInv
      <3>3. DomInv'
        BY <1>2, <3>1 DEF TypeInv, DomInv, Dom
      <3>4. batch' \in Seq(Nat)
        BY <3>1
      <3> QED
        BY <1>2, <3>1, <3>2, <3>3, <3>4 DEF TypeInv, Dom
    <2>10. CASE Map
      <3>1. /\ Dom' = Dom /\ regions' = [i \in Dom |-> regions'[i]]
            /\ \A i \in Dom : regions'[i] \in RegionType /\ regions'[i].dst # NoTier
            /\ DOMAIN coldFor' = Dom /\ \A i \in Dom : coldFor'[i] \in Nat
        BY <1>2, <2>10, MapType
      <3>2. /\ step = "map" /\ step' = "migrate"
            /\ UNCHANGED <<policy, space, batch, comm, percentile, window, alive, matched>>
        BY <2>10 DEF Map
      <3>3. DomInv'
        BY <1>2, <3>1, <3>2 DEF TypeInv, DomInv
      <3> QED
        BY <1>2, <3>1, <3>2, <3>3 DEF TypeInv
    <2>11. CASE MapShutdown
      <3>1. /\ step = "map" /\ step' = "migrate" /\ alive' = FALSE
            /\ UNCHANGED <<policy, space, regions, batch, comm, percentile, window,
                           coldFor, matched>>
        BY <2>11 DEF MapShutdown
      <3>2. DomInv'
        BY <1>2, <3>1 DEF TypeInv, DomInv, Dom
      <3> QED
        BY <1>2, <3>1, <3>2 DEF TypeInv, Dom
    <2>12. CASE Migrate
      <3>1. /\ Dom' = Dom /\ regions' = [i \in Dom |-> regions'[i]]
            /\ \A i \in Dom : regions'[i] \in RegionType
        BY <1>2, <2>12, MigrateType
      <3>2. /\ step = "migrate" /\ step' \in {"fix", "exited"} /\ window' = window + 1
            /\ UNCHANGED <<policy, space, batch, comm, percentile, alive, coldFor, matched>>
        BY <2>12 DEF Migrate
      <3>3. window' \in 0..MaxWindows
        BY <1>2, <2>1, <3>2 DEF TypeInv
      <3>4. DomInv'
        BY <1>2, <3>1, <3>2 DEF TypeInv, DomInv
      <3> QED
        BY <1>2, <3>1, <3>2, <3>3, <3>4 DEF TypeInv
    <2>13. CASE Finished \/ UNCHANGED vars
      <3>1. UNCHANGED vars
        BY <2>13 DEF Finished
      <3>2. DomInv'
        BY <1>2, <3>1 DEF TypeInv, DomInv, Dom, vars
      <3> QED
        BY <1>2, <3>1, <3>2 DEF TypeInv, Dom, vars
    <2> QED
      BY <1>2, <2>3, <2>4, <2>6, <2>7, <2>8, <2>9, <2>10, <2>11, <2>12, <2>13 DEF Next
  <1> QED
    BY <1>1, <1>2, PTL DEF Spec

\* The types of the variables; the vector is that of the space, and a mapping
\* that has run has set every destination, unless the daemon is ending.
THEOREM TypeCorrect == Spec => []TypeOK
  <1>1. TypeInv => TypeOK
    <2>1. SUFFICES ASSUME TypeInv PROVE TypeOK
      OBVIOUS
    <2>2. regions \in [Dom -> RegionType]
      BY <2>1 DEF TypeInv
    <2> QED
      BY <2>1, <2>2 DEF TypeInv, TypeOK, DomInv, RegionType
  <1> QED
    BY <1>1, TypeInvariant, PTL

\* Each access of a batch is counted once, in the region it lies in, for any
\* batch in any order, any space and any size of region
\* (sort_count_unique_process_mod, assign_events_to_regions).
THEOREM AccessesAreCounted == Spec => EachAccessCounted
  <1> DEFINE Counts1 ==
        AssignEvents => \A i \in Dom : regions'[i].hotness =
          Cardinality({k \in DOMAIN batch :
            batch[k] \in Start(i)..Start(i) + RegionSize - 1
              /\ batch[k] <= space.hi})
  <1>1. ASSUME TypeInv PROVE Counts1
    <2>1. SUFFICES ASSUME AssignEvents, NEW i \in Dom
                   PROVE  regions'[i].hotness =
                            Cardinality({k \in DOMAIN batch :
                              batch[k] \in Start(i)..Start(i) + RegionSize - 1
                                /\ batch[k] <= space.hi})
      OBVIOUS
    <2>2. step = "assign" /\ regions'[i].hotness = Counts[i]
      BY <1>1, <2>1, HotnessIsCounts
    <2>3. Counts[i] = Cardinality({k \in DOMAIN batch :
                        /\ batch[k] \in Start(i)..Start(i) + RegionSize - 1
                        /\ batch[k] <= space.hi})
      BY <1>1, <2>1, <2>2, CountsOfBatch
    <2> QED
      BY <2>2, <2>3
  <1>2. EachAccessCounted <=> [][Counts1]_vars
    BY PTL DEF EachAccessCounted
  <1>3. TypeInv => [Counts1]_vars
    BY <1>1
  <1> HIDE DEF Counts1
  <1> QED
    BY <1>2, <1>3, TypeInvariant, PTL

\* The threshold in use is that of the hotness it is compared with, whatever
\* windows have given up, unless convolve.py failed or the vector was made anew
\* since (update_percentile_hotness).
THEOREM ThresholdIsOfTheseCounts == Spec => []ThresholdOfTheseCounts
  <1> DEFINE Hotness == [i \in Dom |-> regions[i].hotness]
  <1>1. Init => ThresholdOfTheseCounts
    BY DEF Init, ThresholdOfTheseCounts
  <1>2. ASSUME TypeInv, ThresholdOfTheseCounts, [Next]_vars
        PROVE  ThresholdOfTheseCounts'
    <2>1. ASSUME Dom' = Dom, \A i \in Dom : regions'[i].hotness = regions[i].hotness,
                 UNCHANGED <<percentile, matched>>
          PROVE  ThresholdOfTheseCounts'
      <3>1. Hotness' = Hotness
        BY <2>1
      <3> QED
        BY <1>2, <2>1, <3>1 DEF ThresholdOfTheseCounts
    <2>2. ASSUME UNCHANGED <<regions, percentile, matched>>
          PROVE  ThresholdOfTheseCounts'
      BY <2>1, <2>2 DEF Dom
    <2>3. ASSUME NEW new, Refill(new) PROVE ThresholdOfTheseCounts'
      <3>1. matched' = FALSE
        BY <2>3 DEF Refill
      <3> QED
        BY <3>1 DEF ThresholdOfTheseCounts
    <2>4. CASE InitRegions
      BY <2>3, <2>4 DEF InitRegions
    <2>5. CASE FixRegions
      <3>1. UNCHANGED percentile
        BY <2>5 DEF FixRegions
      <3>2. PICK s \in Spaces : UNCHANGED <<regions, matched>> \/ Refill(s)
        BY <2>5 DEF FixRegions
      <3> QED
        BY <2>2, <2>3, <3>1, <3>2
    <2>6. CASE AssignEvents
      <3>1. SUFFICES ASSUME matched', UsesPercentile
                     PROVE  percentile' = PercentileOf(HotTh, Hotness')
        BY DEF ThresholdOfTheseCounts
      <3>2. /\ step = "assign" /\ Len(Entries) > 1 /\ Dom' = Dom
            /\ \A i \in Dom : regions'[i].hotness = Counts[i]
        BY <1>2, <2>6, HotnessIsCounts
      <3>3. Counts \in [Dom -> Nat]
        BY <1>2, <3>2, CountsOfBatch
      <3>4. Hotness' = Counts
        BY <3>2, <3>3
      <3>5. PICK worked \in {TRUE, ~ScriptMayFail} :
              comm' \in ScriptLeaves(worked) /\ matched' = worked
        BY <2>6 DEF AssignEvents
      <3>6. worked \in BOOLEAN
        OBVIOUS
      <3>7. comm' \in Nat /\ comm' = PercentileOf(HotTh, Counts)
        BY <1>2, <3>1, <3>2, <3>5, <3>6, ScriptLeavesType
      <3>8. percentile' = comm'
        BY <2>6, <3>7 DEF AssignEvents, Absent
      <3> QED
        BY <3>4, <3>7, <3>8, Zenon
    <2>7. CASE Map
      <3>1. Dom' = Dom /\ \A i \in Dom : regions'[i].hotness = regions[i].hotness
        BY <1>2, <2>7, MapType
      <3> QED
        BY <2>1, <2>7, <3>1 DEF Map
    <2>8. CASE Migrate
      <3>1. Dom' = Dom /\ \A i \in Dom : regions'[i].hotness = regions[i].hotness
        BY <1>2, <2>8, MigrateType
      <3> QED
        BY <2>1, <2>8, <3>1 DEF Migrate
    <2>9. CASE RangeFails \/ AssignNothing \/ AssignFails \/ AssignAborts
      BY <2>2, <2>9 DEF RangeFails, AssignNothing, AssignFails, AssignAborts
    <2>10. CASE MapFails \/ MapShutdown \/ Finished \/ UNCHANGED vars
      BY <2>2, <2>10 DEF MapFails, MapShutdown, Finished, vars
    <2> QED
      BY <1>2, <2>4, <2>5, <2>6, <2>7, <2>8, <2>9, <2>10 DEF Next
  <1> QED
    BY <1>1, <1>2, TypeInvariant, PTL DEF Spec

\* A percentile that was computed since is at least 1, and HeMem has kept the
\* idle regions out of the fast tier.
IdleInv ==
  /\ matched /\ UsesPercentile => percentile >= 1
  /\ IdleIsSlow

\* HeMem recommends the fast tier for no region that the window has found idle,
\* for any accesses, spaces and percentile (mapping_hemem.cpp, convolve.py).
THEOREM IdleRegionsAreSlow == Spec => []IdleIsSlow
  <1>1. Init => IdleInv
    BY DEF Init, IdleInv, IdleIsSlow
  <1>2. ASSUME TypeInv, IdleInv, [Next]_vars PROVE IdleInv'
    <2>1. ASSUME step' # "migrate", UNCHANGED <<percentile, matched>>
          PROVE  IdleInv'
      BY <1>2, <2>1 DEF IdleInv, IdleIsSlow
    <2>2. ASSUME step' # "migrate", matched' = FALSE
          PROVE  IdleInv'
      BY <2>2 DEF IdleInv, IdleIsSlow
    <2>3. CASE RangeFails \/ AssignNothing \/ AssignFails \/ AssignAborts \/ MapFails
      BY <2>1, <2>3 DEF RangeFails, AssignNothing, AssignFails, AssignAborts,
                        MapFails, Exit
    <2>4. CASE InitRegions
      BY <2>2, <2>4 DEF InitRegions, Refill
    <2>5. CASE FixRegions
      <3>1. step' = "assign" /\ UNCHANGED percentile
        BY <2>5 DEF FixRegions
      <3>2. UNCHANGED matched \/ matched' = FALSE
        BY <2>5 DEF FixRegions, Refill
      <3> QED
        BY <2>1, <2>2, <3>1, <3>2
    <2>6. CASE AssignEvents
      <3>1. step' = "map" /\ step = "assign" /\ Len(Entries) > 1
        BY <2>6 DEF AssignEvents
      <3>2. ASSUME matched', UsesPercentile PROVE percentile' >= 1
        <4>1. PICK worked \in {TRUE, ~ScriptMayFail} :
                comm' \in ScriptLeaves(worked) /\ matched' = worked
          BY <2>6 DEF AssignEvents
        <4>2. worked \in BOOLEAN
          OBVIOUS
        <4>3. comm' \in Nat \ {0}
          BY <1>2, <3>1, <3>2, <4>1, <4>2, ScriptLeavesType
        <4>4. percentile' = comm'
          BY <2>6, <4>3 DEF AssignEvents, Absent
        <4> QED
          BY <4>3, <4>4
      <3> QED
        BY <3>1, <3>2 DEF IdleInv, IdleIsSlow
    <2>7. CASE Map
      <3>1. UNCHANGED <<policy, percentile, alive, matched>>
        BY <2>7 DEF Map
      <3>2. SUFFICES ASSUME policy = "HEMEM", matched, UsesPercentile,
                            NEW i \in Dom', regions'[i].hotness = 0
                     PROVE  regions'[i].dst = SlowTierId
        BY <1>2, <3>1 DEF IdleInv, IdleIsSlow
      <3>3. i \in Dom /\ regions'[i].hotness = regions[i].hotness
        BY <1>2, <2>7, MapType
      <3>4. regions' = [j \in Dom |->
              [regions[j] EXCEPT !.dst = HememTier(regions[j].hotness, Threshold)]]
        <4>1. MapHemem
          BY <2>7, <3>2 DEF Map, MapWaterfall
        <4> QED
          BY <4>1 DEF MapHemem, Recommend
      <3>5. HememTier(regions[i].hotness, Threshold) = SlowTierId
        <4>1. Threshold >= 1 /\ Threshold \in Int
          BY <1>2, <3>2 DEF IdleInv, Threshold, TypeInv, Unallocated
        <4> QED
          BY <3>2, <3>3, <4>1 DEF HememTier
      <3>6. regions'[i] = [regions[i] EXCEPT !.dst = SlowTierId]
        BY <3>3, <3>4, <3>5
      <3>7. regions[i] \in RegionType
        BY <1>2, <3>3 DEF TypeInv
      <3> QED
        BY <3>6, <3>7 DEF RegionType
    <2>8. CASE MapShutdown
      <3>1. alive' = FALSE /\ UNCHANGED <<percentile, matched>>
        BY <2>8 DEF MapShutdown
      <3> QED
        BY <1>2, <3>1 DEF IdleInv, IdleIsSlow
    <2>9. CASE Migrate
      BY <2>1, <2>9 DEF Migrate
    <2>10. CASE Finished \/ UNCHANGED vars
      BY <1>2, <2>10 DEF Finished, vars, IdleInv, IdleIsSlow, Dom
    <2> QED
      BY <1>2, <2>3, <2>4, <2>5, <2>6, <2>7, <2>8, <2>9, <2>10 DEF Next
  <1>3. IdleInv => IdleIsSlow
    BY DEF IdleInv
  <1> QED
    BY <1>1, <1>2, <1>3, TypeInvariant, PTL DEF Spec

=============================================================================
