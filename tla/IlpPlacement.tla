---------------------------- MODULE IlpPlacement ----------------------------
(***************************************************************************)
(* How the ILP server places the regions of one request                    *)
(* (src/ilp_server/skd_ilp.cpp, utils/utils_ilp.cpp): regions of like      *)
(* hotness are put into groups, each group gets one tier, the cost has a   *)
(* limit between the cheapest and the dearest placement, and the solver    *)
(* minimises the sum of hotness times latency under that limit.            *)
(*                                                                         *)
(* Costs are in tenths, so that compression ratios are whole numbers.  The *)
(* solver is external: it returns some optimal solution of the program it  *)
(* is given, or none in the time it has.                                   *)
(***************************************************************************)
EXTENDS TierInfo, SequencesExt

CONSTANTS
  GroupSize,        \* MULTIPLIER_FACTOR
  RegionMB,         \* INIT_REGION_MB
  IntWidth,         \* 2^32, the number of values of an int
  HotCap,           \* 98985, beyond which get_max_perf_loss skips a group
  Requests,         \* bound: the hotness of the regions, in their order
  Percents          \* bound: tco_percent, in hundredths

ASSUME PlacementAssumption ==
  /\ GroupSize \in Nat \ {0} /\ RegionMB \in Nat \ {0} /\ HotCap \in Nat
  /\ IntWidth \in {2 * n : n \in 1..IntWidth}
  /\ \A h \in Requests : h \in Seq(Nat) /\ h # <<>>
  /\ Percents \subseteq 1..99

VARIABLES
  hotness,          \* the request: the hotness of each region
  percent,          \* tco_percent
  modRegions,       \* mod_regions: hotness, id and group of each region
  grpHotness,       \* grp_hotness
  limit,            \* resource_limit
  place,            \* the tier of each group in the solution
  dstTiers,         \* dst_tiers: the answer, in the order of the request
  packet,           \* the numbers of the DataPacket
  step

vars == <<hotness, percent, modRegions, grpHotness, limit, place, dstTiers,
          packet, step>>

\* The table the daemon sends (transform_to_comm), by index.
TierIdx == 0..NrTiers - 1
Cost(t) == <<10, 3, 10, 10, 3>>[t + 1]
Com(t) == <<10, 10, 8, 5, 5>>[t + 1]
Latency(t) == <<2, 4, 5, 6, 7>>[t + 1]

Ids == 1..Len(hotness)
Groups == 1..Len(grpHotness)

\* The cost of a group, in tenths, and as get_max_TCO and get_min_TCO cut it.
GroupCost(t) == RegionMB * GroupSize * Cost(t) * Com(t)
Cut(tenths) == tenths \div 10

Sum(f) == SumFunction(f)

Init ==
  /\ hotness \in Requests
  /\ percent \in Percents
  /\ modRegions = <<>> /\ grpHotness = <<>> /\ limit = 0
  /\ place = <<>> /\ dstTiers = <<>> /\ packet = <<>>
  /\ step = "read"

(***************************************************************************)
(* init_data_from_comms                                                    *)
(***************************************************************************)

\* mod_region keeps the hotness, an unsigned 64 bit count, as an int.
ToInt(h) == ((h + IntWidth \div 2) % IntWidth) - IntWidth \div 2

\* The order in which std::sort may leave the regions.
Orders ==
  {o \in SetToSeqs(Ids) : \A i \in 1..Len(o) - 1 :
     ToInt(hotness[o[i]]) <= ToInt(hotness[o[i + 1]])}

GroupOf(i) == (i - 1) \div GroupSize + 1

\* The hottest of a group, which is at least 1.
Clamped_Not(h) == h
Clamped(h) == IF h = 0 THEN 1 ELSE h
HottestOf(mod, g) ==
  Clamped(FoldFunction(LAMBDA h, m : IF h > m THEN h ELSE m, 0,
    [k \in {k \in DOMAIN mod : mod[k].group = g} |-> mod[k].hotness]))

InitData ==
  /\ step = "read"
  /\ \E o \in Orders :
       modRegions' = [i \in Ids |-> [hotness |-> ToInt(hotness[o[i]]),
                                     id |-> o[i], group |-> GroupOf(i)]]
  /\ grpHotness' = [g \in 1..(Len(hotness) + GroupSize - 1) \div GroupSize |->
                      HottestOf(modRegions', g)]
  /\ step' = "limit"
  /\ UNCHANGED <<hotness, percent, limit, place, dstTiers, packet>>

\* printHistogram(grp_hotness, 10): the number of buckets and their width,
\* from the element at nine tenths of the vector.
NinthTenth == grpHotness[(Len(grpHotness) * 90) \div 100 + 1]
NrBuckets == IF 10 > NinthTenth THEN NinthTenth ELSE 10
BucketWidth == NinthTenth \div NrBuckets

(***************************************************************************)
(* set_resource_limit                                                      *)
(***************************************************************************)

Product(t) == Cost(t) * Com(t)
Dearest == CHOOSE t \in TierIdx : \A u \in TierIdx : Product(t) >= Product(u)
Cheapest == CHOOSE t \in TierIdx : \A u \in TierIdx : Product(t) <= Product(u)

MaxTCO == Len(grpHotness) * Cut(GroupCost(Dearest))
MinTCO_OneRegion == Cut(GroupCost(Cheapest))
MinTCO == Len(grpHotness) * Cut(GroupCost(Cheapest))

SetLimit ==
  /\ step = "limit"
  /\ limit' = (MinTCO * 100 + (MaxTCO - MinTCO) * percent) \div 100
  /\ step' = "solve"
  /\ UNCHANGED <<hotness, percent, modRegions, grpHotness, place, dstTiers, packet>>

(***************************************************************************)
(* set_solver_things_and_solve                                             *)
(***************************************************************************)

\* One tier per group, and the cost of all of them within the limit.
Feasible_PerGroup ==
  {p \in [Groups -> TierIdx] : \A g \in Groups : GroupCost(p[g]) <= 10 * limit}
Feasible ==
  {p \in [Groups -> TierIdx] :
     Sum([g \in Groups |-> GroupCost(p[g])]) <= 10 * limit}

Objective(p) == Sum([g \in Groups |-> grpHotness[g] * Latency(p[g])])

Optimal ==
  {p \in Feasible : \A q \in Feasible : Objective(p) <= Objective(q)}

Solve ==
  /\ step = "solve" /\ limit >= MinTCO
  /\ place' \in Optimal
  /\ step' = "packet"
  /\ UNCHANGED <<hotness, percent, modRegions, grpHotness, limit, dstTiers, packet>>

\* The limit is below the cheapest placement, or the solver has no optimal
\* solution in its time: the answer is a failure.
SolveFails ==
  /\ step = "solve"
  /\ step' = "failed"
  /\ UNCHANGED <<hotness, percent, modRegions, grpHotness, limit, place, dstTiers,
                 packet>>

(***************************************************************************)
(* prepare_data_packet                                                     *)
(***************************************************************************)

\* Sorted by id, that is, in the order of the request.
ById_Unsorted == modRegions
ById ==
  LET o == CHOOSE o \in SetToSeqs(DOMAIN modRegions) :
             \A i \in 1..Len(o) - 1 : modRegions[o[i]].id < modRegions[o[i + 1]].id
  IN  [k \in DOMAIN modRegions |-> modRegions[o[k]]]

Fastest == CHOOSE t \in TierIdx : \A u \in TierIdx : Latency(t) <= Latency(u)
Slowest == CHOOSE t \in TierIdx : \A u \in TierIdx : Latency(t) >= Latency(u)

MinPerfLoss == Sum([g \in Groups |-> grpHotness[g] * Latency(Fastest)])
MaxPerfLoss_AtFastest ==
  Sum([g \in {g \in Groups : grpHotness[g] < HotCap} |->
         grpHotness[g] * Latency(Fastest)])
MaxPerfLoss ==
  Sum([g \in {g \in Groups : grpHotness[g] < HotCap} |->
         grpHotness[g] * Latency(Slowest)])

PreparePacket ==
  /\ step = "packet"
  /\ modRegions' = ById
  /\ dstTiers' = [k \in Ids |-> place[modRegions'[k].group]]
  /\ packet' = [final |-> Objective(place),
                other |-> Cut(Sum([g \in Groups |-> GroupCost(place[g])])),
                limit |-> limit,
                minTCO |-> MinTCO, maxTCO |-> MaxTCO,
                minPerf |-> MinPerfLoss, maxPerf |-> MaxPerfLoss]
  /\ step' = "answered"
  /\ UNCHANGED <<hotness, percent, grpHotness, limit, place>>

Finished ==
  /\ step \in {"answered", "failed"}
  /\ UNCHANGED vars

Next == InitData \/ SetLimit \/ Solve \/ SolveFails \/ PreparePacket \/ Finished

Spec == Init /\ [][Next]_vars

(***************************************************************************)
(* Properties.                                                             *)
(***************************************************************************)

\* The lengths of the vectors fit each other, and so do their entries.
TypeOK ==
  /\ hotness \in Requests /\ percent \in Percents
  /\ step \in {"read", "limit", "solve", "packet", "answered", "failed"}
  /\ limit \in Nat
  /\ step # "read" =>
       /\ \A i \in DOMAIN modRegions : modRegions[i].group \in Groups
       /\ DOMAIN modRegions = Ids
       /\ {modRegions[i].id : i \in Ids} = Ids
       /\ \A g \in Groups : grpHotness[g] \in 1..IntWidth \div 2
  /\ step = "answered" => dstTiers \in [Ids -> TierIdx]

\* printHistogram divides by the number of its buckets, and gives up on a
\* width of zero: neither happens, for any request.
HistogramDefined == step # "read" => NrBuckets >= 1 /\ BucketWidth >= 1

\* A request can be met: the limit, made of costs cut per group, leaves room
\* for a placement.  The alternative ends the daemon that asked.
CanBeMet == step = "solve" => limit >= MinTCO /\ Feasible # {}

\* The regions that share a group with region r.
Companions(r) ==
  {s \in Ids : \E i, j \in Ids : /\ modRegions[i].id = r /\ modRegions[j].id = s
                                 /\ modRegions[i].group = modRegions[j].group}
Heat(r) == IF ToInt(hotness[r]) < 1 THEN 1 ELSE ToInt(hotness[r])

\* Grouping, ties, the limit and the way back to the order of the request
\* together keep hotter regions on tiers that are at least as fast: a region
\* is on no slower tier than one whose whole group is colder.
HotterNotSlower ==
  step = "answered" =>
    \A r, s \in Ids :
      (\A c \in Companions(s) : Heat(r) > Heat(c))
        => Latency(dstTiers[r]) <= Latency(dstTiers[s])

\* No region, cold ones included, is on a tier when another is both faster
\* and no dearer.
NoDominatedTier ==
  step = "answered" =>
    \A r \in Ids : ~ \E t \in TierIdx : /\ Latency(t) < Latency(dstTiers[r])
                                        /\ Product(t) <= Product(dstTiers[r])

\* What the regions of the request really cost, a last group that is not full
\* included, is within the limit, and not above what the packet says.
LimitKept ==
  step = "answered" =>
    LET real == Sum([r \in Ids |-> RegionMB * Product(dstTiers[r])])
    IN  real <= 10 * limit /\ Cut(real) <= packet.other

\* The numbers of the packet are between the bounds it gives for them, unless
\* a group is too hot to be counted in the upper one.
PacketInBounds ==
  step = "answered" =>
    /\ packet.minTCO <= packet.other /\ packet.other <= packet.limit
    /\ packet.limit <= packet.maxTCO
    /\ packet.minPerf <= packet.final
    /\ (\A g \in Groups : grpHotness[g] < HotCap)
         => packet.final <= packet.maxPerf

=============================================================================
