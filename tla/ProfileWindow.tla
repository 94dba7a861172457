--------------------------- MODULE ProfileWindow ---------------------------
(***************************************************************************)
(* One profile window after the other, as the window thread goes through   *)
(* th_process_events_and_migrate: look at the address space, count the     *)
(* batch of accesses into the regions, have the mapping logic recommend a  *)
(* tier for each, and let the pushers carry some of that out.  The pushers *)
(* themselves are the subject of MigrateThreads, and the policy that asks  *)
(* a server is that of IlpExchange.                                        *)
(*                                                                         *)
(* The target decides what its address space is whenever it is looked at,  *)
(* and which addresses are accessed.                                       *)
(***************************************************************************)
EXTENDS RegionSpace, Mapping, FiniteSets

CONSTANTS
  Policies,         \* the modes the daemon may be started in
  Spaces,           \* bound: the address spaces the target may have
  Batches,          \* bound: the batches of accesses of a window
  MaxSpan,          \* the 500 GB beyond which a batch is taken for an error
  MaxWindows,       \* bound: windows of a behaviour
  Files,            \* what /tmp/comm may hold before the first window
  ScriptMayFail     \* convolve.py may fail

\* /tmp/comm when it is not there, and when it has no line.
Absent == -1
Empty == -2

ASSUME WindowAssumption ==
  /\ Policies \subseteq {"HEMEM", "WATERFALL"} /\ Policies # {}
  /\ \A s \in Spaces : s.lo \in Nat \ {0} /\ s.hi \in Nat /\ s.lo <= s.hi
  /\ Spaces # {}
  /\ Batches \subseteq Seq(Nat)
  /\ MaxSpan \in Nat
  /\ MaxWindows \in Nat
  /\ Files \subseteq Nat \union {Absent, Empty} /\ Files # {}
  /\ ScriptMayFail \in BOOLEAN

VARIABLES
  policy,           \* skd_mode
  space,            \* global_start_addr, global_end_addr
  regions,          \* the vector of regions
  batch,            \* child_addr_vector, until it has been counted
  comm,             \* the threshold in /tmp/comm
  percentile,       \* the element of percentile_val_arr that HotTh selects
  step,             \* what the window thread does next
  window,           \* windows so far
  alive,            \* is_program_alive
  coldFor,          \* history: windows in a row each region has been cold
  matched           \* history: no rebuild or failed script since the last count

vars == <<policy, space, regions, batch, comm, percentile, step, window,
          alive, coldFor, matched>>

Dom == DOMAIN regions
Start(i) == RegionStart(space.lo, i)

\* percentile_val_arr before it ever had an element: it has no memory yet.
\* Once it has, clear() leaves the old value where it was.
Unallocated == -1

Init ==
  /\ policy \in Policies
  /\ space \in Spaces
  /\ regions = [i \in {} |-> 0]
  /\ batch = <<>>
  /\ comm \in Files
  /\ percentile = Unallocated
  /\ step = "init"
  /\ window = 0
  /\ alive = TRUE
  /\ coldFor = [i \in {} |-> 0]
  /\ matched = FALSE

Exit == step' = "exited"

(***************************************************************************)
(* The region logic.                                                       *)
(***************************************************************************)

\* Which old region a new one takes its hotness from: one that lies in it.
Inherits_AtOrAfter(old, new) == old >= new
Inherits(old, new) ==
  old >= new /\ old + RegionSize <= new + RegionSize

\* fill_regions: a new vector.  The hotness of the old regions is read after
\* they have been freed: it is found again (`kept'), or their memory holds a
\* new region, whose hotness is still 0, or a start that lies in no region.
Refill(new) ==
  \E kept \in SUBSET {i \in Dom : regions[i].hotness > 0} :
    LET dom == Filled(new.lo, new.hi)
        \* the new region that the old one is copied to, the first that fits
        to(i) == {j \in dom : /\ Inherits(Start(i), RegionStart(new.lo, j))
                              /\ \A k \in dom : k < j =>
                                   ~Inherits(Start(i), RegionStart(new.lo, k))}
        from(j) == {i \in kept : j \in to(i)}
    IN  /\ regions' = [j \in dom |->
             [curr |-> FAST_NODE, dst |-> NoTier, hotness |->
                IF from(j) = {} THEN 0
                ELSE regions[CHOOSE i \in from(j) :
                               \A k \in from(j) : k <= i].hotness]]
        /\ coldFor' = [j \in dom |-> 0]
        /\ matched' = FALSE
        /\ space' = new

\* get_address_range fails for a process it does not know and for output
\* that is not a number; nobody catches what stoull throws.
RangeFails ==
  /\ step \in {"init", "fix"} /\ window < MaxWindows
  /\ Exit
  /\ UNCHANGED <<policy, space, regions, batch, comm, percentile, window,
                 alive, coldFor, matched>>

\* init_initial_regions, in the first window.  The space that main saw stays
\* if the new one is below a megabyte.
InitRegions ==
  /\ step = "init" /\ window < MaxWindows
  /\ \E s \in Spaces :
       Refill(IF (s.hi - s.lo) \div MegaByte = 0 THEN space ELSE s)
  /\ step' = "fix"
  /\ UNCHANGED <<policy, batch, comm, percentile, window, alive>>

\* fix_regions: the regions are made anew only if the space is longer.  The
\* batch of the window is there by now.
FixRegions ==
  /\ step = "fix" /\ window < MaxWindows
  /\ \E s \in Spaces :
       IF s.hi - s.lo <= space.hi - space.lo
       THEN UNCHANGED <<space, regions, coldFor, matched>>
       ELSE Refill(s)
  /\ batch' \in Batches
  /\ step' = "assign"
  /\ UNCHANGED <<policy, comm, percentile, window, alive>>

Entries == RunLengths(batch, space.lo, space.hi)

\* assign_events_to_regions gives up on a batch with a single entry: neither
\* hotness nor percentiles change, and the mapping goes on with the old ones.
AssignNothing ==
  /\ step = "assign" /\ Len(Entries) = 1
  /\ step' = "map"
  /\ batch' = <<>>
  /\ UNCHANGED <<policy, space, regions, comm, percentile, window, alive,
                 coldFor, matched>>

Counts == Collected(Entries, space.lo, space.hi, Dom)

\* What convolve.py leaves in /tmp/comm; if it fails, an old threshold or the
\* beginning of a file.
ScriptLeaves_ReadFirst(worked) == IF ~worked THEN {comm, Empty} ELSE {comm}
ScriptLeaves(worked) ==
  IF ~worked THEN {comm, Empty}
  ELSE {IF UsesPercentile THEN PercentileOf(HotTh, Counts) ELSE 0}

SpanTooLarge ==
  (Entries[Len(Entries)].addr - Entries[1].addr) \div MegaByte > MaxSpan

\* The daemon ends: the batch spans too much, an entry beyond the vector is
\* dereferenced, or there is no output of convolve.py to open.
AssignFails ==
  /\ step = "assign" /\ Len(Entries) > 1
  /\ \/ SpanTooLarge
     \/ Beyond(Entries, space.lo, space.hi, Dom) # {}
     \/ ScriptMayFail
  /\ Exit
  /\ UNCHANGED <<policy, space, regions, batch, comm, percentile, window,
                 alive, coldFor, matched>>

\* The counts of the batch become the hotness of the regions, and the
\* percentile is the one in /tmp/comm.
AssignEvents ==
  /\ step = "assign" /\ Len(Entries) > 1 /\ ~SpanTooLarge
  /\ \E worked \in {TRUE, ~ScriptMayFail} :
       /\ comm' \in ScriptLeaves(worked) \ {Empty}
       /\ matched' = worked
  /\ percentile' = IF comm' = Absent THEN percentile ELSE comm'
  /\ regions' = [i \in Dom |-> [regions[i] EXCEPT !.hotness = Counts[i]]]
  /\ step' = "map"
  /\ batch' = <<>>
  /\ UNCHANGED <<policy, space, window, alive, coldFor>>

\* /tmp/comm has no line: the window ends here, with the percentiles cleared
\* and the hotness of the window before.
AssignAborts ==
  /\ step = "assign" /\ Len(Entries) > 1 /\ ~SpanTooLarge
  /\ comm' \in ScriptLeaves(~ScriptMayFail) \intersect {Empty}
  /\ step' = "fix"
  /\ window' = window + 1
  /\ batch' = <<>>
  /\ UNCHANGED <<policy, space, regions, percentile, alive, coldFor, matched>>

(***************************************************************************)
(* The mapping logic.                                                      *)
(***************************************************************************)

Threshold == IF UsesPercentile THEN percentile ELSE HotTh

\* Reading an element of a vector that never had memory ends the daemon, and
\* so does HeMem's threshold of zero, a pagemap that cannot be read
\* because the target has exited, or the log of a vector of regions that is
\* empty (print_regions_info).
MapFails ==
  /\ step = "map"
  /\ \/ Threshold = Unallocated
     \/ policy = "HEMEM" /\ HotTh < 1
     \/ policy = "WATERFALL"
     \/ Dom = {}
  /\ Exit
  /\ UNCHANGED <<policy, space, regions, batch, comm, percentile, window,
                 alive, coldFor, matched>>

\* process_regions sets the destination of every region.
Recommend(tier) ==
  regions' = [i \in Dom |-> [regions[i] EXCEPT !.dst = tier[i]]]

Hot(i) == regions[i].hotness >= Threshold

MapHemem ==
  /\ policy = "HEMEM" /\ HotTh >= 1 /\ Threshold # Unallocated
  /\ Recommend([i \in Dom |-> HememTier(regions[i].hotness, Threshold)])
  /\ coldFor' = [i \in Dom |-> IF Hot(i) THEN 0 ELSE coldFor[i] + 1]

MapWaterfall ==
  /\ policy = "WATERFALL" /\ Threshold # Unallocated
  /\ \E noneSwapped \in SUBSET Dom :
       Recommend([i \in Dom |->
                   WaterfallTier(regions[i].hotness, Threshold, regions[i].curr,
                                 regions[i].dst, i \in noneSwapped)])
  /\ coldFor' = [i \in Dom |-> IF Hot(i) THEN 0 ELSE coldFor[i] + 1]

Map ==
  /\ step = "map"
  /\ MapHemem \/ MapWaterfall
  /\ step' = "migrate"
  /\ UNCHANGED <<policy, space, batch, comm, percentile, window, alive, matched>>

\* HeMem sees the daemon shutting down and leaves the destinations alone.
MapShutdown ==
  /\ step = "map" /\ policy = "HEMEM"
  /\ alive' = FALSE
  /\ step' = "migrate"
  /\ UNCHANGED <<policy, space, regions, batch, comm, percentile, window,
                 coldFor, matched>>

\* The two phases of the pushers: a recommendation is carried out, or there
\* was no time for it; nothing happens to a region that is believed to be
\* there already.  See MigrateThreads.
Migrate ==
  /\ step = "migrate"
  /\ \E arrived \in SUBSET {i \in Dom : /\ regions[i].dst # NoTier
                                        /\ regions[i].dst # regions[i].curr} :
       regions' = [i \in Dom |-> IF i \in arrived
                     THEN [regions[i] EXCEPT !.curr = regions[i].dst,
                                             !.dst = NoTier]
                     ELSE regions[i]]
  /\ window' = window + 1
  /\ step' = IF alive THEN "fix" ELSE "exited"
  /\ UNCHANGED <<policy, space, batch, comm, percentile, alive, coldFor, matched>>

\* The end of the modelled behaviour.
Finished ==
  /\ step = "exited" \/ window = MaxWindows
  /\ UNCHANGED vars

Next ==
  \/ RangeFails \/ InitRegions \/ FixRegions
  \/ AssignNothing \/ AssignFails \/ AssignEvents \/ AssignAborts
  \/ MapFails \/ Map \/ MapShutdown
  \/ Migrate
  \/ Finished

Spec == Init /\ [][Next]_vars

(***************************************************************************)
(* Properties.                                                             *)
(***************************************************************************)

\* Type correctness; a mapping that has run has set every destination.
TypeOK ==
  /\ policy \in Policies
  /\ space \in Spaces
  /\ regions \in [Dom -> [curr : TierIds, dst : TierIds \union {NoTier},
                          hotness : Nat]]
  /\ step \notin {"init", "exited"} => Dom = Filled(space.lo, space.hi)
  /\ DOMAIN coldFor = Dom /\ \A i \in Dom : coldFor[i] \in Nat
  /\ comm \in Nat \union {Absent, Empty}
  /\ percentile \in Nat \union {Unallocated}
  /\ step \in {"init", "fix", "assign", "map", "migrate", "exited"}
  /\ window \in 0..MaxWindows
  /\ alive \in BOOLEAN /\ matched \in BOOLEAN
  /\ step = "migrate" /\ alive => \A i \in Dom : regions[i].dst # NoTier

\* The regions tile the address space: every address of it lies in exactly
\* one, whatever the length of the space and however it has grown.
Tiling ==
  step \notin {"init", "exited"} =>
    \A a \in space.lo..space.hi - 1 :
      Cardinality({i \in Dom : a \in Start(i)..Start(i) + RegionSize - 1}) = 1

\* The index of an access is inside the vector of regions, except for an
\* access exactly at the end of a space that is a multiple of the region size.
AssignInBounds ==
  step = "assign" =>
    \A k \in Beyond(Entries, space.lo, space.hi, Dom) :
      /\ Entries[k].addr = space.hi
      /\ (space.hi - space.lo) % RegionSize = 0

\* Sorting, run lengths and index arithmetic together count each access of
\* the batch once, in the region it lies in.
EachAccessCounted ==
  [][AssignEvents => \A i \in Dom : regions'[i].hotness =
       Cardinality({k \in DOMAIN batch :
         batch[k] \in Start(i)..Start(i) + RegionSize - 1
           /\ batch[k] <= space.hi})]_vars

\* When the vector is made anew, hotness stays with the addresses it was
\* counted for, at whichever end the space has grown.
HotnessMovesWithItsRange ==
  [][space' # space => \A j \in DOMAIN regions' : regions'[j].hotness # 0 =>
       \E i \in Dom : /\ Start(i) = RegionStart(space'.lo, j)
                      /\ regions[i].hotness = regions'[j].hotness]_vars

\* Waterfall demotes gradually: no region is sent, nor left after its push,
\* deeper than the number of windows in a row that have found it cold,
\* although windows end without a push, hot regions may not be brought back
\* in time, and the space may be cut anew.
GradualDemotion ==
  policy = "WATERFALL" =>
    \A i \in Dom :
      IdxOf(IF regions[i].dst = NoTier THEN regions[i].curr ELSE regions[i].dst)
        <= coldFor[i]

\* The threshold in use was computed from the hotness it is compared with,
\* also after windows that gave up before or after counting.
ThresholdOfTheseCounts ==
  matched /\ UsesPercentile =>
    percentile = PercentileOf(HotTh, [i \in Dom |-> regions[i].hotness])

\* HeMem recommends the fast tier for no region that the window has found idle:
\* the percentile it compares with is one of the regions that are hot.
IdleIsSlow ==
  step = "migrate" /\ alive /\ policy = "HEMEM" /\ matched /\ UsesPercentile =>
    \A i \in Dom : regions[i].hotness = 0 => regions[i].dst = SlowTierId

\* `HT25: Hotness threshold (25 percentile)' (README.md), and `update the
\* hotness of all the regions' (region_pebs_fixed.cpp): a region as hot as
\* any other reaches a percentile of the hotness and goes to the fast tier.
HottestIsFast ==
  step = "migrate" /\ policy = "HEMEM" /\ matched =>
    \A i \in Dom : (\A j \in Dom : regions[j].hotness <= regions[i].hotness)
      => regions[i].dst = FastTier
=============================================================================
