--------------------------- MODULE MigrateThreads ---------------------------
(***************************************************************************)
(* The migration engine of the daemon (core/migrate_thread.cpp and the     *)
(* push functions of utils/tier_utils.cpp).                                *)
(*                                                                         *)
(* Once per profile window the window thread asks the mapping logic for a  *)
(* destination tier of every region and then runs two phases, each a       *)
(* spawn/join of `Threads' pusher threads over the vector of regions:      *)
(* first the regions bound for a NUMA node, then those bound for a         *)
(* compressed tier.  A pusher walks its part of the vector and, region by  *)
(* region, tallies a candidate, asks the kernel to migrate the pages,      *)
(* records the new tier, adds to the shared atomic counters, and stops     *)
(* when the page budget is spent or the time of the window is over.        *)
(*                                                                         *)
(* pc[t] names the next step of pusher t; one action is one step between   *)
(* two accesses to shared state.                                           *)
(***************************************************************************)
EXTENDS Tiers, FiniteSets

CONSTANTS
  Threads,          \* push_threads, option -e of the daemon
  MaxPages,         \* MAXPAGES, the page budget of one phase
  PagesPerRegion,   \* pages of one region; every region is REGION_SIZE long
  InitRegions,      \* number of regions when the first window starts
  MaxRegions,       \* bound: regions the address space may grow to
  MaxWindows,       \* bound: windows of a behaviour
  SpaceGrows,       \* the target's address space may grow
  Targets,          \* tiers the mapping logic recommends
  SyscallMayFail,   \* the migrate system call may fail (target exited)
  MoveMayFail,      \* move_pages may fail, wholly or for some pages
  PageoutMayFail    \* reclaim may leave pages where they are

ASSUME MigrateAssumption ==
  /\ Threads \in Nat \ {0}
  /\ MaxPages \in Nat \ {0}
  /\ PagesPerRegion \in Nat \ {0}
  /\ InitRegions \in Nat \ {0}
  /\ MaxRegions \in Nat
  /\ InitRegions <= MaxRegions
  /\ MaxWindows \in Nat
  /\ Targets \subseteq TierIds
  /\ Targets # {}
  /\ SpaceGrows \in BOOLEAN
  /\ SyscallMayFail \in BOOLEAN
  /\ MoveMayFail \in BOOLEAN
  /\ PageoutMayFail \in BOOLEAN

VARIABLES
  nr,               \* region_logic->regions.size()
  curr,             \* curr_virt_tier of each region: what the daemon believes
  dst,              \* dst_virt_tier of each region: the recommendation
  phys,             \* the tiers that really hold pages of the region
  lastReach,        \* thread_last_reach_ctr
  phase,            \* what the window thread is doing
  window,           \* nr_push_window
  alive,            \* is_program_alive
  exited,           \* the process called exit(1)
  late,             \* the time of the window has elapsed
  stop,             \* stop_threads: 0 run, 1 page budget spent, 2 out of time
  counters,         \* the atomic counters of the phase
  pc, idx, want, moved,  \* per thread: step, j, dst_virt_tier, moved_pages
  snap              \* val_candidates of thread 0's report

regionVars == <<nr, curr, dst>>
windowVars == <<lastReach, phase, window, alive, late>>
vars == <<regionVars, phys, windowVars, exited, stop, counters,
          pc, idx, want, moved, snap>>

Pushers == 0..Threads - 1
Regions == 0..nr - 1

\* Return codes of push_a_region (utils/skd_error.h).  -EINVAL is -22 too.
ALREADY_IN_DRAM == -20
ALREADY_IN_OPTANE == -21
ALREADY_IN_ZSWAP == -22
EINVAL == 22

\* The part of the vector a pusher owns: equal chunks, the rest to the last.
ChunkStart(t) == t * (nr \div Threads)
ChunkEnd_Inclusive(t) ==
  IF t = Threads - 1 THEN nr ELSE (t + 1) * (nr \div Threads) + 1
ChunkEnd_NoRest(t) == (t + 1) * (nr \div Threads)
ChunkEnd(t) == IF t = Threads - 1 THEN nr ELSE (t + 1) * (nr \div Threads)

\* Which recommendations a phase serves.
Serves(d) == IF phase = "byte" THEN d < COMPRESSED_STARTS_FROM
                               ELSE d >= COMPRESSED_STARTS_FROM

\* unmoved counts the "PAGES NOT MOVED" warnings; the others are the code's.
ZeroCounters == [candidates |-> 0, regions |-> 0, pages |-> 0, unmoved |-> 0,
                 inDram |-> 0, inOptane |-> 0, inZswap |-> 0]

Init ==
  /\ nr = InitRegions
  /\ curr = [r \in Regions |-> FAST_NODE]
  /\ dst = [r \in Regions |-> NoTier]
  /\ phys = [r \in Regions |-> {FAST_NODE}]
  /\ lastReach = [t \in Pushers |-> 0]
  /\ phase = "idle"
  /\ window = 0
  /\ alive = TRUE
  /\ exited = FALSE
  /\ late = FALSE
  /\ stop = 0
  /\ counters = ZeroCounters
  /\ pc = [t \in Pushers |-> "done"]
  /\ idx = [t \in Pushers |-> 0]
  /\ want = [t \in Pushers |-> NoTier]
  /\ moved = [t \in Pushers |-> 0]
  /\ snap = 0

(***************************************************************************)
(* The window thread.                                                      *)
(***************************************************************************)

\* reset_counters and the spawn of the pushers of a phase.
Spawn(ph) ==
  /\ phase' = ph
  /\ stop' = 0
  /\ counters' = ZeroCounters
  /\ pc' = [t \in Pushers |-> "enter"]
  /\ idx' = [t \in Pushers |-> 0]
  /\ UNCHANGED <<lastReach, exited, want, moved, snap>>

\* fix_regions: the address space has not grown and the vector stays, or it
\* has, at either end, and there is a new vector of regions, perhaps as long
\* as the old one, all of them believed to be in the fast tier.  New memory
\* is first touched there.
FixRegions(grown) ==
  IF ~grown THEN UNCHANGED <<nr, curr, phys>>
  ELSE \E n \in nr..MaxRegions : \E shift \in {0, n - nr} :
         /\ nr' = n
         /\ curr' = [r \in 0..n - 1 |-> FAST_NODE]
         /\ phys' = [r \in 0..n - 1 |->
              IF r - shift \in Regions THEN phys[r - shift] ELSE {FAST_NODE}]

\* dst_virt_tier of the regions when no mapping has set it.
Unmapped(grown) == IF grown THEN [r \in 0..nr' - 1 |-> NoTier] ELSE dst

\* One window up to the start of its first phase.  The mapping gives every
\* region a tier, except when it sees the daemon shutting down: it then
\* returns at once and the regions keep the destinations they had.
StartWindow ==
  /\ ~exited /\ phase = "idle" /\ alive /\ window < MaxWindows
  /\ \E grown \in {FALSE, SpaceGrows} :
       /\ FixRegions(grown)
       /\ \/ /\ dst' \in [0..nr' - 1 -> Targets]
             /\ alive' = alive
          \/ /\ dst' = Unmapped(grown)
             /\ alive' = FALSE
  /\ late' = FALSE
  /\ Spawn("byte")
  /\ UNCHANGED window

\* A window that goes no further: the threshold could not be read, or the
\* mapping failed, which ends the daemon.
AbortWindow ==
  /\ ~exited /\ phase = "idle" /\ alive /\ window < MaxWindows
  /\ \E grown \in {FALSE, SpaceGrows} :
       FixRegions(grown) /\ dst' = Unmapped(grown)
  /\ exited' \in BOOLEAN
  /\ UNCHANGED <<windowVars, stop, counters, pc, idx, want, moved, snap>>

AllJoined == \A t \in Pushers : pc[t] = "done"

\* The first join, and the spawn of the second phase on the same clock.
StartZswapPhase ==
  /\ ~exited /\ phase = "byte" /\ AllJoined
  /\ Spawn("zswap")
  /\ UNCHANGED <<regionVars, phys, window, alive, late>>

EndWindow ==
  /\ ~exited /\ phase = "zswap" /\ AllJoined
  /\ phase' = "idle"
  /\ window' = window + 1
  /\ UNCHANGED <<regionVars, phys, lastReach, alive, exited, late, stop,
                 counters, pc, idx, want, moved, snap>>

(***************************************************************************)
(* A pusher thread.                                                        *)
(***************************************************************************)

At(t, step) == ~exited /\ pc[t] = step
Goto(t, step) == pc' = [pc EXCEPT ![t] = step]

\* `stop_threads || !is_there_time()': the clock is read only if stop is 0,
\* and reading it late sets stop_threads.
MustStop == stop # 0 \/ late
StopAfterCheck == IF stop = 0 /\ late THEN 2 ELSE stop

\* Where the walk starts: in the second phase at the saved index, if it is
\* set and still before the end of the thread's part.
ResumeIndex(t) ==
  LET saved == IF lastReach[t] = 0 THEN ChunkStart(t) ELSE lastReach[t]
  IN  IF saved >= ChunkEnd(t) THEN ChunkStart(t) ELSE saved

Enter(t) ==
  /\ At(t, "enter")
  /\ stop' = StopAfterCheck
  /\ IF MustStop
     THEN /\ Goto(t, "done")
          /\ UNCHANGED <<lastReach, idx>>
     ELSE /\ Goto(t, "pick")
          /\ IF phase = "zswap"
             THEN /\ lastReach' = [lastReach EXCEPT ![t] = ResumeIndex(t)]
                  /\ idx' = [idx EXCEPT ![t] = ResumeIndex(t)]
             ELSE /\ idx' = [idx EXCEPT ![t] = ChunkStart(t)]
                  /\ UNCHANGED lastReach
  /\ UNCHANGED <<regionVars, phys, phase, window, alive, exited, late,
                 counters, want, moved, snap>>

\* The head of the loop: read the destination, skip it or count a candidate.
Pick(t) ==
  /\ At(t, "pick")
  /\ \/ /\ idx[t] >= ChunkEnd(t)
        /\ Goto(t, "report")
        /\ UNCHANGED <<idx, want, counters>>
     \/ /\ idx[t] < ChunkEnd(t) /\ ~Serves(dst[idx[t]])
        /\ idx' = [idx EXCEPT ![t] = @ + 1]
        /\ UNCHANGED <<pc, want, counters>>
     \/ /\ idx[t] < ChunkEnd(t) /\ Serves(dst[idx[t]])
        /\ want' = [want EXCEPT ![t] = dst[idx[t]]]
        /\ counters' = [counters EXCEPT !.candidates = @ + 1]
        /\ Goto(t, "push")
        /\ UNCHANGED idx
  /\ UNCHANGED <<regionVars, phys, windowVars, exited, stop, moved, snap>>

\* push_a_region up to its system call: the early returns.
Push(t) ==
  /\ At(t, "push")
  /\ \/ /\ want[t] < 0
        /\ moved' = [moved EXCEPT ![t] = -EINVAL]
        /\ Goto(t, "tally")
     \/ /\ want[t] >= 0 /\ curr[idx[t]] = want[t]
        /\ moved' = [moved EXCEPT ![t] =
             IF BackingStore(want[t]) = FAST_NODE THEN ALREADY_IN_DRAM
                                                  ELSE ALREADY_IN_OPTANE]
        /\ Goto(t, "tally")
     \/ /\ want[t] >= 0 /\ curr[idx[t]] # want[t]
        /\ moved' = moved
        /\ Goto(t, IF EnableNtier THEN "migrate" ELSE "move")
  /\ UNCHANGED <<regionVars, phys, windowVars, exited, stop, counters,
                 idx, want, snap>>

\* Swapped pages of a region come back to the fast node.
FaultedIn_Dropped(S) == S \ CompressedTiers
FaultedIn(S) == (S \ CompressedTiers) \union
                (IF S \intersect CompressedTiers = {} THEN {} ELSE {FAST_NODE})

\* do_migrate_dst_tier: fault every swapped page in, then page out to the
\* compressed tier if one is named.  The result of the page-out is ignored.
MigrateOutcomes_NoFault(S, d) == IF d \in CompressedTiers THEN {{d}} ELSE {S}
MigrateOutcomes(S, d) ==
  IF d \in CompressedTiers
  THEN {{d}} \union (IF PageoutMayFail
                     THEN {FaultedIn(S), FaultedIn(S) \union {d}} ELSE {})
  ELSE {FaultedIn(S)}

\* The system call.  If it fails, push_a_region returns its -1, which the
\* pusher does not know: it leaves through exit(1).
Migrate(t) ==
  /\ At(t, "migrate")
  /\ \/ /\ SyscallMayFail
        /\ exited' = TRUE
        /\ UNCHANGED <<phys, moved, pc>>
     \/ /\ phys' \in {[phys EXCEPT ![idx[t]] = S] :
                        S \in MigrateOutcomes(phys[idx[t]], want[t])}
        /\ moved' = [moved EXCEPT ![t] = PagesPerRegion]
        /\ Goto(t, IF want[t] \in CompressedTiers THEN "commit" ELSE "move")
        /\ UNCHANGED exited
  /\ UNCHANGED <<regionVars, windowVars, stop, counters, idx, want, snap>>

\* move_to_dram_or_optane.  The node is read from the region once more.  The
\* kernel moves the pages that are present, not those in a zswap pool.  A
\* call that moves all but n pages is reported as such; a call that fails is
\* reported as if it had moved everything (errno is never -22).
Move(t) ==
  /\ At(t, "move")
  /\ LET r == idx[t]
         node == dst[r]
         swapped == phys[r] \intersect CompressedTiers
     IN  \/ /\ phys' = [phys EXCEPT ![r] = {node} \union swapped]
            /\ moved' = [moved EXCEPT ![t] = PagesPerRegion]
         \/ /\ MoveMayFail
            /\ phys' = phys
            /\ moved' = [moved EXCEPT ![t] = PagesPerRegion]
         \/ /\ MoveMayFail
            /\ \E n \in 1..PagesPerRegion :
                 /\ phys' = IF n = PagesPerRegion THEN phys
                            ELSE [phys EXCEPT ![r] = @ \union {node}]
                 /\ moved' = [moved EXCEPT ![t] = PagesPerRegion - n]
  /\ Goto(t, "commit")
  /\ UNCHANGED <<regionVars, windowVars, exited, stop, counters,
                 idx, want, snap>>

\* The end of push_a_region: the daemon believes the region has arrived.
Commit(t) ==
  /\ At(t, "commit")
  /\ curr' = [curr EXCEPT ![idx[t]] = want[t]]
  /\ dst' = [dst EXCEPT ![idx[t]] = NoTier]
  /\ Goto(t, "tally")
  /\ UNCHANGED <<nr, phys, windowVars, exited, stop, counters,
                 idx, want, moved, snap>>

\* The shared counters after a push that returned m.
Tallied_ZeroAsPush(m) ==
  CASE m >= 0 -> [counters EXCEPT !.pages = @ + m]
    [] m = ALREADY_IN_DRAM -> [counters EXCEPT !.inDram = @ + 1]
    [] m = ALREADY_IN_OPTANE -> [counters EXCEPT !.inOptane = @ + 1]
    [] m = ALREADY_IN_ZSWAP -> [counters EXCEPT !.inZswap = @ + 1]
Tallied(m) ==
  CASE m > 0 -> [counters EXCEPT !.pages = @ + m]
    [] m = 0 -> [counters EXCEPT !.unmoved = @ + 1]
    [] m = ALREADY_IN_DRAM -> [counters EXCEPT !.inDram = @ + 1]
    [] m = ALREADY_IN_OPTANE -> [counters EXCEPT !.inOptane = @ + 1]
    [] m = ALREADY_IN_ZSWAP -> [counters EXCEPT !.inZswap = @ + 1]

Tally(t) ==
  /\ At(t, "tally")
  /\ counters' = Tallied(moved[t])
  /\ Goto(t, IF moved[t] > 0 THEN "limit" ELSE "check")
  /\ UNCHANGED <<regionVars, phys, windowVars, exited, stop,
                 idx, want, moved, snap>>

\* Count the region and compare the pages with the budget.
BudgetSpent_Exactly == counters.pages = MaxPages
BudgetSpent == counters.pages >= MaxPages

Limit(t) ==
  /\ At(t, "limit")
  /\ counters' = [counters EXCEPT !.regions = @ + 1]
  /\ stop' = IF BudgetSpent THEN 1 ELSE stop
  /\ Goto(t, "check")
  /\ UNCHANGED <<regionVars, phys, windowVars, exited, idx, want, moved, snap>>

\* The foot of the loop; the variables of its body go out of scope.
Check(t) ==
  /\ At(t, "check")
  /\ stop' = StopAfterCheck
  /\ IF MustStop
     THEN Goto(t, "report") /\ UNCHANGED idx
     ELSE Goto(t, "pick") /\ idx' = [idx EXCEPT ![t] = @ + 1]
  /\ want' = [want EXCEPT ![t] = NoTier]
  /\ moved' = [moved EXCEPT ![t] = 0]
  /\ UNCHANGED <<regionVars, phys, windowVars, exited, counters, snap>>

\* Thread 0 reports: it loads the candidates first, the other counters next.
Report(t) ==
  /\ At(t, "report")
  /\ \/ /\ t = 0
        /\ snap' = counters.candidates
        /\ Goto(t, "print")
     \/ /\ t # 0
        /\ snap' = snap
        /\ Goto(t, "done")
  /\ UNCHANGED <<regionVars, phys, windowVars, exited, stop, counters,
                 idx, want, moved>>

PrintReport(t) ==
  /\ At(t, "print")
  /\ Goto(t, "done")
  /\ snap' = 0
  /\ UNCHANGED <<regionVars, phys, windowVars, exited, stop, counters,
                 idx, want, moved>>

Pusher(t) ==
  \/ Enter(t) \/ Pick(t) \/ Push(t) \/ Migrate(t) \/ Move(t) \/ Commit(t)
  \/ Tally(t) \/ Limit(t) \/ Check(t) \/ Report(t) \/ PrintReport(t)

(***************************************************************************)
(* The surroundings: the clock, and the application under management,      *)
(* whose accesses bring compressed pages back to the fast node.            *)
(***************************************************************************)

Elapse ==
  /\ ~exited /\ phase # "idle" /\ ~late
  /\ late' = TRUE
  /\ UNCHANGED <<regionVars, phys, lastReach, phase, window, alive, exited,
                 stop, counters, pc, idx, want, moved, snap>>

Touch(r) ==
  /\ ~exited
  /\ \E c \in phys[r] \intersect CompressedTiers :
       \E gone \in SUBSET {c} :
         phys' = [phys EXCEPT ![r] = (@ \ gone) \union {FAST_NODE}]
  /\ UNCHANGED <<regionVars, windowVars, exited, stop, counters,
                 pc, idx, want, moved, snap>>

\* The end of the modelled behaviour: exit, shutdown, or the bound on windows.
Finished ==
  /\ exited \/ (phase = "idle" /\ (~alive \/ window = MaxWindows))
  /\ UNCHANGED vars

Next ==
  \/ StartWindow \/ AbortWindow \/ StartZswapPhase \/ EndWindow
  \/ \E t \in Pushers : Pusher(t)
  \/ Elapse
  \/ \E r \in Regions : Touch(r)
  \/ Finished

\* The window thread and the pushers are kernel threads that are always
\* scheduled again; neither the clock nor the application is forced to act.
Fairness ==
  /\ WF_vars(StartZswapPhase \/ EndWindow)
  /\ \A t \in Pushers : WF_vars(Pusher(t))

Spec == Init /\ [][Next]_vars
FairSpec == Spec /\ Fairness

(***************************************************************************)
(* Properties.                                                             *)
(***************************************************************************)

Steps == {"enter", "pick", "push", "migrate", "move", "commit", "tally",
          "limit", "check", "report", "print", "done"}

Returns == {-EINVAL, ALREADY_IN_DRAM, ALREADY_IN_OPTANE, ALREADY_IN_ZSWAP}

\* Type correctness.  A region always has its pages somewhere; that they are
\* never sent to node -1 is MoveHitsRecommendation's to say.
TypeOK ==
  /\ nr \in InitRegions..MaxRegions
  /\ curr \in [Regions -> TierIds]
  /\ dst \in [Regions -> TierIds \union {NoTier}]
  /\ phys \in [Regions -> SUBSET (TierIds \union {NoTier})]
  /\ \A r \in Regions : phys[r] # {}
  /\ lastReach \in [Pushers -> Nat]
  /\ phase \in {"idle", "byte", "zswap"}
  /\ window \in 0..MaxWindows
  /\ alive \in BOOLEAN /\ exited \in BOOLEAN /\ late \in BOOLEAN
  /\ stop \in 0..2
  /\ counters \in [candidates : Nat, regions : Nat, pages : Nat, unmoved : Nat,
                   inDram : Nat, inOptane : Nat, inZswap : Nat]
  /\ pc \in [Pushers -> Steps]
  /\ idx \in [Pushers -> Nat]
  /\ want \in [Pushers -> TierIds \union {NoTier}]
  /\ moved \in [Pushers -> (0..PagesPerRegion) \union Returns]
  /\ snap \in Nat

\* MAXPAGES is checked after the push, and by every thread for itself: a phase
\* may exceed it, but by less than one region per pusher, however the pushers
\* interleave their fetch_add, their load and their reads of stop_threads.
BudgetOvershoot == counters.pages < MaxPages + Threads * PagesPerRegion

InFlight == {t \in Pushers :
               pc[t] \in {"push", "migrate", "move", "commit", "tally", "limit"}}

\* The identity behind the printed `VAL(0?)': every candidate is one pushed
\* region, one region already in place, one warning that nothing moved, or a
\* push still in progress.
CandidatesAccounted ==
  counters.candidates = counters.regions + counters.inDram + counters.inOptane
                        + counters.inZswap + counters.unmoved
                        + Cardinality(InFlight)

\* VAL(0?) as thread 0 prints it: it has loaded the candidates before it loads
\* the rest, so what it reports as missing is never more than the warnings and
\* one push of every other thread.
ReportBound ==
  \A t \in Pushers : pc[t] = "print" =>
    snap - (counters.regions + counters.inDram + counters.inOptane
              + counters.inZswap) <= counters.unmoved + Threads - 1

\* move_to_dram_or_optane reads the destination from the region again, after
\* push_a_region was given it: nobody may have reset it in between, or the
\* pages would be sent to node -1.
MoveHitsRecommendation ==
  \A t \in Pushers : pc[t] = "move" => dst[idx[t]] = want[t]

Pushing(t, r) ==
  idx[t] = r /\ pc[t] \in {"push", "migrate", "move", "commit"}

\* A region is pushed by one thread at a time, in both phases.
PushersDisjoint ==
  \A t, u \in Pushers : \A r \in Regions :
    Pushing(t, r) /\ Pushing(u, r) => t = u

\* Where the daemon believes a region to be is where it is, once its push is
\* over: all its pages are on the node, or they are in the zswap pool and the
\* application may have touched some of them since.
BeliefSound ==
  \A r \in Regions :
    (\A t \in Pushers : ~Pushing(t, r)) =>
      IF curr[r] \in ByteTiers THEN phys[r] = {curr[r]}
                              ELSE phys[r] \subseteq {curr[r], FAST_NODE}

\* A phase that ran to its end without being stopped served every
\* recommendation it was responsible for: the chunks and the resume indices
\* of the pushers cover the vector, also after it has grown.
PhaseCoverage ==
  phase # "idle" /\ alive /\ AllJoined /\ stop = 0 =>
    \A r \in Regions :
      dst[r] # NoTier /\ Serves(dst[r]) => curr[r] = dst[r]

\* What the mapping recommends for a region is carried out in the window,
\* unless the pushers are stopped or the daemon exits.
RecommendationServed ==
  \A r \in 0..MaxRegions - 1 : \A d \in Targets :
    (phase = "byte" /\ alive /\ r < nr /\ dst[r] = d)
      ~> (curr[r] = d \/ stop # 0 \/ exited)

\* `returnes pages moved, or negative on error' (tier_utils.cpp): a push that
\* reports all pages of a region as moved to a node has moved them.
ReportedPagesMoved ==
  \A t \in Pushers :
    (pc[t] = "commit" /\ want[t] \in ByteTiers /\ moved[t] = PagesPerRegion)
      => phys[idx[t]] = {want[t]}

\* `DO not return if the dst node is DRAM or Optane.  Call this to bring the
\* data out of zswap' (tier_utils.cpp): a push to a node that returns early
\* leaves no page of the region in a zswap pool.
BroughtOutOfZswap ==
  \A t \in Pushers :
    (pc[t] = "tally" /\ want[t] \in ByteTiers)
      => phys[idx[t]] \intersect CompressedTiers = {}

=============================================================================
