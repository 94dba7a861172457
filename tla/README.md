# TLA+ models of TierScape

TierScape places the memory of a running process on tiers: a fast NUMA node, a
slow NUMA node and, in a build with `ENABLE_NTIER`, compressed pools (zswap).  A
daemon samples the accesses of the process, once per *profile window* decides
on a tier for every 2 MB region of its address space, and asks a patched kernel
to move the pages.  This directory holds TLA+ models of that system, the TLC
runs that check them, and proofs checked by TLAPS.

    tlc -workers 2 -config MigrateByte.cfg MigrateThreads.tla
    tlapm MigrateThreads_proofs.tla

Paths below are relative to `src/skd_daemon/sk_daemon/` unless they start with
`src/`.

## Inventory

| Component | State it keeps | Operations | What makes it correct |
|---|---|---|---|
| Event pipeline, `tracker_d.cpp` | `addr_vector`, `child_addr_vector`, `myMutex`, `is_program_alive` | consumer thread reads one access per line; window thread copies and clears the vector once per window and has the batch processed; main thread polls the target and takes the daemon down; signal handler | every access read is processed once and in order; no empty batch; shutdown ends and touches nothing another thread uses |
| Region logic, `core/region_logic`, `convolve.py` | the vector `regions` (start, `curr_virt_tier`, `dst_virt_tier`, hotness), `global_start_addr`/`global_end_addr`, `percentile_val_arr`, the files in `/tmp` | `init_initial_regions`, `fix_regions` when the address space grows, `fill_regions`, `assign_events_to_regions` | regions tile the address space; each access goes to its region; hotness stays with its addresses; the threshold belongs to the counts |
| Mapping logic, `core/mapping_logic` | the threshold, the recommendations of the last window | `process_regions` of HeMem and Waterfall (other policies are not constructed by `main`) | every region gets a tier of the table; demotion is gradual |
| ILP client, `core/mapping_logic/mapping_ilp.*` | the connection of a request, retries | starts the server, connects, sends regions and tiers, reads the answer int by int | an answer is adopted by the request it was computed for, or the daemon ends; the window thread is never left waiting |
| Migration engine, `core/migrate_thread.cpp` | `stop_threads`, the atomic counters, `thread_last_reach_ctr`, the clock of the window | `th_process_events_and_migrate`: two phases of pusher threads over the regions | each recommendation served by one thread; budget and time respected; counters that add up |
| Tiers and pushes, `utils/tier_utils.cpp`, `utils/model.h` | tier table | `push_a_region`, `move_to_dram_or_optane`, navigation between tiers | what the daemon believes of a region is where its pages are; failures are reported |
| Kernel calls, `src/linux_patch` | page tables, zswap pools | `do_migrate_dst_tier`, `do_madvise_tiered`, zswap store and load by pool index | pages end in the pool named, and can be read back from it |
| ILP server, `src/ilp_server` | `new_socket`, `dp` and `skd_ilp` of the request at hand; solver threads | read regions and tiers, group, solve with a timeout, answer, clean up | an abandoned solver does not disturb a later request; the answer is optimal for the groups and respects the cost limit |
| zswap trace logger, `utils/process_zswap_trace.cpp` | statistics per pool | parses trace lines | (statistics only) |
| masim, `src/masim_mod`; scripts; plotting | - | workload, set-up and measurement | (not part of the tiering system) |

Interactions: the consumer and the window thread share `addr_vector` under
`myMutex` (its size is also read, and it is cleared at shutdown, without it);
the window thread calls region logic, mapping logic and the migration engine in
turn; the region logic runs `convolve.py` and reads its results from files that
outlive the window and the daemon; the pushers share the regions,
`stop_threads` (a plain int) and the atomics; the pushers call the kernel; the
ILP mapping starts its server and talks to it over a socket, one connection
per window; the server's `main` shares `dp` and `skd_ilp` with its solver
thread; `is_program_alive` is read everywhere.

Behaviours that are hard: the pushers' interleavings and their division of a
vector whose length changes between windows; state kept from one window to the
next (resume indices, `curr_virt_tier`, `dst_virt_tier`) that a rebuild of the
regions makes stale; kernel calls that fail in part; the application touching
pages while they are moved; shutdown at any point; windows that give up half
way and leave the files and recommendations of an earlier one; the ILP server's
timeout racing its solver; either side of a connection going away.  `PROJECT.json` lists each at its line ("hazards").

## Modules

`Tiers` is the tier table: ids, which are NUMA nodes, which are compressed,
and the node that backs each (`utils/tier_config.h`, `utils/model.h`).

`MigrateThreads` (extends `Tiers`) is the migration engine.

| In the model | In the code |
|---|---|
| `nr`, `curr`, `dst` | the vector of regions, `curr_virt_tier`, `dst_virt_tier` |
| `phys[r]` | the tiers that hold pages of region `r` (the kernel's truth) |
| `lastReach`, `stop`, `counters` | `thread_last_reach_ctr`, `stop_threads`, the atomics |
| `late` | `is_there_time()` would return 0 |
| `pc[t]`, `idx`, `want`, `moved` | where pusher `t` is, `j`, `dst_virt_tier`, `moved_pages` |
| `StartWindow`, `AbortWindow`, `StartZswapPhase`, `EndWindow` | `th_process_events_and_migrate` |
| `Enter`, `Pick`, `Tally`, `Limit`, `Check`, `Report`, `PrintReport` | `thread_helper_pusher` |
| `Push`, `Migrate`, `Move`, `Commit` | `push_a_region`, the system call, `move_to_dram_or_optane` |
| `Elapse`, `Touch` | the clock; the application, whose page faults bring compressed pages back |

A pusher's step ends where it accesses state another thread writes, so all
interleavings of the shared accesses are explored.  What is merged into one
step and why it does not matter: `stop_threads || !is_there_time()` is one step
(splitting it only affects which of the two nonzero values of `stop_threads`
remains, and no code distinguishes them but the report); thread 0 loads the
counters other than the candidates in one step; `region_counter.fetch_add` and
the load of `page_counter` are one step.  A window is one step up to the start
of its first phase, since no pusher runs then.  Mapping gives each region any
tier of `Targets`; the policies differ only in which.

`unmoved` is not a counter of the code: it counts the `PAGES NOT MOVED`
warnings, so that the identity behind the printed `VAL(0?)` can be stated.

Left out of this module: addresses (every region is `REGION_SIZE` long, as
`fill_regions` makes them), hotness, the log files, the death of the process by
main's signals (any state of the model may be the last one anyway), and the `ALREADY_SOMEWHERE`
return, which the tier table makes unreachable.

`EventPipeline` is `tracker_d.cpp`: consumer, window and main thread, the
mutex, the polling loop, `pthread_kill` and the interrupt handler.  An access is
its position in the input.  The unlocked `addr_vector.size()` may see either
side of a `push_back` in progress.  `pthread_kill` with SIGUSR1, which has no
handler, and with SIGKILL ends the process unless the thread has returned.  A
malformed line throws an exception that the handler does not catch and ends the
process.  The processing of a batch is one step here and the subject of
`MigrateThreads`.  Signals are taken to be delivered to the main thread.  The
trace logger thread, option parsing and start-up are left out.

`ProfileWindow` is the rest of a window, from the look at the address space to
what the pushers leave behind.  It extends two modules of operators:
`RegionSpace` (cutting the space, run lengths of the sorted batch, index of an
address, convolution and percentile; `std::sort` is defined by what it leaves,
the entry of each rank) and `Mapping` (HeMem's and Waterfall's
choice for one region), which extends `TierInfo` (the sorted vector of tiers,
index against virtual id).

| In the model | In the code |
|---|---|
| `space`, `regions[i]` | `global_start_addr`/`global_end_addr`, the vector (start is computed from the index) |
| `batch`, `comm`, `percentile` | `child_addr_vector`, `/tmp/comm`, the element of `percentile_val_arr` in use |
| `Refill`; `InitRegions`, `FixRegions`, `RangeFails` | `fill_regions`; `init_initial_regions`, `fix_regions`, `get_address_range` |
| `AssignNothing`, `AssignEvents`, `AssignAborts`, `AssignFails` | the ways through `assign_events_to_regions` |
| `Map` (`MapHemem`, `MapWaterfall`), `MapShutdown`, `MapFails` | `process_regions` and its caller |
| `Migrate` | the pushers' phases in `th_process_events_and_migrate`: any part of the recommendations is carried out |
| `coldFor`, `matched` | (history) windows in a row a region was cold; the threshold belongs to the counts |

`AssignNothing` is the early return for a batch with a single entry, which the
caller takes for success; `AssignAborts` is the empty `/tmp/comm`.
`fill_regions` reads the old regions after it has deleted them: each hotness is
found again or is lost, as a choice per region.  (With glibc's allocator it is
in practice lost: the freed memory is reused for the new regions in turn.)
`std::vector::operator[]` on the cleared `percentile_val_arr` yields the old
element, and ends the daemon if there was never one.  `convolve.py`'s floating
point is computed in tenths and hundredths and rounded down where the daemon
converts to an integer.  Waterfall's look at `/proc/<pid>/pagemap` is any
answer, for each region.  The division by `nr_regions/10` in Waterfall feeds a
log statement that is empty in the build and is dropped by the optimiser.
`ScriptMayFail` and `Files` say what `convolve.py` may do and what an earlier
daemon may have left in `/tmp`.

`IlpExchange` is the ILP client and the server's main loop, with crashes.

| In the model | In the code |
|---|---|
| `cpc`, `dst`, `retries`, `next`, `failed` | where `process_regions` is, `dst_virt_tier`, its locals |
| `spc`, `sfor`, `dp`, `placed`, `snext` | where the server's `main` is, `new_socket`, `dp`, `skd_ilp->dst_tiers`, the loop of `send_results` |
| `solver[q]` | the solver thread started for request `q` (it survives the timeout) |
| `backlog`, `sent`, `header`, `down`, `reset` | the listen queue and the connection of the current request |
| `StartDaemon`, `Ask`, `Connect`, `Refused`, `GiveUp`, `Send`, `ReceiveHeader`, `ReceiveRegion`, `Return` | `MAPPING_ILP::start_ilp_server`, `connect_to_server` and `process_regions` |
| `Listen`, `Accept`, `ReadData`, `Wait`, `SendHeader`, `SendRegion`, `Cleanup` | `server.cpp` |
| `SolverPlaces`, `SolverPublishes`, `SolverFails` | the end of `set_solver_things_and_solve`, `prepare_data_packet`, and what `solveWithTimeout` does with the result |
| `DaemonEnds`, `ServerEnds`, `Migrate` | the process ends at any point; recommendations carried out between windows |
| `before`, `solved`, `tears` | (history) recommendations when asking; what was found for the request; torn ints |

A step ends where a process has written something another one may see.  An int
is two halves, so that a read can return part of one.  The request and the
`DataPacket` arrive whole or not at all; a torn request would only garble
hotness values, which are any values here.  Taken from the outside: the sockets
(a connection outlives neither end), the kernel's memory allocator (a deleted
`SKD_ILP` may be the memory of the next one), `start_fresh_ilp_server.sh`
(kills the server there is, starts another).

`IlpService` is the abstract specification: a request is answered by a placement
computed for it, or the daemon ends; regions missing in the answer keep the
recommendation they had.  `IlpExchange` implements it with `status`, `rec` and
`answer` mapped from `cpc`, from `dst` (or `before` while asking) and from
`solved`.

`IlpPlacement` is one request inside the server, sequentially: `InitData`
(`init_data_from_comms`: narrowing to `int`, any order `std::sort` may leave
among equals, groups), the histogram's divisors, `SetLimit`
(`set_resource_limit`), `Solve` or `SolveFails` (any optimal solution, or none
in time: OR-tools is external), `PreparePacket` (`prepare_data_packet`).  Costs
are in tenths, so that all sums are whole; ratios and costs of the code's table
are such that its floating-point sums are exact too.  A solution value that is
neither 0 nor 1 does not occur, so a group without a tier (an exception in the
code) is left out.

`MCProfileWindow`, `MCIlpExchange` and `MCIlpPlacement` give the constants of
these modules their small values.  `MigrateThreads_proofs`,
`EventPipeline_proofs`, `ProfileWindow_proofs`, `IlpExchange_proofs` and
`IlpPlacement_proofs` hold the theorems about the specifications,
`RegionSpace_proofs` those about the operators of `RegionSpace`, and
`SumTheorems` the lemmas on sums, folds and division that the others cite.

## Runs

| Run (cfg) | Setting | Checks |
|---|---|---|
| `migrate_byte` (`MigrateByte`) | stock build, every kernel call may fail, 2 threads, 3 regions, 1 window, fair scheduling | `BudgetOvershoot`, `CandidatesAccounted`, `ReportBound`, `MoveHitsRecommendation`, `RecommendationServed` |
| `migrate_ntier` (`MigrateNtier`) | compressed tier, moves and reclaim succeed, the system call may fail | `TypeOK`, `BeliefSound`, `PushersDisjoint` |
| `migrate_growth` (`MigrateGrowth`) | compressed tier, address space grows from 2 to up to 4 regions | `PhaseCoverage` |
| `event_pipeline` (`EventPipeline`) | 3 accesses, every way to end the daemon | `TypeOK`, `FifoDelivery`, `BatchNotEmpty`, `UnlockedClearIsAlone`, `AccessesProcessed`, `ShutdownCompletes` |
| `profile_window` (`ProfileWindow`) | 3 windows, HeMem and Waterfall, five address spaces that grow at either end, `convolve.py` may fail | `TypeOK`, `Tiling`, `AssignInBounds`, `EachAccessCounted`, `HotnessMovesWithItsRange`, `GradualDemotion`, `IdleIsSlow`, `ThresholdOfTheseCounts` |
| `ilp_exchange` (`IlpExchange`) | 2 regions, 3 requests, 2 daemons, 1 retry, either side may end at any time, fair scheduling | `TypeOK`, `LateSolverAlone`, `ImplementsService`, `Responsive` |
| `ilp_placement` (`IlpPlacement`) | groups of 2, requests of 5 and of 3 regions, five tiers, three limits | `TypeOK`, `HistogramDefined`, `CanBeMet`, `HotterNotSlower`, `NoDominatedTier`, `LimitKept`, `PacketInBounds` |
| `migrate_move_failure`, `migrate_early_return`, `migrate_overlap`, `profile_uniform`, `ilp_torn_read` | see below | each violates one statement the source makes |

Bounds.  Two threads and three regions give chunks of unequal length (one
region, and one plus the rest); with two regions growing to four, chunks change
from one region to two, so that a resume index of the old division lies inside
another chunk of the new one.  Two regions is also enough for a thread to meet a
region it has pushed in the window before.  Two pages per region distinguish
none, some and all pages moved.  The budget of 2 or 3 pages is reached inside a
phase, by one thread or by both; in `migrate_byte` it is 2, so that three full
regions (6 pages) would break the bound `2 + 2 * 2` and a phase can reach 5.  In
`migrate_growth` it is 9, beyond what a phase can push, so that a phase is
stopped only by the clock.  Two windows let one inherit
the state of another; `migrate_byte` has one, since nothing it checks spans two
and liveness is dear.  Three accesses let one be in the batch, one in the
vector and one held by the consumer.

In `profile_window` a region is two addresses long.  The five spaces are empty,
a multiple of the region size or not, and longer by whole regions or less at
the start, the end or both, so that regions are remade in and out of step with
the old ones; the seven batches have one distinct address or several, repeated,
unsorted, at both ends and outside.  Three windows let Waterfall demote twice
after a rebuild, or lose one window to a failed script.  `HotTh` 75 makes the
threshold an interpolated percentile.  (129,015 distinct states.)

In `ilp_exchange` three requests over two daemons give: a request answered
after one that was, one that a timed-out solver of an earlier request could
meet, and a new daemon while the old server still serves.  One retry tells a
server that is late from one that never comes.  Two placements with tiers whose
index is not their id make a mix-up of the two, or of two requests, visible.
`MaxTears` is 0 there: `ilp_torn_read` shows what one torn int does.
(128,075 distinct states.)

In `ilp_placement` a group is 2 regions of 10 MB, which costs the same as the
code's 10 regions of 2 MB.  Five regions leave a last group that is not
full; hotness 0, 1, 4 in every arrangement gives ties across group borders;
three regions with 12 to 17 and ints of 32 values reach the cap of
`get_max_perf_loss` (14) and a hotness that turns negative as an int.  Limits
of 1, 30 and 60 % include ones that only the cheapest tier meets.
(41,823 distinct states.)

Fairness.  The window thread and the pushers are kernel threads: a step they
can take is taken (weak fairness of each).  The mutex is held for bounded
straight-line code.  The clock, the application, input lines, signals and the
end of the target are never forced; nor is the first step of a window, which
waits for events.  In
`ilp_exchange` the window thread's steps of an exchange and the server's main
thread are fair, each as a whole; the timeout may fire whenever the server
waits, and must at last, since `Wait` stays enabled.  The solver need not ever
finish, the server need not ever listen, and neither process need survive.

What the passing runs assume is in their constants.  `BeliefSound` holds only
if move_pages and reclaim succeed and the address space does not grow:
`migrate_move_failure` and `migrate_early_return` show two of the ways it
fails otherwise, and `PageoutMayFail = TRUE` (the kernel ignores the result of
the page-out) is a third.  `LateSolverAlone` and
`ImplementsService` hold because a timed-out answer ends the daemon and the next
daemon replaces the server, abandoned solver included; with `ScriptMayFail =
TRUE` (the script's result is only printed) the old server survives, both fail,
and a late solver can write into a later request's answer.  `ImplementsService`
also assumes that ints arrive whole.

### Disagreements found

* `move_to_dram_or_optane` is documented to return "pages moved, or negative on
  error".  A failing `move_pages` is compared with `errno != -22`, which is
  always true, and reported as a full success (`migrate_move_failure`).
* `push_a_region` is documented not to return early for a destination in DRAM
  or Optane.  It does when `curr_virt_tier` equals the destination, and that
  field is reset to the fast node whenever the regions are rebuilt: compressed
  pages stay compressed (`migrate_early_return`).
* "The last thread handles the rest of the iterations", says the division of the
  vector into chunks, and the second phase resumes in them.  The
  saved index is compared only with the end of the chunk; after growth it may
  lie in a preceding chunk, and two threads push one region
  (`migrate_overlap`).
* `-c 25` is documented as the 25th percentile of hotness, and `convolve.py` as
  updating "the hotness of all the regions".  The percentile is taken of the
  convolved counts, but compared with the raw ones, which the convolution (its
  weights sum to 2.4) raises: five regions accessed alike are all below it and
  are all sent to the slow tier (`profile_uniform`).  What does hold is
  `ThresholdInRange`: some region's convolved count reaches the threshold.
* The answer of the ILP server is to be received in an order that "must be
  maintained".  `read` of an int may return part of it and its result is not
  looked at; the rest is taken for the next region's (`ilp_torn_read`).

## Theorems

`MigrateThreads_proofs` (for any number of threads, regions and windows, any
page budget and region size, with all failures allowed, unless stated):

* `TypeCorrect`, `BudgetBounded`, `CandidatesBalance`, `ReportBounded`,
  `MovesGoWhereRecommended` and `PhaseCovers`.
* `DisjointUnlessGrown`: `PushersDisjoint` in the byte phase always, and in both
  phases if the number of regions is fixed.  `migrate_overlap` shows that the
  condition is needed.
* `BeliefsSound`: `BeliefSound` if the space does not grow and moves and page-outs
  succeed.  `migrate_move_failure` and `migrate_early_return` show two of the
  three conditions to be needed.

The argument.  `TypeInv` adds to the types that a working pusher's index is
inside the vector and that all pushers rest while the window thread changes it;
it is inductive, and everything else rests on it.  The budget is not inductive
by itself: `BudgetInv` bounds the pages by `MaxPages` plus one region for each
pusher in `Over`, the set of those that have added their pages and not yet
compared, and a pusher enters that set only from outside, so it has at most
`Threads` members.  `CandidatesAccounted` is inductive given the types; what
needs care is the cardinality of `InFlight` when one member joins or leaves.
`ReportInv` relates the candidates thread 0 has loaded to the counters that
keep growing after.  `ChunkInv` says where each pusher may be: inside its
chunk, with a recommendation its phase serves; in the byte phase the chunks are
disjoint (a little multiplication, `ChunkFits` and `ChunksDisjoint`), so nobody
else resets a destination between its two reads, and `move` is reached only in
that phase.  For the compressed phase the invariant also needs that resume
indices are not below the chunk's start, which only holds without growth.
`PhaseCovers` needs the opposite half, which growth does not disturb: between
phases a resume index is not beyond the start of the chunk (`ResumeInv`),
because chunks only move up when the vector grows.  `WalkInv` then says
that a recommendation still open lies ahead of the pusher whose chunk
it is in, until the phase is stopped.  `PlaceInv`, for `BeliefsSound`, follows
the pages of a region through `Push`, `Move` and `Commit`, using that two
pushers at one region want the same tier (`SameWant`); a page that the
application touches meanwhile goes from the compressed tier to the fast node,
which the belief allows for.

`EventPipeline_proofs` (for any number of input lines): `PipelineTypeCorrect`
(mutual exclusion included), `BatchesNotEmpty`, `ShutdownAlone`,
`DeliveryInOrder`.  A non-empty size test stays true until the copy because
nobody else removes from the vector, except main at shutdown, which by then has
found the window thread gone (`SizeInv`, `ShutdownInv`); delivery keeps the
concatenation of processed, batch, vector and held access equal to the
input's prefix (`FifoInv`).

`ProfileWindow_proofs` (for any address spaces, batches, size of region and
number of windows, with every failure allowed): `TypeCorrect`, `RegionsTile`,
`IndexInBounds`, `AccessesAreCounted`, `HotnessStays`, `DemotionIsGradual`,
`ThresholdIsOfTheseCounts` and `IdleRegionsAreSlow`.  `DomInv` says that while
the daemon runs the vector is the one `fill_regions` cuts of the space it
believes in; tiling and bounds are arithmetic from there: regions come one after
the other (`StartsApart`), and an address lies in the region whose index is
computed for it (`IndexContains`), which starts inside the space unless the
address is its very end.  A region inherits from one that starts where it
starts, and there is only one such (`SameStart`), so it does not matter which
old hotness the freed memory still shows.  `GradualInv` adds to
`GradualDemotion` that tiers are in the table: one run of Waterfall goes down by
at most one index from where the region is bound for (`WaterfallGoesOneDown`),
and a push does not change where that is.  `TypeInv` adds to the types that a
window in progress is one of `MaxWindows` and that the mapping has given each
region a destination by the time the pushers run; `IdleInv` adds to `IdleIsSlow` that a threshold which belongs to
the counts is at least 1.

`RegionSpace_proofs` has what these need of the operators.  `Sorted` is an
ascending permutation (`SortedIsPermutation`).  The fold of
`sort_count_unique_process_mod` is unrolled into turns (`RunLengthsByTurns`),
and the loop invariant `Counted` holds after each: the finished runs and the
unfinished one count every access seen once, and runs that follow each other
have different addresses.  So a batch that is not rejected as a single run has an
entry below the end of the space, some region is hot, and the percentile, which
lies between the convolved counts of two hot regions, is at least 1 and at most
the higher of them (`ThresholdInRange`).  Taking it over all the counts, as
`convolve.py` also does for its log, would not give this: `IdleIsSlow` is then
violated on the run.

`IlpPlacement_proofs` (for requests of any length and hotness, any groups, tiers
and limits, any order `std::sort` leaves among equals, and any optimal
solution): `TypeCorrect`, `HistogramIsDefined`, `RequestsCanBeMet`,
`NoTierIsDominated`, `HotterIsNotSlower`, `LimitIsKept`, `PacketIsInBounds`.
The invariant `Computed` says that each variable holds what the steps so far
compute from the request, for one of the orders.  The two properties of
the placement are exchange arguments: a group moved to a tier that is faster and
no dearer, or two groups that swap tiers, give a feasible placement that loses
less, against optimality.  `LimitIsKept` sums the regions group by
group (`SumByClasses`): no group has more than `GroupSize` of them.
`RequestsCanBeMet` has the hypothesis `(RegionMB * GroupSize) % 2 = 0`, true of
the code's 2 MB regions in groups of 10 (`src/ilp_server/utils/utils.h` 25-26);
a group of a single 1 MB region could cost more than the limit, since the two
are rounded differently.

`SumTheorems` proves the induction that sums and folds need by an induction over
sets (`NaturalInduction`, `SubsetInduction`: a set of naturals, or of subsets,
closed under the step is everything), which the provers can instantiate, where
the library's theorems with an operator parameter cannot be.

`IlpExchange_proofs` (for any number of regions, requests, daemons and retries,
and any set of placements the solver may find): `ExchangeTypeCorrect`;
`LateSolverIsAlone` if the script does not fail; `ServiceImplemented`, the step
simulation of `IlpService`, if also no read is torn (`MaxTears = 0`).
`ilp_torn_read` shows the second condition to be needed, and the first is what
`start_fresh_ilp_server.sh` is there for.  For `LateSolverAlone`, `LateInv` says
that a connection that is queued or served is the last one and has not been
answered, that an active solver is that request's, and that if the server has
gone on without it, the daemon was sent a failure and will replace the server
before it asks again.  For the refinement, `AnswerInv` adds that the halves on a
connection are those of the solution, beginning with the next region the daemon
reads; that the server, as long as it is sending, has sent all of them up to the
region it is at; that a connection is reset only when the server is down; and
that each region has kept its recommendation or has the one of the solution.
Each action then maps to a step of `IlpService` or leaves its variables alone.

The assumptions are `NtierAssumption`, `MigrateAssumption`,
`PipelineAssumption`, `RegionSizeAssumption`, `MegaByteAssumption`,
`HotThAssumption`, `SlowTierAssumption`, `WindowAssumption`,
`ExchangeAssumption` and `PlacementAssumption`; TLC evaluates them in the runs of
their modules.

Every invariant and action property of the passing runs, and the refinement,
is proved.  Only model-checked is liveness (`RecommendationServed`,
`AccessesProcessed`, `ShutdownCompletes`, `Responsive`), which is out of the
prover's reach, and the violations.

Worth doing next: an abstract specification of the event pipeline (a queue from
reader to window) and of the migration engine (each recommendation is carried
out or given up) with their refinements proved as for `IlpExchange`.

## Not modelled

* zswap pools (`src/linux_patch`): the list of pools, the index in a swap entry
  and pools created again live in a patch whose meaning depends on kernel code
  that is not in the repository.  `MigrateThreads` has the outcome of the system
  call per region.
* The smart region logic and the mapping policies other than HeMem, Waterfall
  and ILP: `main` constructs `REGION_PEBS_FIXED` and those three
  (`tracker_d.cpp` 331-355).
* Per-tier statistics and upward navigation in `utils/model.h`: read only by
  logs, and called only by policies that are not constructed.
* The trace logger thread (statistics nobody reads back), masim (a workload),
  scripts, configuration and plotting (sequential, around the system), option
  parsing, and the OR-tools solver (external).
* `is_process_running`'s use of a stale `errno`: `EventPipeline` lets the poll
  find the target gone at any time.
* `ilp_server`'s `read_fake_data`, which nothing calls.
