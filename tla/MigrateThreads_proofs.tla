----------------------- MODULE MigrateThreads_proofs -----------------------
(***************************************************************************)
(* Proofs about MigrateThreads, for every number of pushers, regions,      *)
(* pages, windows and tiers, with and without kernel failures.             *)
(***************************************************************************)
EXTENDS MigrateThreads, FiniteSetTheorems, TLAPS

(***************************************************************************)
(* Arithmetic of the chunks.                                               *)
(***************************************************************************)

\* Multiplication by a natural number is monotone.
LEMMA MulMono ==
  ASSUME NEW a \in Nat, NEW b \in Nat, NEW q \in Nat, a <= b
  PROVE  a * q <= b * q
  <1>1. PICK d \in Nat : b = a + d
    BY b - a \in Nat
  <1>2. b * q = a * q + d * q /\ d * q >= 0
    BY <1>1
  <1> QED
    BY <1>2

\* The equal parts of the vector do not exceed it.
LEMMA ChunkFits ==
  ASSUME NEW n \in Nat, NEW k \in Nat \ {0}
  PROVE  n \div k \in Nat /\ k * (n \div k) <= n
  OBVIOUS

\* The chunk of a pusher lies within the vector.
LEMMA ChunkInVector ==
  ASSUME nr \in Nat, NEW t \in Pushers
  PROVE  ChunkStart(t) \in Nat /\ ChunkEnd(t) \in Nat /\ ChunkEnd(t) <= nr
  <1> DEFINE q == nr \div Threads
  <1>1. Threads \in Nat \ {0} /\ t \in Nat /\ t + 1 <= Threads
    BY MigrateAssumption DEF Pushers
  <1>2. q \in Nat /\ Threads * q <= nr
    BY <1>1, ChunkFits
  <1> HIDE DEF q
  <1>3. (t + 1) * q <= Threads * q
    BY <1>1, <1>2, MulMono
  <1>4. t * q \in Nat /\ (t + 1) * q \in Nat /\ Threads * q \in Nat
    BY <1>1, <1>2
  <1> QED
    BY <1>1, <1>2, <1>3, <1>4 DEF ChunkStart, ChunkEnd, q

(***************************************************************************)
(* Type correctness.  The type of the region vectors rests on the pushers  *)
(* staying inside the vector, and the vector on growing only when no       *)
(* pusher runs: PushersInRange.                                            *)
(***************************************************************************)

RegionTypes ==
  /\ nr \in InitRegions..MaxRegions
  /\ curr \in [Regions -> TierIds]
  /\ dst \in [Regions -> TierIds \union {NoTier}]
  /\ phys \in [Regions -> SUBSET (TierIds \union {NoTier})]
  /\ \A r \in Regions : phys[r] # {}

CounterType == [candidates : Nat, regions : Nat, pages : Nat, unmoved : Nat,
                inDram : Nat, inOptane : Nat, inZswap : Nat]

WindowTypes ==
  /\ lastReach \in [Pushers -> Nat]
  /\ phase \in {"idle", "byte", "zswap"}
  /\ window \in 0..MaxWindows
  /\ alive \in BOOLEAN /\ exited \in BOOLEAN /\ late \in BOOLEAN
  /\ stop \in 0..2
  /\ counters \in CounterType
  /\ snap \in Nat

ThreadTypes ==
  /\ pc \in [Pushers -> Steps]
  /\ idx \in [Pushers -> Nat]
  /\ want \in [Pushers -> TierIds \union {NoTier}]
  /\ moved \in [Pushers -> (0..PagesPerRegion) \union Returns]

Working == {"push", "migrate", "move", "commit", "tally", "limit", "check"}

PushersInRange ==
  /\ phase = "idle" => AllJoined
  /\ \A t \in Pushers : pc[t] \in Working => idx[t] \in Regions
  /\ \A t \in Pushers :
       pc[t] \in {"migrate", "move", "commit"} => want[t] \in TierIds
  /\ phase # "idle" => window < MaxWindows

TypeInv == RegionTypes /\ WindowTypes /\ ThreadTypes /\ PushersInRange

\* The type invariant by parts.
LEMMA TypeParts == TypeOK <=> RegionTypes /\ WindowTypes /\ ThreadTypes
  BY DEF TypeOK, RegionTypes, WindowTypes, ThreadTypes, CounterType

\* The tier table: ids are natural numbers, NoTier is none of them.
LEMMA TierFacts ==
  /\ TierIds \subseteq Nat
  /\ FAST_NODE \in TierIds
  /\ CompressedTiers \subseteq TierIds
  /\ NoTier \notin TierIds
  /\ NoTier < COMPRESSED_STARTS_FROM
  BY NtierAssumption DEF TierIds, CompressedTiers, ByteTiers, FAST_NODE, SLOW_NODE,
     NoTier, COMPRESSED_TIERS_BASE, COMPRESSED_STARTS_FROM

\* A phase starts with counters at zero and every pusher at its entry.
LEMMA SpawnTypes ==
  ASSUME NEW ph \in {"byte", "zswap"}, Spawn(ph), WindowTypes, ThreadTypes
  PROVE  /\ phase' = ph /\ stop' \in 0..2 /\ counters' \in CounterType
         /\ ThreadTypes' /\ \A t \in Pushers : pc'[t] = "enter"
  <1>1. ZeroCounters \in CounterType
    BY DEF ZeroCounters, CounterType
  <1>2. pc' = [t \in Pushers |-> "enter"] /\ "enter" \in Steps
    BY DEF Spawn, Steps
  <1>3. pc' \in [Pushers -> Steps] /\ \A t \in Pushers : pc'[t] = "enter"
    BY <1>2
  <1> QED
    BY <1>1, <1>3 DEF Spawn, ThreadTypes, Pushers

\* A started daemon is well typed, its pushers at rest.
LEMMA TypeInvInit == Init => TypeInv
  <1> SUFFICES ASSUME Init
               PROVE  TypeInv
    OBVIOUS
  <1> USE DEF Init
  <1>1. RegionTypes
    BY MigrateAssumption, TierFacts DEF RegionTypes, Regions
  <1>2. WindowTypes
    <2>1. ZeroCounters \in CounterType
      BY DEF ZeroCounters, CounterType
    <2>2. 0 \in 0..MaxWindows /\ [t \in Pushers |-> 0] \in [Pushers -> Nat]
      BY MigrateAssumption
    <2>3. phase \in {"idle", "byte", "zswap"} /\ stop \in 0..2 /\ snap \in Nat
      OBVIOUS
    <2>4. alive \in BOOLEAN /\ exited \in BOOLEAN /\ late \in BOOLEAN
      OBVIOUS
    <2>5. lastReach \in [Pushers -> Nat] /\ window \in 0..MaxWindows
      BY <2>2
    <2>6. counters \in CounterType
      BY <2>1
    <2> QED
      BY <2>3, <2>4, <2>5, <2>6 DEF WindowTypes
  <1>3. ThreadTypes
    BY MigrateAssumption DEF ThreadTypes, Steps
  <1>4. PushersInRange
    BY DEF PushersInRange, AllJoined, Working
  <1> QED
    BY <1>1, <1>2, <1>3, <1>4 DEF TypeInv

\* What the counters hold after a tally stays of their type.
LEMMA TalliedType ==
  ASSUME WindowTypes, ThreadTypes, NEW t \in Pushers
  PROVE  Tallied(moved[t]) \in CounterType
  <1>1. moved[t] \in (0..PagesPerRegion) \union Returns
    BY DEF ThreadTypes
  <1>2. moved[t] \in Int /\ (moved[t] \in Nat \/ moved[t] \in Returns)
    BY <1>1, MigrateAssumption
    DEF Returns, EINVAL, ALREADY_IN_DRAM, ALREADY_IN_OPTANE, ALREADY_IN_ZSWAP
  <1> QED
    BY <1>2 DEF Tallied, WindowTypes, CounterType, Returns, EINVAL,
       ALREADY_IN_DRAM, ALREADY_IN_OPTANE, ALREADY_IN_ZSWAP

\* A pusher that moves to a step of the program keeps pc of its type.
LEMMA GotoType ==
  ASSUME NEW t \in Pushers, NEW s \in Steps, ThreadTypes, Goto(t, s)
  PROVE  /\ pc' \in [Pushers -> Steps]
         /\ pc'[t] = s
         /\ \A u \in Pushers : u # t => pc'[u] = pc[u]
  BY DEF ThreadTypes, Goto

\* A running pusher means that the window thread is in a phase.
LEMMA RunningPhase ==
  ASSUME PushersInRange, NEW t \in Pushers, pc[t] # "done"
  PROVE  phase # "idle"
  BY DEF PushersInRange, AllJoined

\* A new vector of regions is well typed.
LEMMA FixRegionsTypes ==
  ASSUME RegionTypes, NEW grown \in {FALSE, SpaceGrows}, FixRegions(grown)
  PROVE  /\ nr' \in InitRegions..MaxRegions /\ nr' \in Nat
         /\ curr' \in [Regions' -> TierIds]
         /\ phys' \in [Regions' -> SUBSET (TierIds \union {NoTier})]
         /\ \A r \in Regions' : phys'[r] # {}
         /\ ~grown => nr' = nr
  <1>1. CASE ~grown
    BY <1>1, MigrateAssumption DEF FixRegions, RegionTypes, Regions
  <1>2. CASE grown
    <2>1. PICK n \in nr..MaxRegions : \E shift \in {0, n - nr} :
            /\ nr' = n
            /\ curr' = [r \in 0..n - 1 |-> FAST_NODE]
            /\ phys' = [r \in 0..n - 1 |->
                 IF r - shift \in Regions THEN phys[r - shift] ELSE {FAST_NODE}]
      BY <1>2 DEF FixRegions
    <2>2. PICK shift \in {0, n - nr} :
            /\ nr' = n
            /\ curr' = [r \in 0..n - 1 |-> FAST_NODE]
            /\ phys' = [r \in 0..n - 1 |->
                 IF r - shift \in Regions THEN phys[r - shift] ELSE {FAST_NODE}]
      BY <2>1
    <2>3. nr' \in InitRegions..MaxRegions /\ nr' \in Nat /\ Regions' = 0..n - 1
      BY <2>2, MigrateAssumption DEF RegionTypes, Regions
    <2>4. \A r \in Regions' : /\ phys'[r] \in SUBSET (TierIds \union {NoTier})
                              /\ phys'[r] # {}
      BY <2>2, <2>3, TierFacts DEF RegionTypes
    <2> QED
      BY <1>2, <2>2, <2>3, <2>4, TierFacts
  <1> QED
    BY <1>1, <1>2

\* The window thread keeps the types: it resizes the vector, and sends the
\* pushers off, only when none is running.
LEMMA WindowThreadTypes ==
  ASSUME TypeInv,
         StartWindow \/ AbortWindow \/ StartZswapPhase \/ EndWindow
  PROVE  TypeInv'
  <1> USE DEF TypeInv
  <1>1. CASE StartWindow
    <2>1. PICK grown \in {FALSE, SpaceGrows} :
            /\ FixRegions(grown)
            /\ \/ dst' \in [0..nr' - 1 -> Targets] /\ alive' = alive
               \/ /\ dst' = IF grown THEN [r \in 0..nr' - 1 |-> NoTier] ELSE dst
                  /\ alive' = FALSE
      BY <1>1 DEF StartWindow, Unmapped
    <2>2. /\ nr' \in InitRegions..MaxRegions /\ nr' \in Nat
          /\ curr' \in [Regions' -> TierIds]
          /\ phys' \in [Regions' -> SUBSET (TierIds \union {NoTier})]
          /\ \A r \in Regions' : phys'[r] # {}
          /\ ~grown => nr' = nr
      BY <2>1, FixRegionsTypes
    <2>3. dst' \in [Regions' -> TierIds \union {NoTier}]
      BY <2>1, <2>2, MigrateAssumption DEF RegionTypes, Regions
    <2>4. RegionTypes'
      BY <2>2, <2>3 DEF RegionTypes
    <2>5. Spawn("byte") /\ late' = FALSE /\ window' = window
      BY <1>1 DEF StartWindow
    <2>6. WindowTypes'
      BY <2>1, <2>5, SpawnTypes DEF WindowTypes, Spawn, Pushers
    <2>7. ThreadTypes'
      BY <2>5, SpawnTypes
    <2>8. PushersInRange'
      BY <1>1, <2>5, SpawnTypes DEF StartWindow, PushersInRange, Working, Pushers
    <2> QED
      BY <2>4, <2>6, <2>7, <2>8
  <1>2. CASE StartZswapPhase
    <2>1. Spawn("zswap") /\ UNCHANGED <<regionVars, phys, window, alive, late>>
      BY <1>2 DEF StartZswapPhase
    <2>2. RegionTypes'
      BY <2>1 DEF RegionTypes, Regions, regionVars
    <2>3. WindowTypes'
      BY <2>1, SpawnTypes DEF WindowTypes, Spawn, Pushers
    <2>4. ThreadTypes'
      BY <2>1, SpawnTypes
    <2>5. PushersInRange'
      BY <1>2, <2>1, SpawnTypes
      DEF StartZswapPhase, PushersInRange, Working, Pushers
    <2> QED
      BY <2>2, <2>3, <2>4, <2>5
  <1>3. CASE EndWindow
    <2>1. RegionTypes'
      BY <1>3 DEF EndWindow, RegionTypes, Regions, regionVars
    <2>2. window' \in 0..MaxWindows
      BY <1>3, MigrateAssumption DEF EndWindow, PushersInRange, WindowTypes
    <2>3. WindowTypes'
      BY <1>3, <2>2 DEF EndWindow, WindowTypes, Pushers
    <2>4. ThreadTypes'
      BY <1>3 DEF EndWindow, ThreadTypes, Pushers
    <2>5. PushersInRange'
      BY <1>3 DEF EndWindow, PushersInRange, AllJoined, regionVars, Regions, Pushers
    <2> QED
      BY <2>1, <2>3, <2>4, <2>5
  <1>4. CASE AbortWindow
    <2>1. PICK grown \in {FALSE, SpaceGrows} :
            /\ FixRegions(grown)
            /\ dst' = IF grown THEN [r \in 0..nr' - 1 |-> NoTier] ELSE dst
      BY <1>4 DEF AbortWindow, Unmapped
    <2>2. RegionTypes'
      BY <2>1, FixRegionsTypes, MigrateAssumption DEF RegionTypes, Regions
    <2>3. WindowTypes'
      BY <1>4 DEF AbortWindow, WindowTypes, windowVars, Pushers
    <2>4. ThreadTypes'
      BY <1>4 DEF AbortWindow, ThreadTypes, Pushers
    <2>5. PushersInRange'
      BY <1>4 DEF AbortWindow, PushersInRange, AllJoined, Working, windowVars, Pushers
    <2> QED
      BY <2>2, <2>3, <2>4, <2>5
  <1> QED
    BY <1>1, <1>2, <1>3, <1>4

\* So does every step of a pusher.
LEMMA PusherTypes ==
  ASSUME TypeInv, NEW t \in Pushers, Pusher(t)
  PROVE  TypeInv'
  <1> USE DEF TypeInv
  <1>0. /\ pc \in [Pushers -> Steps] /\ idx \in [Pushers -> Nat]
        /\ want \in [Pushers -> TierIds \union {NoTier}]
        /\ moved \in [Pushers -> (0..PagesPerRegion) \union Returns]
        /\ nr \in Nat
    BY MigrateAssumption DEF ThreadTypes, RegionTypes
  \* What a step of t that changes only its own registers has to show.
  <1>a. ASSUME UNCHANGED <<nr, phase, window>>, pc[t] # "done",
               \A u \in Pushers : u # t =>
                 pc'[u] = pc[u] /\ idx'[u] = idx[u] /\ want'[u] = want[u],
               pc'[t] \in Working => idx'[t] \in Regions,
               pc'[t] \in {"migrate", "move", "commit"} => want'[t] \in TierIds
        PROVE  PushersInRange'
    BY <1>a, RunningPhase DEF PushersInRange, AllJoined, Regions, Pushers
  <1>1. CASE Enter(t)
    <2>1. RegionTypes'
      BY <1>1 DEF Enter, RegionTypes, Regions, regionVars
    <2>2. ResumeIndex(t) \in Nat /\ ChunkStart(t) \in Nat
      BY <1>0, ChunkInVector DEF ResumeIndex, WindowTypes
    <2>3. WindowTypes'
      BY <1>1, <2>2 DEF Enter, WindowTypes, StopAfterCheck, Pushers
    <2>4. PICK s \in {"done", "pick"} : Goto(t, s)
      BY <1>1 DEF Enter
    <2>5. s \in Steps /\ s \notin Working
      BY <2>4 DEF Steps, Working
    <2>6. ThreadTypes'
      BY <1>0, <1>1, <2>2, <2>4, <2>5, GotoType DEF Enter, ThreadTypes, Pushers
    <2>7. PushersInRange'
      BY <1>0, <1>a, <1>1, <2>4, <2>5, GotoType DEF Enter, At, regionVars
    <2> QED
      BY <2>1, <2>3, <2>6, <2>7
  <1>2. CASE Pick(t)
    <2>1. RegionTypes'
      BY <1>2 DEF Pick, RegionTypes, Regions, regionVars
    <2>2. WindowTypes'
      BY <1>2 DEF Pick, WindowTypes, CounterType, Pushers, windowVars
    <2>3. CASE idx[t] >= ChunkEnd(t)
      <3>1. Goto(t, "report") /\ UNCHANGED <<idx, want, moved>> /\ "report" \in Steps
        BY <1>0, <1>2, <2>3, ChunkInVector DEF Pick, Steps
      <3>2. ThreadTypes'
        BY <1>0, <3>1, GotoType DEF ThreadTypes, Pushers
      <3>3. PushersInRange'
        BY <1>0, <1>a, <1>2, <3>1, GotoType DEF Pick, At, Working, regionVars, windowVars
      <3> QED
        BY <2>1, <2>2, <3>2, <3>3
    <2>4. CASE idx[t] < ChunkEnd(t) /\ ~Serves(dst[idx[t]])
      <3>1. /\ idx' = [idx EXCEPT ![t] = @ + 1]
            /\ UNCHANGED <<pc, want, moved>> /\ pc[t] = "pick"
        BY <1>0, <1>2, <2>4, ChunkInVector DEF Pick, At
      <3>2. ThreadTypes'
        BY <1>0, <3>1 DEF ThreadTypes, Pushers
      <3>3. PushersInRange'
        BY <1>0, <1>a, <1>2, <3>1 DEF Pick, Working, regionVars, windowVars
      <3> QED
        BY <2>1, <2>2, <3>2, <3>3
    <2>5. CASE idx[t] < ChunkEnd(t) /\ Serves(dst[idx[t]])
      <3>1. /\ want' = [want EXCEPT ![t] = dst[idx[t]]] /\ Goto(t, "push")
            /\ UNCHANGED <<idx, moved>> /\ "push" \in Steps /\ pc[t] = "pick"
        BY <1>0, <1>2, <2>5, ChunkInVector DEF Pick, At, Steps
      <3>2. idx[t] \in Regions
        BY <1>0, <2>5, ChunkInVector DEF Regions
      <3>3. dst[idx[t]] \in TierIds \union {NoTier}
        BY <3>2 DEF RegionTypes
      <3>4. ThreadTypes'
        BY <1>0, <3>1, <3>3, GotoType DEF ThreadTypes, Pushers
      <3>5. PushersInRange'
        BY <1>0, <1>a, <1>2, <3>1, <3>2, GotoType DEF Pick, regionVars, windowVars
      <3> QED
        BY <2>1, <2>2, <3>4, <3>5
    <2> QED
      BY <1>2, <2>3, <2>4, <2>5 DEF Pick
  <1>3. CASE Push(t)
    <2>1. RegionTypes'
      BY <1>3 DEF Push, RegionTypes, Regions, regionVars
    <2>2. WindowTypes'
      BY <1>3 DEF Push, WindowTypes, Pushers, windowVars
    <2>3. PICK s \in {"tally", "migrate", "move"} :
            Goto(t, s) /\ (s # "tally" => want[t] >= 0)
      BY <1>3 DEF Push
    <2>4. s \in Steps /\ UNCHANGED <<idx, want>> /\ pc[t] = "push"
      BY <1>3, <2>3 DEF Push, At, Steps
    <2>5. moved' \in [Pushers -> (0..PagesPerRegion) \union Returns]
      <3>1. -EINVAL \in Returns /\ ALREADY_IN_DRAM \in Returns /\ ALREADY_IN_OPTANE \in Returns
        BY DEF Returns
      <3> QED
        BY <1>0, <1>3, <3>1 DEF Push
    <2>6. ThreadTypes'
      BY <1>0, <2>3, <2>4, <2>5, GotoType DEF ThreadTypes, Pushers
    <2>7. s # "tally" => want[t] \in TierIds
      BY <1>0, <2>3 DEF NoTier
    <2>8. idx[t] \in Regions
      BY <2>4 DEF PushersInRange, Working
    <2>9. PushersInRange'
      BY <1>0, <1>a, <1>3, <2>3, <2>4, <2>7, <2>8, GotoType
      DEF Push, regionVars, windowVars
    <2> QED
      BY <2>1, <2>2, <2>6, <2>9
  <1>4. CASE Migrate(t)
    <2>1. PICK s \in {"migrate", "commit", "move"} : Goto(t, s)
      BY <1>0, <1>4 DEF Migrate, Goto, At
    <2>2. /\ s \in Steps /\ pc[t] = "migrate" /\ UNCHANGED <<idx, want>>
          /\ idx[t] \in Regions /\ want[t] \in TierIds
      BY <1>4, <2>1 DEF Migrate, At, Steps, PushersInRange, Working
    <2>3. \A S \in MigrateOutcomes(phys[idx[t]], want[t]) :
            S \in SUBSET (TierIds \union {NoTier}) /\ S # {}
      <3>1. /\ phys[idx[t]] \in SUBSET (TierIds \union {NoTier})
            /\ phys[idx[t]] # {}
        BY <2>2 DEF RegionTypes
      <3>2. /\ FaultedIn(phys[idx[t]]) \in SUBSET (TierIds \union {NoTier})
            /\ FaultedIn(phys[idx[t]]) # {}
        BY <3>1, TierFacts DEF FaultedIn
      <3> QED
        BY <2>2, <3>2 DEF MigrateOutcomes
    <2>4. RegionTypes'
      <3>1. UNCHANGED <<nr, curr, dst>>
        BY <1>4 DEF Migrate, regionVars
      <3>2. CASE phys' = phys
        BY <3>1, <3>2 DEF RegionTypes, Regions
      <3>3. ASSUME NEW S \in MigrateOutcomes(phys[idx[t]], want[t]),
                   phys' = [phys EXCEPT ![idx[t]] = S]
            PROVE  RegionTypes'
        BY <2>3, <3>1, <3>3 DEF RegionTypes, Regions
      <3> QED
        BY <1>4, <3>2, <3>3 DEF Migrate
    <2>5. WindowTypes'
      BY <1>4 DEF Migrate, WindowTypes, Pushers, windowVars
    <2>6. moved' \in [Pushers -> (0..PagesPerRegion) \union Returns]
      BY <1>0, <1>4, MigrateAssumption DEF Migrate
    <2>7. ThreadTypes'
      BY <1>0, <2>1, <2>2, <2>6, GotoType DEF ThreadTypes, Pushers
    <2>8. PushersInRange'
      BY <1>0, <1>a, <1>4, <2>1, <2>2, GotoType DEF Migrate, regionVars, windowVars
    <2> QED
      BY <2>4, <2>5, <2>7, <2>8
  <1>5. CASE Move(t)
    <2>1. /\ Goto(t, "commit") /\ "commit" \in Steps /\ pc[t] = "move"
          /\ UNCHANGED <<idx, want, nr, curr, dst>>
      BY <1>5 DEF Move, At, Steps, regionVars
    <2>2. idx[t] \in Regions /\ want[t] \in TierIds
      BY <2>1 DEF PushersInRange, Working
    <2>3. /\ dst[idx[t]] \in TierIds \union {NoTier}
          /\ phys[idx[t]] \in SUBSET (TierIds \union {NoTier})
      BY <2>2 DEF RegionTypes
    <2>4. \/ phys' = phys
          \/ \E S \in SUBSET (TierIds \union {NoTier}) :
               S # {} /\ phys' = [phys EXCEPT ![idx[t]] = S]
      <3>1. /\ {dst[idx[t]]} \union (phys[idx[t]] \intersect CompressedTiers)
                 \in SUBSET (TierIds \union {NoTier})
            /\ phys[idx[t]] \union {dst[idx[t]]} \in SUBSET (TierIds \union {NoTier})
        BY <2>3
      <3>2. \/ phys' = [phys EXCEPT ![idx[t]] =
                          {dst[idx[t]]} \union (phys[idx[t]] \intersect CompressedTiers)]
            \/ phys' = phys
            \/ phys' = [phys EXCEPT ![idx[t]] = phys[idx[t]] \union {dst[idx[t]]}]
        BY <1>5 DEF Move
      <3> QED
        BY <3>1, <3>2
    <2>5. RegionTypes'
      BY <2>1, <2>4 DEF RegionTypes, Regions
    <2>6. WindowTypes'
      BY <1>5 DEF Move, WindowTypes, Pushers, windowVars
    <2>7. moved' \in [Pushers -> (0..PagesPerRegion) \union Returns]
      BY <1>0, <1>5, MigrateAssumption DEF Move
    <2>8. ThreadTypes'
      BY <1>0, <2>1, <2>7, GotoType DEF ThreadTypes, Pushers
    <2>9. PushersInRange'
      BY <1>0, <1>a, <1>5, <2>1, <2>2, GotoType DEF Move, windowVars
    <2> QED
      BY <2>5, <2>6, <2>8, <2>9
  <1>6. CASE Commit(t)
    <2>1. /\ Goto(t, "tally") /\ "tally" \in Steps /\ pc[t] = "commit"
          /\ UNCHANGED <<idx, want, moved, nr, phys>>
          /\ idx[t] \in Regions /\ want[t] \in TierIds
      BY <1>6 DEF Commit, At, Steps, PushersInRange, Working
    <2>2. RegionTypes'
      BY <1>6, <2>1 DEF Commit, RegionTypes, Regions
    <2>3. WindowTypes'
      BY <1>6 DEF Commit, WindowTypes, Pushers, windowVars
    <2>4. ThreadTypes'
      BY <1>0, <2>1, GotoType DEF ThreadTypes, Pushers
    <2>5. PushersInRange'
      BY <1>0, <1>a, <1>6, <2>1, GotoType DEF Commit, windowVars
    <2> QED
      BY <2>2, <2>3, <2>4, <2>5
  <1>7. CASE Tally(t)
    <2>1. PICK s \in {"limit", "check"} : Goto(t, s)
      BY <1>7 DEF Tally
    <2>2. /\ s \in Steps /\ pc[t] = "tally" /\ UNCHANGED <<idx, want, moved>>
          /\ idx[t] \in Regions
      BY <1>7, <2>1 DEF Tally, At, Steps, PushersInRange, Working
    <2>3. RegionTypes'
      BY <1>7 DEF Tally, RegionTypes, Regions, regionVars
    <2>4. WindowTypes'
      BY <1>7, TalliedType DEF Tally, WindowTypes, Pushers, windowVars
    <2>5. ThreadTypes'
      BY <1>0, <2>1, <2>2, GotoType DEF ThreadTypes, Pushers
    <2>6. PushersInRange'
      BY <1>0, <1>a, <1>7, <2>1, <2>2, GotoType DEF Tally, regionVars, windowVars
    <2> QED
      BY <2>3, <2>4, <2>5, <2>6
  <1>8. CASE Limit(t)
    <2>1. /\ Goto(t, "check") /\ "check" \in Steps /\ pc[t] = "limit"
          /\ UNCHANGED <<idx, want, moved>> /\ idx[t] \in Regions
      BY <1>8 DEF Limit, At, Steps, PushersInRange, Working
    <2>2. RegionTypes'
      BY <1>8 DEF Limit, RegionTypes, Regions, regionVars
    <2>3. WindowTypes'
      BY <1>8 DEF Limit, WindowTypes, CounterType, Pushers, windowVars
    <2>4. ThreadTypes'
      BY <1>0, <2>1, GotoType DEF ThreadTypes, Pushers
    <2>5. PushersInRange'
      BY <1>0, <1>a, <1>8, <2>1, GotoType DEF Limit, regionVars, windowVars
    <2> QED
      BY <2>2, <2>3, <2>4, <2>5
  <1>9. CASE Check(t)
    <2>1. PICK s \in {"report", "pick"} : Goto(t, s)
      BY <1>9 DEF Check
    <2>2. s \in Steps /\ s \notin Working /\ pc[t] = "check"
      BY <1>9, <2>1 DEF Check, At, Steps, Working
    <2>3. RegionTypes'
      BY <1>9 DEF Check, RegionTypes, Regions, regionVars
    <2>4. WindowTypes'
      BY <1>9 DEF Check, StopAfterCheck, WindowTypes, Pushers, windowVars
    <2>5. ThreadTypes'
      <3>1. /\ idx' \in [Pushers -> Nat]
            /\ want' \in [Pushers -> TierIds \union {NoTier}]
            /\ moved' \in [Pushers -> (0..PagesPerRegion) \union Returns]
        BY <1>0, <1>9, MigrateAssumption DEF Check
      <3> QED
        BY <1>0, <2>1, <2>2, <3>1, GotoType DEF ThreadTypes, Pushers
    <2>6. PushersInRange'
      BY <1>0, <1>a, <1>9, <2>1, <2>2, GotoType DEF Check, Working, regionVars, windowVars
    <2> QED
      BY <2>3, <2>4, <2>5, <2>6
  <1>10. CASE Report(t) \/ PrintReport(t)
    <2>1. PICK s \in {"print", "done"} : Goto(t, s)
      BY <1>10 DEF Report, PrintReport
    <2>2. /\ s \in Steps /\ s \notin Working /\ pc[t] # "done"
          /\ UNCHANGED <<idx, want, moved>>
      BY <1>10, <2>1 DEF Report, PrintReport, At, Steps, Working
    <2>3. RegionTypes'
      BY <1>10 DEF Report, PrintReport, RegionTypes, Regions, regionVars
    <2>4. WindowTypes'
      BY <1>10 DEF Report, PrintReport, WindowTypes, CounterType, Pushers, windowVars
    <2>5. ThreadTypes'
      BY <1>0, <2>1, <2>2, GotoType DEF ThreadTypes, Pushers
    <2>6. PushersInRange'
      BY <1>0, <1>a, <1>10, <2>1, <2>2, GotoType
      DEF Report, PrintReport, Working, regionVars, windowVars
    <2> QED
      BY <2>3, <2>4, <2>5, <2>6
  <1> QED
    BY <1>1, <1>2, <1>3, <1>4, <1>5, <1>6, <1>7, <1>8, <1>9, <1>10 DEF Pusher

\* Every step keeps the types and the pushers inside the vector.
LEMMA TypeInvNext == TypeInv /\ [Next]_vars => TypeInv'
  <1> SUFFICES ASSUME TypeInv, [Next]_vars
               PROVE  TypeInv'
    OBVIOUS
  <1> USE DEF TypeInv
  <1>1. CASE Elapse
    <2>1. UNCHANGED <<regionVars, phys, pc, idx, want, moved, phase, window>>
      BY <1>1 DEF Elapse
    <2>2. RegionTypes' /\ ThreadTypes' /\ PushersInRange'
      BY <2>1 DEF RegionTypes, ThreadTypes, PushersInRange, AllJoined, Regions,
         regionVars, Pushers
    <2>3. WindowTypes'
      BY <1>1 DEF Elapse, WindowTypes, Pushers
    <2> QED
      BY <2>2, <2>3
  <1>2. ASSUME NEW r \in Regions, Touch(r)
        PROVE  TypeInv'
    <2>1. UNCHANGED <<regionVars, windowVars, exited, stop, counters, pc, idx,
                      want, moved, snap>>
      BY <1>2 DEF Touch
    <2>2. PICK S \in SUBSET phys[r] : phys' = [phys EXCEPT ![r] = S \union {FAST_NODE}]
      BY <1>2 DEF Touch
    <2>3. phys[r] \in SUBSET (TierIds \union {NoTier})
      BY DEF RegionTypes
    <2>4. RegionTypes'
      BY <2>1, <2>2, <2>3, TierFacts DEF RegionTypes, Regions, regionVars
    <2>5. WindowTypes' /\ ThreadTypes' /\ PushersInRange'
      BY <2>1 DEF WindowTypes, ThreadTypes, PushersInRange, AllJoined, Regions,
         regionVars, windowVars, Pushers
    <2> QED
      BY <2>4, <2>5
  <1>3. CASE UNCHANGED vars
    BY <1>3 DEF vars, RegionTypes, WindowTypes, ThreadTypes, PushersInRange,
       AllJoined, Regions, Pushers, regionVars, windowVars
  <1> QED
    BY <1>1, <1>2, <1>3, WindowThreadTypes, PusherTypes DEF Next, Finished

\* The strengthened type invariant holds throughout.
LEMMA TypeInvariant == Spec => []TypeInv
  BY TypeInvInit, TypeInvNext, PTL DEF Spec

\* Every state of the migration engine is well typed.
THEOREM TypeCorrect == Spec => []TypeOK
  <1>1. TypeInv => TypeOK
    BY TypeParts DEF TypeInv
  <1> QED
    BY <1>1, TypeInvariant, PTL

(***************************************************************************)
(* The page budget.  BudgetOvershoot is not inductive: it does not say     *)
(* which pushers may still add pages.  While no thread has stopped, only   *)
(* those between their fetch_add and their comparison are over the budget; *)
(* once one has, those that are through with their last push are, and they *)
(* push no more.                                                           *)
(***************************************************************************)

Over ==
  IF stop = 0 THEN {t \in Pushers : pc[t] = "limit"}
  ELSE {t \in Pushers : pc[t] \in {"limit", "check", "report", "print", "done"}}

BudgetInv == counters.pages < MaxPages + Cardinality(Over) * PagesPerRegion

\* The sets of pushers are finite; a larger one has at least as many members.
LEMMA PusherSets ==
  /\ IsFiniteSet(Pushers) /\ Cardinality(Pushers) = Threads
  /\ \A S \in SUBSET Pushers : IsFiniteSet(S) /\ Cardinality(S) \in Nat
  /\ \A S, T \in SUBSET Pushers : S \subseteq T => Cardinality(S) <= Cardinality(T)
  <1>1. IsFiniteSet(Pushers) /\ Cardinality(Pushers) = Threads
    BY MigrateAssumption, FS_Interval DEF Pushers
  <1>2. \A S \in SUBSET Pushers : IsFiniteSet(S) /\ Cardinality(S) \in Nat
    BY <1>1, FS_Subset, FS_CardinalityType
  <1> QED
    BY <1>1, <1>2, FS_Subset

\* The bound may only rise while no page is counted.
LEMMA BudgetKept ==
  ASSUME BudgetInv, counters.pages \in Nat, counters'.pages = counters.pages,
         Over \subseteq Over', Over' \in SUBSET Pushers
  PROVE  BudgetInv'
  <1>1. Over \in SUBSET Pushers
    BY DEF Over
  <1>2. /\ Cardinality(Over) \in Nat /\ Cardinality(Over') \in Nat
        /\ Cardinality(Over) <= Cardinality(Over')
    BY <1>1, PusherSets
  <1>3. Cardinality(Over) * PagesPerRegion <= Cardinality(Over') * PagesPerRegion
    BY <1>2, MulMono, MigrateAssumption
  <1>4. /\ Cardinality(Over) * PagesPerRegion \in Nat
        /\ Cardinality(Over') * PagesPerRegion \in Nat /\ MaxPages \in Nat
    BY <1>2, MigrateAssumption
  <1> QED
    BY <1>3, <1>4 DEF BudgetInv

\* Every step keeps the bound on the pages of the phase.
LEMMA BudgetNext == TypeInv /\ BudgetInv /\ [Next]_vars => BudgetInv'
  <1> SUFFICES ASSUME TypeInv, BudgetInv, [Next]_vars
               PROVE  BudgetInv'
    OBVIOUS
  <1>1. /\ pc \in [Pushers -> Steps] /\ counters \in CounterType /\ stop \in 0..2
        /\ moved \in [Pushers -> (0..PagesPerRegion) \union Returns]
        /\ counters.pages \in Nat /\ MaxPages \in Nat /\ PagesPerRegion \in Nat
    BY MigrateAssumption DEF TypeInv, ThreadTypes, WindowTypes, CounterType
  <1>2. Over' \in SUBSET Pushers
    BY DEF Over, Pushers
  <1>3. CASE \E ph \in {"byte", "zswap"} : Spawn(ph)
    <2>1. counters'.pages = 0
      BY <1>3 DEF Spawn, ZeroCounters
    <2>2. Cardinality(Over') \in Nat
      BY <1>2, PusherSets
    <2>3. Cardinality(Over') * PagesPerRegion \in Nat
      BY <1>1, <2>2
    <2> QED
      BY <2>1, <2>3, MigrateAssumption DEF BudgetInv
  <1>4. CASE UNCHANGED <<counters, stop, pc>>
    BY <1>1, <1>2, <1>4, BudgetKept DEF Over
  <1>5. ASSUME NEW t \in Pushers, Pusher(t)
        PROVE  BudgetInv'
    <2>1. CASE Enter(t) \/ Push(t) \/ Migrate(t) \/ Move(t) \/ Commit(t)
               \/ Check(t) \/ Report(t) \/ PrintReport(t) \/ Pick(t)
      <3>1. counters'.pages = counters.pages
        BY <1>1, <2>1 DEF Enter, Push, Migrate, Move, Commit, Check, Report, PrintReport,
           Pick, CounterType
      <3>2. stop' = stop \/ (stop = 0 /\ stop' # 0)
        BY <1>1, <2>1 DEF Enter, Push, Migrate, Move, Commit, Check, Report, PrintReport,
           Pick, StopAfterCheck, windowVars
      <3>3. pc[t] # "limit"
        BY <2>1 DEF Enter, Push, Migrate, Move, Commit, Check, Report, PrintReport,
           Pick, At
      <3>4. \A u \in Pushers : u # t => pc'[u] = pc[u]
        BY <1>1, <2>1 DEF Enter, Push, Migrate, Move, Commit, Check, Report, PrintReport,
           Pick, Goto
      <3>5. stop # 0 /\ pc[t] \in {"check", "report", "print", "done"}
              => pc'[t] \in {"report", "print", "done"}
        BY <1>1, <2>1 DEF Enter, Push, Migrate, Move, Commit, Check, Report, PrintReport,
           Pick, At, Goto, MustStop
      <3>6. Over \subseteq Over'
        BY <3>2, <3>3, <3>4, <3>5 DEF Over, Pushers
      <3> QED
        BY <1>1, <1>2, <3>1, <3>6, BudgetKept
    <2>2. CASE Tally(t)
      <3>1. pc[t] = "tally" /\ stop' = stop /\ counters' = Tallied(moved[t])
        BY <2>2 DEF Tally, At
      <3>2. pc' = [pc EXCEPT ![t] = IF moved[t] > 0 THEN "limit" ELSE "check"]
        BY <2>2 DEF Tally, Goto
      <3>3. moved[t] \in Int /\ moved[t] <= PagesPerRegion
            /\ (moved[t] > 0 \/ moved[t] = 0 \/ moved[t] \in Returns)
        BY <1>1 DEF Returns, EINVAL, ALREADY_IN_DRAM, ALREADY_IN_OPTANE, ALREADY_IN_ZSWAP
      <3>4. CASE moved[t] > 0
        <4>1. counters'.pages = counters.pages + moved[t]
          BY <1>1, <3>1, <3>4 DEF Tallied, CounterType, ALREADY_IN_DRAM,
             ALREADY_IN_OPTANE, ALREADY_IN_ZSWAP
        <4>2. t \notin Over /\ Over \in SUBSET Pushers
          BY <3>1 DEF Over
        <4>3. Over' = Over \union {t}
          BY <1>1, <3>1, <3>2, <3>4 DEF Over, Pushers
        <4>4. Cardinality(Over') = Cardinality(Over) + 1 /\ Cardinality(Over) \in Nat
          BY <4>2, <4>3, PusherSets, FS_AddElement
        <4> DEFINE c == Cardinality(Over)
        <4>6. (c + 1) * PagesPerRegion = c * PagesPerRegion + PagesPerRegion
              /\ c * PagesPerRegion \in Nat
          BY <1>1, <4>4
        <4> QED
          BY <1>1, <3>3, <4>1, <4>4, <4>6 DEF BudgetInv
      <3>5. CASE ~(moved[t] > 0)
        <4>1. counters'.pages = counters.pages
          BY <1>1, <3>1, <3>3, <3>5 DEF Tallied, CounterType, Returns, EINVAL,
             ALREADY_IN_DRAM, ALREADY_IN_OPTANE, ALREADY_IN_ZSWAP
        <4>2. Over \subseteq Over'
          BY <1>1, <3>1, <3>2 DEF Over, Pushers
        <4> QED
          BY <1>1, <1>2, <4>1, <4>2, BudgetKept
      <3> QED
        BY <3>4, <3>5
    <2>3. CASE Limit(t)
      <3>1. counters'.pages = counters.pages
        BY <1>1, <2>3 DEF Limit, CounterType
      <3>2. CASE BudgetSpent
        <4>1. stop' = 1 /\ pc' = [pc EXCEPT ![t] = "check"] /\ pc[t] = "limit"
          BY <2>3, <3>2 DEF Limit, At, Goto
        <4>2. Over \subseteq Over'
          BY <1>1, <4>1 DEF Over, Pushers
        <4> QED
          BY <1>1, <1>2, <3>1, <4>2, BudgetKept
      <3>3. CASE ~BudgetSpent
        <4>1. counters.pages < MaxPages
          BY <1>1, <3>3 DEF BudgetSpent
        <4>2. Cardinality(Over') \in Nat
          BY <1>2, PusherSets
        <4>3. Cardinality(Over') * PagesPerRegion \in Nat
          BY <1>1, <4>2
        <4> QED
          BY <1>1, <3>1, <4>1, <4>3 DEF BudgetInv
      <3> QED
        BY <3>2, <3>3
    <2> QED
      BY <1>5, <2>1, <2>2, <2>3 DEF Pusher
  <1>6. CASE StartWindow \/ StartZswapPhase
    BY <1>3, <1>6 DEF StartWindow, StartZswapPhase
  <1>7. CASE AbortWindow \/ EndWindow \/ Elapse
            \/ (\E r \in Regions : Touch(r)) \/ UNCHANGED vars
    BY <1>4, <1>7 DEF AbortWindow, EndWindow, Elapse, Touch, vars
  <1> QED
    BY <1>5, <1>6, <1>7 DEF Next, Finished

\* A phase exceeds MAXPAGES by less than one region per pusher.
THEOREM BudgetBounded == Spec => []BudgetOvershoot
  <1>1. Init => BudgetInv
    <2> SUFFICES ASSUME Init
                 PROVE  BudgetInv
      OBVIOUS
    <2>1. counters.pages = 0
      BY DEF Init, ZeroCounters
    <2>2. Cardinality(Over) \in Nat
      BY PusherSets DEF Over
    <2>3. Cardinality(Over) * PagesPerRegion \in Nat
      BY <2>2, MigrateAssumption
    <2> QED
      BY <2>1, <2>3, MigrateAssumption DEF BudgetInv
  <1>2. TypeInv /\ BudgetInv => BudgetOvershoot
    <2> SUFFICES ASSUME TypeInv, BudgetInv
                 PROVE  BudgetOvershoot
      OBVIOUS
    <2>1. Cardinality(Over) \in Nat /\ Cardinality(Over) <= Threads
      BY PusherSets DEF Over
    <2>2. Cardinality(Over) * PagesPerRegion <= Threads * PagesPerRegion
      BY <2>1, MulMono, MigrateAssumption
    <2>3. /\ Cardinality(Over) * PagesPerRegion \in Nat
          /\ Threads * PagesPerRegion \in Nat /\ MaxPages \in Nat
          /\ counters.pages \in Nat
      BY <2>1, MigrateAssumption DEF TypeInv, WindowTypes, CounterType
    <2> QED
      BY <2>2, <2>3 DEF BudgetInv, BudgetOvershoot
  <1> QED
    BY <1>1, <1>2, BudgetNext, TypeInvariant, PTL DEF Spec

(***************************************************************************)
(* The identity of the counters.                                           *)
(***************************************************************************)

\* The candidates that are settled.
Settled(c) == c.regions + c.inDram + c.inOptane + c.inZswap + c.unmoved

\* A step that leaves the difference of candidates and settled ones alone, and
\* the set of pushes in progress with it.
LEMMA AccountKept ==
  ASSUME CandidatesAccounted, counters \in CounterType,
         counters'.candidates = counters.candidates,
         Settled(counters') = Settled(counters), InFlight' = InFlight
  PROVE  CandidatesAccounted'
  BY DEF CandidatesAccounted, Settled, CounterType

\* The push of t settles one candidate and is over.
LEMMA AccountSettled ==
  ASSUME CandidatesAccounted, counters \in CounterType,
         counters'.candidates = counters.candidates,
         Settled(counters') = Settled(counters) + 1,
         NEW t \in InFlight, InFlight' = InFlight \ {t}
  PROVE  CandidatesAccounted'
  <1>1. IsFiniteSet(InFlight) /\ Cardinality(InFlight) \in Nat
    BY PusherSets DEF InFlight
  <1>2. Cardinality(InFlight') = Cardinality(InFlight) - 1
    BY <1>1, FS_RemoveElement
  <1>3. Settled(counters) \in Nat /\ counters.candidates \in Nat
    BY DEF Settled, CounterType
  <1> HIDE DEF InFlight
  <1> QED
    BY <1>1, <1>2, <1>3 DEF CandidatesAccounted, Settled

\* Every step keeps the identity of the counters.
LEMMA AccountNext == TypeInv /\ CandidatesAccounted /\ [Next]_vars => CandidatesAccounted'
  <1> SUFFICES ASSUME TypeInv, CandidatesAccounted, [Next]_vars
               PROVE  CandidatesAccounted'
    OBVIOUS
  <1>1. /\ pc \in [Pushers -> Steps] /\ counters \in CounterType
        /\ moved \in [Pushers -> (0..PagesPerRegion) \union Returns]
        /\ PagesPerRegion \in Nat
    BY MigrateAssumption DEF TypeInv, ThreadTypes, WindowTypes
  <1>2. CASE \E ph \in {"byte", "zswap"} : Spawn(ph)
    <2>1. counters' = ZeroCounters
      BY <1>2 DEF Spawn
    <2>2. InFlight' = {}
      BY <1>2 DEF Spawn, InFlight, Pushers
    <2>3. Cardinality(InFlight') = 0
      BY <2>2, FS_EmptySet
    <2> QED
      BY <2>1, <2>3 DEF CandidatesAccounted, ZeroCounters
  <1>3. CASE UNCHANGED <<counters, pc>>
    BY <1>1, <1>3, AccountKept DEF InFlight, Pushers, Settled
  <1>4. ASSUME NEW t \in Pushers, Pusher(t)
        PROVE  CandidatesAccounted'
    <2>1. CASE \/ Enter(t) \/ Push(t) \/ Migrate(t) \/ Move(t) \/ Commit(t)
               \/ Check(t) \/ Report(t) \/ PrintReport(t)
               \/ (Pick(t) /\ UNCHANGED counters)
      <3>1. counters' = counters
        BY <2>1 DEF Enter, Push, Migrate, Move, Commit, Check, Report, PrintReport
      <3>2. \A u \in Pushers : u # t => pc'[u] = pc[u]
        BY <1>1, <2>1 DEF Enter, Push, Migrate, Move, Commit, Check, Report, PrintReport,
           Pick, Goto
      <3>3. t \in InFlight' <=> t \in InFlight
        <4>1. CASE Push(t) \/ Migrate(t) \/ Move(t) \/ Commit(t)
          BY <1>1, <4>1 DEF Push, Migrate, Move, Commit, At, Goto, InFlight, Pushers
        <4>2. CASE Enter(t) \/ Check(t) \/ Report(t) \/ PrintReport(t)
          BY <1>1, <4>2 DEF Enter, Check, Report, PrintReport, At, Goto, InFlight, Pushers
        <4>3. CASE Pick(t) /\ UNCHANGED counters
          <5>1. counters.candidates # counters.candidates + 1
            BY <1>1 DEF CounterType
          <5>2. pc[t] = "pick" /\ (pc' = pc \/ pc' = [pc EXCEPT ![t] = "report"])
            BY <1>1, <4>3, <5>1 DEF Pick, At, Goto, CounterType
          <5> QED
            BY <1>1, <5>2 DEF InFlight, Pushers
        <4> QED
          BY <2>1, <4>1, <4>2, <4>3
      <3>4. InFlight' = InFlight
        BY <3>2, <3>3 DEF InFlight, Pushers
      <3> QED
        BY <1>1, <3>1, <3>4, AccountKept DEF Settled
    <2>2. CASE Pick(t) /\ ~UNCHANGED counters
      <3>1. /\ counters' = [counters EXCEPT !.candidates = @ + 1]
            /\ pc' = [pc EXCEPT ![t] = "push"] /\ pc[t] = "pick"
        BY <2>2 DEF Pick, At, Goto
      <3>2. InFlight' = InFlight \union {t} /\ t \notin InFlight
        BY <1>1, <3>1 DEF InFlight, Pushers
      <3>3. IsFiniteSet(InFlight) /\ Cardinality(InFlight) \in Nat
        BY PusherSets DEF InFlight
      <3>4. Cardinality(InFlight') = Cardinality(InFlight) + 1
        BY <3>2, <3>3, FS_AddElement
      <3>5. /\ counters'.candidates = counters.candidates + 1
            /\ Settled(counters') = Settled(counters)
            /\ Settled(counters) \in Nat /\ counters.candidates \in Nat
        BY <1>1, <3>1 DEF Settled, CounterType
      <3> QED
        BY <3>3, <3>4, <3>5 DEF CandidatesAccounted, Settled
    <2>3. CASE Tally(t)
      <3>1. /\ pc[t] = "tally" /\ counters' = Tallied(moved[t])
            /\ pc' = [pc EXCEPT ![t] = IF moved[t] > 0 THEN "limit" ELSE "check"]
        BY <2>3 DEF Tally, At, Goto
      <3>2. moved[t] \in Int /\ (moved[t] > 0 \/ moved[t] = 0 \/ moved[t] \in Returns)
        BY <1>1 DEF Returns, EINVAL, ALREADY_IN_DRAM, ALREADY_IN_OPTANE, ALREADY_IN_ZSWAP
      <3>3. CASE moved[t] > 0
        <4>1. counters' = [counters EXCEPT !.pages = @ + moved[t]]
          BY <3>1, <3>3 DEF Tallied, ALREADY_IN_DRAM, ALREADY_IN_OPTANE,
             ALREADY_IN_ZSWAP
        <4>2. /\ counters'.candidates = counters.candidates
              /\ Settled(counters') = Settled(counters)
          BY <1>1, <4>1 DEF Settled, CounterType
        <4>3. InFlight' = InFlight
          BY <1>1, <3>1, <3>3 DEF InFlight, Pushers
        <4> QED
          BY <1>1, <4>2, <4>3, AccountKept
      <3>4. CASE ~(moved[t] > 0)
        <4>1. /\ counters'.candidates = counters.candidates
              /\ Settled(counters') = Settled(counters) + 1
          BY <1>1, <3>1, <3>2, <3>4 DEF Tallied, Settled, CounterType, Returns,
             EINVAL, ALREADY_IN_DRAM, ALREADY_IN_OPTANE, ALREADY_IN_ZSWAP
        <4>2. InFlight' = InFlight \ {t} /\ t \in InFlight
          BY <1>1, <3>1, <3>4 DEF InFlight, Pushers
        <4> QED
          BY <1>1, <4>1, <4>2, AccountSettled
      <3> QED
        BY <3>3, <3>4
    <2>4. CASE Limit(t)
      <3>1. /\ pc[t] = "limit" /\ pc' = [pc EXCEPT ![t] = "check"]
            /\ counters' = [counters EXCEPT !.regions = @ + 1]
        BY <2>4 DEF Limit, At, Goto
      <3>2. /\ counters'.candidates = counters.candidates
            /\ Settled(counters') = Settled(counters) + 1
        BY <1>1, <3>1 DEF Settled, CounterType
      <3>3. InFlight' = InFlight \ {t} /\ t \in InFlight
        BY <1>1, <3>1 DEF InFlight, Pushers
      <3> QED
        BY <1>1, <3>2, <3>3, AccountSettled
    <2> QED
      BY <1>4, <2>1, <2>2, <2>3, <2>4 DEF Pusher
  <1>5. CASE StartWindow \/ StartZswapPhase
    BY <1>2, <1>5 DEF StartWindow, StartZswapPhase
  <1>6. CASE AbortWindow \/ EndWindow \/ Elapse
            \/ (\E r \in Regions : Touch(r)) \/ UNCHANGED vars
    BY <1>3, <1>6 DEF AbortWindow, EndWindow, Elapse, Touch, vars
  <1> QED
    BY <1>4, <1>5, <1>6 DEF Next, Finished

\* Every candidate of a phase is accounted for, whatever the threads do.
THEOREM CandidatesBalance == Spec => []CandidatesAccounted
  <1>1. Init => CandidatesAccounted
    <2> SUFFICES ASSUME Init
                 PROVE  CandidatesAccounted
      OBVIOUS
    <2>1. InFlight = {}
      BY DEF Init, InFlight
    <2>2. Cardinality(InFlight) = 0
      BY <2>1, FS_EmptySet
    <2> QED
      BY <2>2 DEF Init, ZeroCounters, CandidatesAccounted
  <1> QED
    BY <1>1, AccountNext, TypeInvariant, PTL DEF Spec

(***************************************************************************)
(* The report of thread 0.  The candidates it has loaded are not more than *)
(* the candidates there are, and it has no push in progress itself.        *)
(***************************************************************************)

ReportInv ==
  \A t \in Pushers : pc[t] = "print" => t = 0 /\ snap <= counters.candidates

\* Candidates are only added while a thread reports, and only thread 0 does.
LEMMA ReportNext == TypeInv /\ ReportInv /\ [Next]_vars => ReportInv'
  <1> SUFFICES ASSUME TypeInv, ReportInv, [Next]_vars
               PROVE  ReportInv'
    OBVIOUS
  <1>1. /\ pc \in [Pushers -> Steps] /\ counters \in CounterType /\ snap \in Nat
        /\ counters.candidates \in Nat
    BY DEF TypeInv, ThreadTypes, WindowTypes, CounterType
  <1>2. CASE \E ph \in {"byte", "zswap"} : Spawn(ph)
    BY <1>2 DEF Spawn, ReportInv, Pushers
  <1>3. CASE UNCHANGED <<counters, pc, snap>>
    BY <1>3 DEF ReportInv, Pushers
  <1>4. ASSUME NEW t \in Pushers, Pusher(t)
        PROVE  ReportInv'
    <2>1. CASE Report(t)
      <3>1. counters' = counters /\ \A u \in Pushers : u # t => pc'[u] = pc[u]
        BY <1>1, <2>1 DEF Report, Goto
      <3>2. CASE t = 0 /\ snap' = counters.candidates
        BY <1>1, <3>1, <3>2 DEF ReportInv, Pushers
      <3>3. CASE snap' = snap /\ pc' = [pc EXCEPT ![t] = "done"]
        BY <1>1, <3>1, <3>3 DEF ReportInv, Pushers
      <3> QED
        BY <2>1, <3>2, <3>3 DEF Report, Goto
    <2>2. CASE PrintReport(t)
      <3>1. snap' = 0 /\ counters' = counters /\ pc' = [pc EXCEPT ![t] = "done"]
        BY <2>2 DEF PrintReport, Goto
      <3> QED
        BY <1>1, <3>1 DEF ReportInv, Pushers
    <2>3. CASE Tally(t)
      <3>1. /\ snap' = snap /\ counters' = Tallied(moved[t])
            /\ pc' = [pc EXCEPT ![t] = IF moved[t] > 0 THEN "limit" ELSE "check"]
        BY <2>3 DEF Tally, Goto
      <3>2. moved[t] \in Int /\ (moved[t] >= 0 \/ moved[t] \in Returns)
        BY MigrateAssumption DEF TypeInv, ThreadTypes, Returns, EINVAL,
           ALREADY_IN_DRAM, ALREADY_IN_OPTANE, ALREADY_IN_ZSWAP
      <3>3. counters'.candidates = counters.candidates
        BY <1>1, <3>1, <3>2 DEF Tallied, CounterType, Returns, EINVAL,
           ALREADY_IN_DRAM, ALREADY_IN_OPTANE, ALREADY_IN_ZSWAP
      <3> QED
        BY <1>1, <3>1, <3>3 DEF ReportInv, Pushers
    <2>4. CASE \/ Enter(t) \/ Push(t) \/ Migrate(t) \/ Move(t) \/ Commit(t)
               \/ Pick(t) \/ Limit(t) \/ Check(t)
      <3>1. snap' = snap /\ counters'.candidates >= counters.candidates
            /\ counters'.candidates \in Nat
        BY <1>1, <2>4 DEF Enter, Push, Migrate, Move, Commit, Pick, Limit, Check,
           CounterType
      <3>2. pc[t] # "print" /\ pc'[t] # "print" /\ \A u \in Pushers : u # t => pc'[u] = pc[u]
        BY <1>1, <2>4 DEF Enter, Push, Migrate, Move, Commit, Pick, Limit, Check,
           At, Goto
      <3> QED
        BY <1>1, <3>1, <3>2 DEF ReportInv, Pushers
    <2> QED
      BY <1>4, <2>1, <2>2, <2>3, <2>4 DEF Pusher
  <1>5. CASE StartWindow \/ StartZswapPhase
    BY <1>2, <1>5 DEF StartWindow, StartZswapPhase
  <1>6. CASE AbortWindow \/ EndWindow \/ Elapse
            \/ (\E r \in Regions : Touch(r)) \/ UNCHANGED vars
    BY <1>3, <1>6 DEF AbortWindow, EndWindow, Elapse, Touch, vars
  <1> QED
    BY <1>4, <1>5, <1>6 DEF Next, Finished

\* VAL(0?) never exceeds the warnings plus one push of every other thread.
THEOREM ReportBounded == Spec => []ReportBound
  <1>1. Init => ReportInv
    BY DEF Init, ReportInv
  <1>2. TypeInv /\ ReportInv /\ CandidatesAccounted => ReportBound
    <2> SUFFICES ASSUME TypeInv, ReportInv, CandidatesAccounted,
                        NEW t \in Pushers, pc[t] = "print"
                 PROVE  snap - (counters.regions + counters.inDram
                          + counters.inOptane + counters.inZswap)
                          <= counters.unmoved + Threads - 1
      BY DEF ReportBound
    <2>1. /\ counters \in CounterType /\ snap \in Nat /\ Threads \in Nat
      BY MigrateAssumption DEF TypeInv, WindowTypes
    <2>2. InFlight \subseteq Pushers \ {t}
      BY DEF InFlight
    <2>3. Cardinality(Pushers \ {t}) = Threads - 1
      BY PusherSets, FS_RemoveElement
    <2>4. Cardinality(InFlight) \in Nat /\ Cardinality(InFlight) <= Threads - 1
      BY <2>2, <2>3, PusherSets
    <2>5. snap <= counters.candidates
      BY DEF ReportInv
    <2> QED
      BY <2>1, <2>4, <2>5 DEF CandidatesAccounted, CounterType
  <1> QED
    BY <1>1, <1>2, ReportNext, CandidatesBalance, TypeInvariant, PTL DEF Spec

(***************************************************************************)
(* The pushers keep to their chunks: always in the first phase, and in the *)
(* second as well if the vector never grows, because a resume index saved  *)
(* for a smaller vector need not lie in the chunk of the larger one.  What *)
(* a thread reads of a region it is pushing is then its own business.      *)
(***************************************************************************)

PushSteps == {"push", "migrate", "move", "commit"}

OwnChunks == phase = "byte" \/ InitRegions = MaxRegions

InChunk(t) == ChunkStart(t) <= idx[t] /\ idx[t] < ChunkEnd(t)

ChunkInv ==
  /\ InitRegions = MaxRegions =>
       \A t \in Pushers : lastReach[t] = 0 \/ ChunkStart(t) <= lastReach[t]
  /\ \A t \in Pushers : pc[t] = "pick" /\ OwnChunks => ChunkStart(t) <= idx[t]
  /\ \A t \in Pushers : pc[t] \in Working /\ OwnChunks => InChunk(t)
  /\ \A t \in Pushers : pc[t] \in PushSteps => Serves(want[t])
  /\ \A t \in Pushers :
       pc[t] \in PushSteps /\ phase = "byte" => dst[idx[t]] = want[t]
  /\ \A t \in Pushers : pc[t] = "move" => phase = "byte"

\* No index lies in the chunks of two pushers.
LEMMA ChunksDisjoint ==
  ASSUME nr \in Nat, NEW t \in Pushers, NEW u \in Pushers, NEW i \in Nat,
         ChunkStart(t) <= i, i < ChunkEnd(t), ChunkStart(u) <= i, i < ChunkEnd(u)
  PROVE  t = u
  <1> DEFINE q == nr \div Threads
  <1>1. q \in Nat /\ Threads \in Nat
    BY MigrateAssumption, ChunkFits
  <1>2. ASSUME NEW a \in Pushers, NEW b \in Pushers, a < b
        PROVE  ChunkEnd(a) <= ChunkStart(b)
    <2>1. /\ a \in Nat /\ b \in Nat /\ a + 1 <= b /\ a # Threads - 1
      BY <1>1, <1>2 DEF Pushers
    <2>2. (a + 1) * q <= b * q
      BY <1>1, <2>1, MulMono
    <2> QED
      BY <2>1, <2>2 DEF ChunkEnd, ChunkStart
  <1>3. /\ ChunkStart(t) \in Nat /\ ChunkEnd(t) \in Nat
        /\ ChunkStart(u) \in Nat /\ ChunkEnd(u) \in Nat
    BY ChunkInVector
  <1>4. t \in Int /\ u \in Int
    BY DEF Pushers
  <1> QED
    BY <1>2, <1>3, <1>4

\* A walk starts in the chunk of its thread.
LEMMA ResumeInChunk ==
  ASSUME TypeInv, NEW t \in Pushers, lastReach[t] = 0 \/ ChunkStart(t) <= lastReach[t]
  PROVE  ChunkStart(t) <= ResumeIndex(t)
  <1>1. nr \in Nat /\ lastReach[t] \in Nat
    BY MigrateAssumption DEF TypeInv, RegionTypes, WindowTypes
  <1> QED
    BY <1>1, ChunkInVector DEF ResumeIndex

\* The second phase has only compressed tiers to serve, so nothing is moved.
LEMMA MovesInBytePhase ==
  ASSUME TypeInv, NEW d \in TierIds, Serves(d), phase # "idle",
         ~EnableNtier \/ d \notin CompressedTiers
  PROVE  phase = "byte"
  BY NtierAssumption DEF TypeInv, WindowTypes, Serves, TierIds, ByteTiers,
     CompressedTiers, FAST_NODE, SLOW_NODE, COMPRESSED_STARTS_FROM

\* Preservation when t takes a step that leaves the vector, the resume
\* indices and the phase alone.
LEMMA ChunkFrame ==
  ASSUME TypeInv, ChunkInv, NEW t \in Pushers,
         UNCHANGED <<nr, phase>>,
         \A u \in Pushers : u # t =>
           pc'[u] = pc[u] /\ idx'[u] = idx[u] /\ want'[u] = want[u],
         \A u \in Pushers : InitRegions = MaxRegions =>
           lastReach'[u] = 0 \/ ChunkStart(u) <= lastReach'[u],
         \A u \in Pushers : u # t /\ pc[u] \in PushSteps /\ phase = "byte" =>
           dst'[idx[u]] = dst[idx[u]],
         pc'[t] = "pick" /\ OwnChunks => ChunkStart(t) <= idx'[t],
         pc'[t] \in Working /\ OwnChunks =>
           ChunkStart(t) <= idx'[t] /\ idx'[t] < ChunkEnd(t),
         pc'[t] \in PushSteps =>
           Serves(want'[t]) /\ (phase = "byte" => dst'[idx'[t]] = want'[t]),
         pc'[t] = "move" => phase = "byte"
  PROVE  ChunkInv'
  <1>1. \A u \in Pushers : ChunkStart(u)' = ChunkStart(u) /\ ChunkEnd(u)' = ChunkEnd(u)
    BY DEF ChunkStart, ChunkEnd
  <1>2. Pushers' = Pushers /\ Working' = Working /\ PushSteps' = PushSteps
        /\ OwnChunks' = OwnChunks
    BY DEF Pushers, Working, PushSteps, OwnChunks
  <1>3. PushSteps \subseteq Working /\ "pick" \notin Working
    BY DEF PushSteps, Working
  <1>4. (InitRegions = MaxRegions =>
           \A u \in Pushers : lastReach[u] = 0 \/ ChunkStart(u) <= lastReach[u])'
    BY <1>1, <1>2
  <1>5. ASSUME NEW u \in Pushers
        PROVE  (pc[u] = "pick" /\ OwnChunks => ChunkStart(u) <= idx[u])'
    BY <1>1, <1>2 DEF ChunkInv
  <1>6. ASSUME NEW u \in Pushers
        PROVE  (pc[u] \in Working /\ OwnChunks => InChunk(u))'
    BY <1>1, <1>2 DEF ChunkInv, InChunk
  <1>7. ASSUME NEW u \in Pushers
        PROVE  (pc[u] \in PushSteps => Serves(want[u]))'
    BY <1>2 DEF ChunkInv, Serves
  <1>8. ASSUME NEW u \in Pushers
        PROVE  (pc[u] \in PushSteps /\ phase = "byte" => dst[idx[u]] = want[u])'
    BY <1>2 DEF ChunkInv
  <1>9. ASSUME NEW u \in Pushers
        PROVE  (pc[u] = "move" => phase = "byte")'
    BY DEF ChunkInv
  <1> QED
    BY <1>2, <1>4, <1>5, <1>6, <1>7, <1>8, <1>9 DEF ChunkInv

\* A step of a pusher keeps every pusher in its chunk.
LEMMA ChunkPusher ==
  ASSUME TypeInv, ChunkInv, NEW t \in Pushers, Pusher(t)
  PROVE  ChunkInv'
  <1>1. /\ pc \in [Pushers -> Steps] /\ idx \in [Pushers -> Nat]
        /\ want \in [Pushers -> TierIds \union {NoTier}]
        /\ lastReach \in [Pushers -> Nat] /\ nr \in Nat
        /\ dst \in [Regions -> TierIds \union {NoTier}]
    BY MigrateAssumption DEF TypeInv, ThreadTypes, WindowTypes, RegionTypes
  <1>2. ChunkStart(t) \in Nat /\ ChunkEnd(t) \in Nat
    BY <1>1, ChunkInVector
  <1>3. /\ PushSteps \subseteq Working /\ PushersInRange
        /\ \A s \in {"enter", "pick", "report", "print", "done"} : s \notin Working
    BY DEF PushSteps, Working, TypeInv
  <1>4. CASE Enter(t)
    <2>1. /\ pc'[t] \in {"pick", "done"}
          /\ \A u \in Pushers : u # t => pc'[u] = pc[u] /\ idx'[u] = idx[u]
          /\ UNCHANGED <<nr, dst, phase, want>>
      BY <1>1, <1>4 DEF Enter, Goto, regionVars
    <2>2. \A u \in Pushers : InitRegions = MaxRegions =>
            lastReach'[u] = 0 \/ ChunkStart(u) <= lastReach'[u]
      BY <1>1, <1>4, ResumeInChunk DEF Enter, ChunkInv
    <2>3. pc'[t] = "pick" /\ OwnChunks => ChunkStart(t) <= idx'[t]
      BY <1>1, <1>2, <1>4, ResumeInChunk DEF Enter, Goto, ChunkInv, OwnChunks
    <2> QED
      BY <1>3, <2>1, <2>2, <2>3, ChunkFrame
  <1>5. CASE Pick(t)
    <2>1. /\ \A u \in Pushers : u # t =>
               pc'[u] = pc[u] /\ idx'[u] = idx[u] /\ want'[u] = want[u]
          /\ UNCHANGED <<nr, dst, phase, lastReach>> /\ pc[t] = "pick"
      BY <1>1, <1>5 DEF Pick, At, Goto, regionVars, windowVars
    <2>2. OwnChunks => ChunkStart(t) <= idx[t]
      BY <2>1 DEF ChunkInv
    <2>3. CASE pc'[t] = "push"
      <3>1. /\ idx[t] < ChunkEnd(t) /\ Serves(dst[idx[t]])
            /\ want' = [want EXCEPT ![t] = dst[idx[t]]] /\ idx' = idx
        BY <1>1, <1>5, <2>3 DEF Pick, At, Goto
      <3>2. want'[t] = dst[idx[t]]
        BY <1>1, <3>1
      <3> QED
        BY <2>1, <2>2, <2>3, <3>1, <3>2, ChunkFrame DEF ChunkInv
    <2>4. CASE pc'[t] # "push"
      <3>1. pc'[t] \in {"pick", "report"} /\ idx'[t] >= idx[t] /\ idx'[t] \in Nat
        BY <1>1, <1>5, <2>4 DEF Pick, At, Goto
      <3>2. OwnChunks => ChunkStart(t) <= idx'[t]
        BY <1>1, <1>2, <2>2, <3>1
      <3> QED
        BY <1>3, <2>1, <3>1, <3>2, ChunkFrame DEF ChunkInv
    <2> QED
      BY <2>3, <2>4
  <1>6. CASE Push(t)
    <2>1. /\ \A u \in Pushers : u # t => pc'[u] = pc[u]
          /\ UNCHANGED <<nr, dst, phase, lastReach, idx, want>> /\ pc[t] = "push"
          /\ pc'[t] \in {"tally", "migrate", "move"}
      BY <1>1, <1>6 DEF Push, At, Goto, regionVars, windowVars
    <2>2. /\ OwnChunks => ChunkStart(t) <= idx[t] /\ idx[t] < ChunkEnd(t)
          /\ Serves(want[t]) /\ (phase = "byte" => dst[idx[t]] = want[t])
      BY <2>1 DEF ChunkInv, InChunk, Working, PushSteps
    <2>3. pc'[t] = "move" => phase = "byte"
      <3> SUFFICES ASSUME pc'[t] = "move"
                   PROVE  phase = "byte"
        OBVIOUS
      <3>1. want[t] >= 0 /\ ~EnableNtier
        BY <1>1, <1>6, NtierAssumption DEF Push, At, Goto
      <3>2. want[t] \in TierIds
        BY <1>1, <3>1 DEF NoTier
      <3>3. phase # "idle"
        BY <1>3, <2>1, RunningPhase
      <3> QED
        BY <2>2, <3>1, <3>2, <3>3, MovesInBytePhase
    <2> QED
      BY <2>1, <2>2, <2>3, ChunkFrame DEF ChunkInv
  <1>7. CASE Migrate(t)
    <2>1. /\ \A u \in Pushers : u # t => pc'[u] = pc[u]
          /\ UNCHANGED <<nr, dst, phase, lastReach, idx, want>> /\ pc[t] = "migrate"
      BY <1>1, <1>7 DEF Migrate, At, Goto, regionVars, windowVars
    <2>2. /\ OwnChunks => ChunkStart(t) <= idx[t] /\ idx[t] < ChunkEnd(t)
          /\ Serves(want[t]) /\ (phase = "byte" => dst[idx[t]] = want[t])
      BY <2>1 DEF ChunkInv, InChunk, Working, PushSteps
    <2>3. pc'[t] = "move" => phase = "byte"
      <3> SUFFICES ASSUME pc'[t] = "move"
                   PROVE  phase = "byte"
        OBVIOUS
      <3>1. want[t] \notin CompressedTiers
        BY <1>1, <1>7, <2>1 DEF Migrate, Goto
      <3>2. want[t] \in TierIds
        BY <1>3, <2>1 DEF PushersInRange
      <3>3. phase # "idle"
        BY <1>3, <2>1, RunningPhase
      <3> QED
        BY <2>2, <3>1, <3>2, <3>3, MovesInBytePhase
    <2> QED
      BY <2>1, <2>2, <2>3, ChunkFrame DEF ChunkInv
  <1>8. CASE Move(t)
    <2>1. /\ \A u \in Pushers : u # t => pc'[u] = pc[u]
          /\ UNCHANGED <<nr, dst, phase, lastReach, idx, want>> /\ pc[t] = "move"
          /\ pc'[t] = "commit"
      BY <1>1, <1>8 DEF Move, At, Goto, regionVars, windowVars
    <2>2. /\ OwnChunks => ChunkStart(t) <= idx[t] /\ idx[t] < ChunkEnd(t)
          /\ Serves(want[t]) /\ (phase = "byte" => dst[idx[t]] = want[t])
      BY <2>1 DEF ChunkInv, InChunk, Working, PushSteps
    <2> QED
      BY <2>1, <2>2, ChunkFrame DEF ChunkInv
  <1>9. CASE Commit(t)
    <2>1. /\ \A u \in Pushers : u # t => pc'[u] = pc[u]
          /\ UNCHANGED <<nr, phase, lastReach, idx, want>> /\ pc[t] = "commit"
          /\ pc'[t] = "tally" /\ dst' = [dst EXCEPT ![idx[t]] = NoTier]
      BY <1>1, <1>9 DEF Commit, At, Goto, windowVars
    <2>2. OwnChunks => ChunkStart(t) <= idx[t] /\ idx[t] < ChunkEnd(t)
      BY <2>1 DEF ChunkInv, InChunk, Working
    <2>3. ASSUME NEW u \in Pushers, u # t, pc[u] \in PushSteps, phase = "byte"
          PROVE  dst'[idx[u]] = dst[idx[u]]
      <3>1. ChunkStart(u) <= idx[u] /\ idx[u] < ChunkEnd(u)
        BY <1>3, <2>3 DEF ChunkInv, InChunk, OwnChunks
      <3>2. idx[u] # idx[t]
        BY <1>1, <2>2, <2>3, <3>1, ChunksDisjoint DEF OwnChunks
      <3>3. idx[u] \in Regions
        BY <1>3, <2>3 DEF PushersInRange
      <3> QED
        BY <1>1, <2>1, <3>2, <3>3
    <2> QED
      BY <2>1, <2>2, <2>3, ChunkFrame DEF ChunkInv, PushSteps
  <1>10. CASE Tally(t) \/ Limit(t)
    <2>1. /\ \A u \in Pushers : u # t => pc'[u] = pc[u]
          /\ UNCHANGED <<nr, dst, phase, lastReach, idx, want>>
          /\ pc[t] \in {"tally", "limit"} /\ pc'[t] \in {"limit", "check"}
      BY <1>1, <1>10 DEF Tally, Limit, At, Goto, regionVars, windowVars
    <2>2. OwnChunks => ChunkStart(t) <= idx[t] /\ idx[t] < ChunkEnd(t)
      BY <2>1 DEF ChunkInv, InChunk, Working
    <2> QED
      BY <2>1, <2>2, ChunkFrame DEF ChunkInv, PushSteps
  <1>11. CASE Check(t)
    <2>1. /\ \A u \in Pushers : u # t =>
               pc'[u] = pc[u] /\ idx'[u] = idx[u] /\ want'[u] = want[u]
          /\ UNCHANGED <<nr, dst, phase, lastReach>> /\ pc[t] = "check"
          /\ pc'[t] \in {"pick", "report"}
      BY <1>1, <1>11 DEF Check, At, Goto, regionVars, windowVars
    <2>2. OwnChunks => ChunkStart(t) <= idx[t]
      BY <2>1 DEF ChunkInv, InChunk, Working
    <2>3. idx'[t] \in {idx[t], idx[t] + 1}
      BY <1>1, <1>11 DEF Check
    <2>4. OwnChunks => ChunkStart(t) <= idx'[t]
      BY <1>1, <1>2, <2>2, <2>3
    <2> QED
      BY <1>3, <2>1, <2>4, ChunkFrame DEF ChunkInv
  <1>12. CASE Report(t) \/ PrintReport(t)
    <2>1. /\ \A u \in Pushers : u # t => pc'[u] = pc[u]
          /\ UNCHANGED <<nr, dst, phase, lastReach, idx, want>>
          /\ pc'[t] \in {"print", "done"}
      BY <1>1, <1>12 DEF Report, PrintReport, At, Goto, regionVars, windowVars
    <2> QED
      BY <1>3, <2>1, ChunkFrame DEF ChunkInv
  <1> QED
    BY <1>4, <1>5, <1>6, <1>7, <1>8, <1>9, <1>10, <1>11, <1>12 DEF Pusher

\* So does every other step.
LEMMA ChunkNext == TypeInv /\ ChunkInv /\ [Next]_vars => ChunkInv'
  <1> SUFFICES ASSUME TypeInv, ChunkInv, [Next]_vars
               PROVE  ChunkInv'
    OBVIOUS
  <1>1. CASE StartWindow \/ StartZswapPhase
    <2>1. PICK ph \in {"byte", "zswap"} : Spawn(ph)
      BY <1>1 DEF StartWindow, StartZswapPhase
    <2>2. \A t \in Pushers : pc'[t] = "enter" /\ lastReach' = lastReach
      BY <2>1 DEF Spawn
    <2>3. InitRegions = MaxRegions => nr' = nr
      <3> SUFFICES ASSUME InitRegions = MaxRegions
                   PROVE  nr' = nr
        OBVIOUS
      <3>1. nr = MaxRegions /\ nr \in Nat /\ MaxRegions \in Nat
        BY MigrateAssumption DEF TypeInv, RegionTypes
      <3>2. nr' = nr \/ \E n \in nr..MaxRegions : nr' = n
        BY <1>1, MigrateAssumption DEF StartWindow, StartZswapPhase, FixRegions, regionVars
      <3> QED
        BY <3>1, <3>2
    <2> QED
      BY <2>1, <2>2, <2>3 DEF ChunkInv, Working, PushSteps, ChunkStart, Pushers
  <1>2. CASE UNCHANGED <<nr, dst, lastReach, pc, idx, want>> /\ (phase' = phase \/ AllJoined)
    <2>1. \A t \in Pushers : AllJoined => pc[t] = "done"
      BY DEF AllJoined
    <2> QED
      BY <1>2, <2>1 DEF ChunkInv, InChunk, Working, PushSteps, ChunkStart, ChunkEnd,
         OwnChunks, Serves, Pushers
  <1>3. CASE EndWindow \/ Elapse \/ (\E r \in Regions : Touch(r)) \/ UNCHANGED vars
    BY <1>2, <1>3 DEF EndWindow, Elapse, Touch, vars, regionVars, windowVars
  <1>4. CASE AbortWindow
    <2>1. \A t \in Pushers : pc'[t] = "done"
      BY <1>4 DEF AbortWindow, TypeInv, PushersInRange, AllJoined, Pushers
    <2>2. lastReach' = lastReach /\ (InitRegions = MaxRegions => nr' = nr)
      <3>1. nr' = nr \/ \E n \in nr..MaxRegions : nr' = n
        BY <1>4, MigrateAssumption DEF AbortWindow, FixRegions
      <3>2. nr \in InitRegions..MaxRegions /\ InitRegions \in Nat /\ MaxRegions \in Nat
        BY MigrateAssumption DEF TypeInv, RegionTypes
      <3> QED
        BY <1>4, <3>1, <3>2 DEF AbortWindow, windowVars
    <2> QED
      BY <2>1, <2>2 DEF ChunkInv, Working, PushSteps, ChunkStart, Pushers
  <1> QED
    BY <1>1, <1>3, <1>4, ChunkPusher DEF Next, Finished

\* The pushers keep to their chunks throughout.
LEMMA ChunkInvariant == Spec => []ChunkInv
  <1>1. Init => ChunkInv
    BY DEF Init, ChunkInv, Working, PushSteps
  <1> QED
    BY <1>1, ChunkNext, TypeInvariant, PTL DEF Spec

\* The destination move_to_dram_or_optane reads is the recommendation that
\* push_a_region was given.
THEOREM MovesGoWhereRecommended == Spec => []MoveHitsRecommendation
  <1>1. ChunkInv => MoveHitsRecommendation
    BY DEF ChunkInv, MoveHitsRecommendation, PushSteps
  <1> QED
    BY <1>1, ChunkInvariant, PTL

\* Two threads push the same region only in the second phase of a daemon
\* whose address space has grown.
THEOREM DisjointUnlessGrown ==
  Spec => [](phase = "byte" \/ InitRegions = MaxRegions => PushersDisjoint)
  <1>1. TypeInv /\ ChunkInv =>
          (phase = "byte" \/ InitRegions = MaxRegions => PushersDisjoint)
    <2> SUFFICES ASSUME TypeInv, ChunkInv, OwnChunks,
                        NEW t \in Pushers, NEW u \in Pushers, NEW r \in Regions,
                        Pushing(t, r), Pushing(u, r)
                 PROVE  t = u
      BY DEF PushersDisjoint, OwnChunks
    <2>1. nr \in Nat /\ r \in Nat
      BY MigrateAssumption DEF TypeInv, RegionTypes, Regions
    <2>2. InChunk(t) /\ InChunk(u) /\ idx[t] = r /\ idx[u] = r
      BY DEF ChunkInv, Pushing, Working
    <2> QED
      BY <2>1, <2>2, ChunksDisjoint DEF InChunk
  <1> QED
    BY <1>1, ChunkInvariant, TypeInvariant, PTL

(***************************************************************************)
(* Coverage.  A walk starts no later than the chunk of its thread, because *)
(* the vector only grows and the starts of the chunks with it, and a       *)
(* recommendation that is still open lies ahead of the owner of its chunk. *)
(***************************************************************************)

Owns(t, r) == ChunkStart(t) <= r /\ r < ChunkEnd(t)

Open(r) == dst[r] # NoTier /\ Serves(dst[r]) /\ curr[r] # dst[r]

Ahead(t, r) ==
  \/ pc[t] = "enter"
  \/ pc[t] \in {"pick"} \union PushSteps /\ idx[t] <= r
  \/ pc[t] \in {"tally", "limit", "check"} /\ idx[t] < r

ResumeInv == \A t \in Pushers : lastReach[t] <= ChunkStart(t)

WantInv ==
  \A t \in Pushers : pc[t] \in PushSteps => dst[idx[t]] \in {want[t], NoTier}

WalkInv ==
  phase # "idle" /\ stop = 0 =>
    \A t \in Pushers : \A r \in Regions : Owns(t, r) /\ Open(r) => Ahead(t, r)

CoverInv == ResumeInv /\ WantInv /\ WalkInv

\* Division with remainder.
LEMMA DivMod ==
  ASSUME NEW x \in Nat, NEW k \in Nat \ {0}
  PROVE  x \div k \in Nat /\ k * (x \div k) <= x /\ x < k * (x \div k) + k
  OBVIOUS

\* The parts of a longer vector are no shorter.
LEMMA DivMono ==
  ASSUME NEW n \in Nat, NEW m \in Nat, n <= m, NEW k \in Nat \ {0}
  PROVE  n \div k <= m \div k
  <1> DEFINE a == n \div k
             b == m \div k
  <1>1. a \in Nat /\ k * a <= n /\ b \in Nat /\ m < k * b + k
    BY DivMod
  <1> HIDE DEF a, b
  <1>2. SUFFICES ASSUME b + 1 <= a
                 PROVE  FALSE
    BY <1>1 DEF a, b
  <1>3. (b + 1) * k <= a * k
    BY <1>1, <1>2, MulMono
  <1>4. (b + 1) * k = k * b + k /\ a * k = k * a
    BY <1>1
  <1>5. k * a \in Nat /\ k * b \in Nat
    BY <1>1
  <1> QED
    BY <1>1, <1>3, <1>4, <1>5

\* Every region is in the chunk of some pusher.
LEMMA EveryRegionOwned ==
  ASSUME nr \in Nat, NEW r \in Regions
  PROVE  \E t \in Pushers : Owns(t, r)
  <1> DEFINE q == nr \div Threads
             o == r \div q
             last == Threads - 1
  <1>1. Threads \in Nat \ {0} /\ r \in Nat /\ r < nr
    BY MigrateAssumption DEF Regions
  <1>2. q \in Nat /\ Threads * q <= nr
    BY <1>1, ChunkFits
  <1>3. last \in Pushers /\ ChunkStart(last) = last * q /\ ChunkEnd(last) = nr
    BY <1>1 DEF Pushers, ChunkStart, ChunkEnd
  <1> HIDE DEF q, last
  <1>4. CASE last * q <= r
    BY <1>1, <1>3, <1>4 DEF Owns
  <1>5. CASE ~(last * q <= r)
    <2>1. last \in Nat /\ last + 1 = Threads /\ last * q \in Nat
      BY <1>1, <1>2 DEF last
    <2>2. q # 0
      BY <1>1, <1>5, <2>1
    <2>3. o \in Nat /\ q * o <= r /\ r < q * o + q
      BY <1>1, <1>2, <2>2, DivMod
    <2> HIDE DEF o
    <2>4. o * q <= r /\ r < (o + 1) * q
      BY <1>2, <2>3
    <2>5. o < last
      <3>1. SUFFICES ASSUME last <= o
                     PROVE  FALSE
        BY <2>1, <2>3
      <3>2. last * q <= o * q /\ o * q \in Nat
        BY <1>2, <2>1, <2>3, <3>1, MulMono
      <3> QED
        BY <1>1, <1>5, <2>1, <2>4, <3>2
    <2>6. o \in Pushers /\ o # Threads - 1
      BY <1>1, <2>1, <2>3, <2>5 DEF Pushers
    <2>7. Owns(o, r)
      BY <2>4, <2>6 DEF Owns, ChunkStart, ChunkEnd, q
    <2> QED
      BY <2>6, <2>7
  <1> QED
    BY <1>4, <1>5

\* A walk starts no later than its chunk.
LEMMA ResumeBeforeChunk ==
  ASSUME TypeInv, ResumeInv, NEW t \in Pushers
  PROVE  ResumeIndex(t) \in Nat /\ ResumeIndex(t) <= ChunkStart(t)
  <1>1. nr \in Nat /\ lastReach[t] \in Nat /\ lastReach[t] <= ChunkStart(t)
    BY MigrateAssumption DEF TypeInv, RegionTypes, WindowTypes, ResumeInv
  <1>2. ChunkStart(t) \in Nat
    BY <1>1, ChunkInVector
  <1> QED
    BY <1>1, <1>2 DEF ResumeIndex

\* Preservation when t takes a step in which it passes no open region.
LEMMA CoverFrame ==
  ASSUME CoverInv, NEW t \in Pushers,
         UNCHANGED <<nr, phase>>,
         \A u \in Pushers : u # t =>
           pc'[u] = pc[u] /\ idx'[u] = idx[u] /\ want'[u] = want[u],
         \A u \in Pushers : lastReach'[u] <= ChunkStart(u),
         \A r \in Regions : \/ dst'[r] = NoTier
                            \/ dst'[r] = dst[r] /\ curr'[r] = curr[r],
         \A u \in Pushers : pc[u] \in PushSteps => idx[u] \in Regions,
         pc'[t] \in PushSteps => dst'[idx'[t]] \in {want'[t], NoTier},
         stop' = 0 => stop = 0,
         ASSUME stop' = 0, NEW r \in Regions, Owns(t, r), Open(r), dst'[r] # NoTier,
                Ahead(t, r)
         PROVE  Ahead(t, r)'
  PROVE  CoverInv'
  <1>1. Pushers' = Pushers /\ Regions' = Regions
        /\ \A u \in Pushers : ChunkStart(u)' = ChunkStart(u) /\ ChunkEnd(u)' = ChunkEnd(u)
    BY DEF Pushers, Regions, ChunkStart, ChunkEnd
  <1>2. ResumeInv'
    BY <1>1 DEF ResumeInv
  <1>3. WantInv'
    <2> SUFFICES ASSUME NEW u \in Pushers, pc'[u] \in PushSteps
                 PROVE  dst'[idx'[u]] \in {want'[u], NoTier}
      BY <1>1 DEF WantInv
    <2>1. CASE u = t
      BY <2>1
    <2>2. CASE u # t
      BY <2>2 DEF CoverInv, WantInv
    <2> QED
      BY <2>1, <2>2
  <1>4. WalkInv'
    <2> SUFFICES ASSUME phase' # "idle", stop' = 0, NEW u \in Pushers,
                        NEW r \in Regions, Owns(u, r)', Open(r)'
                 PROVE  Ahead(u, r)'
      BY <1>1 DEF WalkInv
    <2>1. Owns(u, r) /\ dst'[r] # NoTier
      BY <1>1 DEF Owns, Open
    <2>2. Open(r)
      BY <2>1 DEF Open, Serves
    <2>3. Ahead(u, r)
      BY <2>1, <2>2 DEF CoverInv, WalkInv
    <2>4. CASE u = t
      BY <2>1, <2>2, <2>3, <2>4
    <2>5. CASE u # t
      BY <2>3, <2>5 DEF Ahead
    <2> QED
      BY <2>4, <2>5
  <1> QED
    BY <1>2, <1>3, <1>4 DEF CoverInv

\* A step of a pusher passes no open region.
LEMMA CoverPusher ==
  ASSUME TypeInv, CoverInv, NEW t \in Pushers, Pusher(t)
  PROVE  CoverInv'
  <1>1. /\ pc \in [Pushers -> Steps] /\ idx \in [Pushers -> Nat]
        /\ want \in [Pushers -> TierIds \union {NoTier}]
        /\ lastReach \in [Pushers -> Nat] /\ nr \in Nat
        /\ dst \in [Regions -> TierIds \union {NoTier}]
        /\ curr \in [Regions -> TierIds]
    BY MigrateAssumption DEF TypeInv, ThreadTypes, WindowTypes, RegionTypes
  <1>2. ChunkStart(t) \in Nat /\ ChunkEnd(t) \in Nat /\ Regions \subseteq Nat
    BY <1>1, ChunkInVector DEF Regions
  <1>3. /\ PushSteps = {"push", "migrate", "move", "commit"}
        /\ \A u \in Pushers : pc[u] \in PushSteps => idx[u] \in Regions
        /\ \A u \in Pushers : lastReach[u] <= ChunkStart(u)
        /\ \A u \in Pushers : pc[u] \in PushSteps => dst[idx[u]] \in {want[u], NoTier}
    BY DEF PushSteps, Working, TypeInv, PushersInRange, CoverInv, ResumeInv, WantInv
  <1>4. stop \in 0..2 /\ late \in BOOLEAN
    BY DEF TypeInv, WindowTypes
  <1>5. CASE Enter(t)
    <2>1. /\ \A u \in Pushers : u # t =>
               pc'[u] = pc[u] /\ idx'[u] = idx[u] /\ want'[u] = want[u]
          /\ UNCHANGED <<nr, dst, curr, phase>> /\ pc'[t] \in {"pick", "done"}
          /\ stop' = StopAfterCheck
      BY <1>1, <1>5 DEF Enter, Goto, regionVars
    <2>2. \A u \in Pushers : lastReach'[u] <= ChunkStart(u)
      BY <1>1, <1>3, <1>5, ResumeBeforeChunk DEF Enter, CoverInv
    <2>3. stop' = 0 => stop = 0 /\ ~late
      BY <1>4, <2>1 DEF StopAfterCheck
    <2>4. stop' = 0 => pc'[t] = "pick" /\ idx'[t] <= ChunkStart(t) /\ idx'[t] \in Nat
      BY <1>1, <1>2, <1>5, <2>3, ResumeBeforeChunk DEF Enter, Goto, MustStop, CoverInv
    <2>5. ASSUME stop' = 0, NEW r \in Regions, Owns(t, r)
          PROVE  Ahead(t, r)'
      BY <1>2, <2>4, <2>5 DEF Owns, Ahead
    <2>6. pc'[t] \notin PushSteps
      BY <1>3, <2>1
    <2> QED
      BY <1>3, <2>1, <2>2, <2>3, <2>5, <2>6, CoverFrame
  <1>6. CASE Pick(t)
    <2>1. /\ \A u \in Pushers : u # t =>
               pc'[u] = pc[u] /\ idx'[u] = idx[u] /\ want'[u] = want[u]
          /\ UNCHANGED <<nr, dst, curr, phase, lastReach, stop>> /\ pc[t] = "pick"
          /\ pc'[t] \in {"pick", "push", "report"}
      BY <1>1, <1>6 DEF Pick, At, Goto, regionVars, windowVars
    <2>2. pc'[t] \in PushSteps => dst'[idx'[t]] \in {want'[t], NoTier}
      BY <1>1, <1>3, <1>6, <2>1 DEF Pick, Goto
    <2>3. ASSUME NEW r \in Regions, Owns(t, r), Open(r), Ahead(t, r)
          PROVE  Ahead(t, r)'
      <3>1. idx[t] <= r /\ r < ChunkEnd(t) /\ r \in Nat /\ idx[t] \in Nat
        BY <1>1, <1>2, <2>1, <2>3 DEF Ahead, Owns
      <3>2. CASE ~Serves(dst[idx[t]])
        <4>1. idx[t] # r
          BY <2>3, <3>2 DEF Open
        <4>2. pc'[t] = "pick" /\ idx'[t] = idx[t] + 1
          BY <1>1, <1>2, <1>6, <3>1, <3>2 DEF Pick, At
        <4> QED
          BY <3>1, <4>1, <4>2 DEF Ahead
      <3>3. CASE Serves(dst[idx[t]])
        <4>1. pc'[t] = "push" /\ idx'[t] = idx[t]
          BY <1>1, <1>2, <1>6, <3>1, <3>3 DEF Pick, Goto
        <4> QED
          BY <1>3, <3>1, <4>1 DEF Ahead
      <3> QED
        BY <3>2, <3>3
    <2> QED
      BY <1>3, <2>1, <2>2, <2>3, CoverFrame
  <1>7. CASE Push(t)
    <2>1. /\ \A u \in Pushers : u # t => pc'[u] = pc[u]
          /\ UNCHANGED <<nr, dst, curr, phase, lastReach, idx, want, stop>>
          /\ pc[t] = "push" /\ pc'[t] \in {"tally", "migrate", "move"}
      BY <1>1, <1>7 DEF Push, At, Goto, regionVars, windowVars
    <2>2. ASSUME NEW r \in Regions, Owns(t, r), Open(r), Ahead(t, r)
          PROVE  Ahead(t, r)'
      <3>1. idx[t] <= r /\ r \in Nat /\ idx[t] \in Nat
        BY <1>1, <1>2, <2>1, <2>2 DEF Ahead
      <3>2. CASE pc'[t] = "tally"
        <4>1. want[t] < 0 \/ curr[idx[t]] = want[t]
          BY <1>1, <1>7, <3>2 DEF Push, Goto
        <4>2. idx[t] # r
          <5> SUFFICES ASSUME idx[t] = r
                       PROVE  FALSE
            OBVIOUS
          <5>1. dst[r] = want[t] /\ want[t] \in TierIds
            BY <1>1, <1>3, <2>1, <2>2 DEF Open
          <5>2. want[t] \in Nat
            BY <5>1, TierFacts
          <5>3. curr[r] # want[t]
            BY <2>2, <5>1 DEF Open
          <5> QED
            BY <4>1, <5>2, <5>3
        <4> QED
          BY <2>1, <3>1, <3>2, <4>2 DEF Ahead
      <3>3. CASE pc'[t] # "tally"
        BY <1>3, <2>1, <3>1, <3>3 DEF Ahead
      <3> QED
        BY <3>2, <3>3
    <2> QED
      BY <1>3, <2>1, <2>2, CoverFrame
  <1>8. CASE Migrate(t) \/ Move(t)
    <2>1. /\ \A u \in Pushers : u # t => pc'[u] = pc[u]
          /\ UNCHANGED <<nr, dst, curr, phase, lastReach, idx, want, stop>>
          /\ pc[t] \in PushSteps /\ pc'[t] \in PushSteps
      BY <1>1, <1>3, <1>8 DEF Migrate, Move, At, Goto, regionVars, windowVars
    <2>2. ASSUME NEW r \in Regions, Ahead(t, r)
          PROVE  Ahead(t, r)'
      BY <1>3, <2>1, <2>2 DEF Ahead
    <2> QED
      BY <1>3, <2>1, <2>2, CoverFrame
  <1>9. CASE Commit(t)
    <2>1. /\ \A u \in Pushers : u # t => pc'[u] = pc[u]
          /\ UNCHANGED <<nr, phase, lastReach, idx, want, stop>>
          /\ pc[t] = "commit" /\ pc'[t] = "tally"
          /\ dst' = [dst EXCEPT ![idx[t]] = NoTier]
          /\ curr' = [curr EXCEPT ![idx[t]] = want[t]]
      BY <1>1, <1>9 DEF Commit, At, Goto, windowVars
    <2>2. idx[t] \in Regions
      BY <1>3, <2>1
    <2>3. \A r \in Regions : \/ dst'[r] = NoTier
                             \/ dst'[r] = dst[r] /\ curr'[r] = curr[r]
      BY <1>1, <2>1
    <2>4. ASSUME NEW r \in Regions, dst'[r] # NoTier, Ahead(t, r)
          PROVE  Ahead(t, r)'
      <3>1. r # idx[t]
        BY <1>1, <2>1, <2>2, <2>4
      <3>2. idx[t] <= r /\ r \in Nat /\ idx[t] \in Nat
        BY <1>1, <1>2, <2>1, <2>4 DEF Ahead
      <3> QED
        BY <2>1, <3>1, <3>2 DEF Ahead
    <2> QED
      BY <1>3, <2>1, <2>3, <2>4, CoverFrame
  <1>10. CASE Tally(t) \/ Limit(t)
    <2>1. /\ \A u \in Pushers : u # t => pc'[u] = pc[u]
          /\ UNCHANGED <<nr, dst, curr, phase, lastReach, idx, want>>
          /\ pc[t] \in {"tally", "limit"} /\ pc'[t] \in {"limit", "check"}
          /\ stop' = 0 => stop = 0
      BY <1>1, <1>10 DEF Tally, Limit, At, Goto, regionVars, windowVars
    <2>2. ASSUME NEW r \in Regions, Ahead(t, r)
          PROVE  Ahead(t, r)'
      BY <1>3, <2>1, <2>2 DEF Ahead
    <2> QED
      BY <1>3, <2>1, <2>2, CoverFrame
  <1>11. CASE Check(t)
    <2>1. /\ \A u \in Pushers : u # t =>
               pc'[u] = pc[u] /\ idx'[u] = idx[u] /\ want'[u] = want[u]
          /\ UNCHANGED <<nr, dst, curr, phase, lastReach>> /\ pc[t] = "check"
          /\ pc'[t] \in {"pick", "report"} /\ stop' = StopAfterCheck
      BY <1>1, <1>11 DEF Check, At, Goto, regionVars, windowVars
    <2>2. stop' = 0 => stop = 0 /\ ~late
      BY <1>4, <2>1 DEF StopAfterCheck
    <2>3. stop' = 0 => pc'[t] = "pick" /\ idx'[t] = idx[t] + 1
      BY <1>1, <1>11, <2>2 DEF Check, Goto, MustStop
    <2>4. ASSUME stop' = 0, NEW r \in Regions, Ahead(t, r)
          PROVE  Ahead(t, r)'
      <3>1. idx[t] < r /\ r \in Nat /\ idx[t] \in Nat
        BY <1>1, <1>2, <1>3, <2>1, <2>4 DEF Ahead
      <3> QED
        BY <2>3, <2>4, <3>1 DEF Ahead
    <2> QED
      BY <1>3, <2>1, <2>2, <2>4, CoverFrame
  <1>12. CASE Report(t) \/ PrintReport(t)
    <2>1. /\ \A u \in Pushers : u # t => pc'[u] = pc[u]
          /\ UNCHANGED <<nr, dst, curr, phase, lastReach, idx, want, stop>>
          /\ pc[t] \in {"report", "print"} /\ pc'[t] \in {"print", "done"}
      BY <1>1, <1>12 DEF Report, PrintReport, At, Goto, regionVars, windowVars
    <2>2. \A r \in Regions : ~Ahead(t, r)
      BY <1>3, <2>1 DEF Ahead
    <2> QED
      BY <1>3, <2>1, <2>2, CoverFrame
  <1> QED
    BY <1>5, <1>6, <1>7, <1>8, <1>9, <1>10, <1>11, <1>12 DEF Pusher

\* So does every other step: a longer vector has its chunks later.
LEMMA CoverNext == TypeInv /\ CoverInv /\ [Next]_vars => CoverInv'
  <1> SUFFICES ASSUME TypeInv, CoverInv, [Next]_vars
               PROVE  CoverInv'
    OBVIOUS
  <1>1. CASE StartWindow \/ StartZswapPhase \/ AbortWindow
    <2>1. nr \in Nat /\ nr' \in Nat /\ nr <= nr'
      <3>1. nr \in Nat /\ MaxRegions \in Nat
        BY MigrateAssumption DEF TypeInv, RegionTypes
      <3>2. nr' = nr \/ \E n \in nr..MaxRegions : nr' = n
        BY <1>1, MigrateAssumption
           DEF StartWindow, StartZswapPhase, AbortWindow, FixRegions, regionVars
      <3> QED
        BY <3>1, <3>2
    <2>2. lastReach' = lastReach
      BY <1>1 DEF StartWindow, StartZswapPhase, AbortWindow, Spawn, windowVars
    <2>3. ASSUME NEW t \in Pushers
          PROVE  ChunkStart(t) \in Nat /\ ChunkStart(t)' \in Nat
                 /\ ChunkStart(t) <= ChunkStart(t)'
      <3>1. t \in Nat /\ Threads \in Nat \ {0}
        BY MigrateAssumption DEF Pushers
      <3>2. /\ nr \div Threads \in Nat /\ nr' \div Threads \in Nat
            /\ nr \div Threads <= nr' \div Threads
        BY <2>1, <3>1, DivMono, ChunkFits
      <3>3. (nr \div Threads) * t <= (nr' \div Threads) * t
        BY <3>1, <3>2, MulMono
      <3>4. /\ t * (nr \div Threads) = (nr \div Threads) * t
            /\ t * (nr' \div Threads) = (nr' \div Threads) * t
            /\ t * (nr \div Threads) \in Nat /\ t * (nr' \div Threads) \in Nat
        BY <3>1, <3>2
      <3> QED
        BY <3>3, <3>4 DEF ChunkStart
    <2>4. ResumeInv'
      <3> SUFFICES ASSUME NEW t \in Pushers
                   PROVE  lastReach'[t] <= ChunkStart(t)'
        BY DEF ResumeInv, Pushers
      <3>1. lastReach[t] <= ChunkStart(t) /\ lastReach[t] \in Nat
        BY DEF CoverInv, ResumeInv, TypeInv, WindowTypes
      <3> QED
        BY <2>2, <2>3, <3>1
    <2>5. \/ \A t \in Pushers : pc'[t] = "enter"
          \/ phase' = "idle" /\ \A t \in Pushers : pc'[t] = "done"
      BY <1>1 DEF StartWindow, StartZswapPhase, AbortWindow, Spawn, windowVars,
         TypeInv, PushersInRange, AllJoined
    <2>6. WantInv' /\ WalkInv'
      BY <2>5 DEF WantInv, WalkInv, Ahead, PushSteps, Pushers
    <2> QED
      BY <2>4, <2>6 DEF CoverInv
  <1>2. CASE EndWindow
    <2>1. ResumeInv'
      BY <1>2 DEF EndWindow, regionVars, CoverInv, ResumeInv, ChunkStart, Pushers
    <2>2. WantInv' /\ WalkInv'
      BY <1>2 DEF EndWindow, regionVars, CoverInv, WantInv, WalkInv, Pushers
    <2> QED
      BY <2>1, <2>2 DEF CoverInv
  <1>3. CASE Elapse \/ (\E r \in Regions : Touch(r)) \/ UNCHANGED vars
    <2>1. UNCHANGED <<nr, curr, dst, lastReach, phase, stop, pc, idx, want>>
      BY <1>3 DEF Elapse, Touch, vars, regionVars, windowVars
    <2> QED
      BY <2>1 DEF CoverInv, ResumeInv, WantInv, WalkInv, Owns, Open, Ahead, Serves,
         ChunkStart, ChunkEnd, Pushers, Regions
  <1> QED
    BY <1>1, <1>2, <1>3, CoverPusher DEF Next, Finished

\* No walk passes an open recommendation, throughout.
LEMMA CoverInvariant == Spec => []CoverInv
  <1>1. Init => CoverInv
    <2> SUFFICES ASSUME Init
                 PROVE  CoverInv
      OBVIOUS
    <2>1. nr \in Nat
      BY MigrateAssumption DEF Init
    <2>2. ResumeInv
      BY <2>1, ChunkInVector DEF Init, ResumeInv
    <2>3. WantInv /\ WalkInv
      BY DEF Init, WantInv, WalkInv, PushSteps
    <2> QED
      BY <2>2, <2>3 DEF CoverInv
  <1> QED
    BY <1>1, CoverNext, TypeInvariant, PTL DEF Spec

\* A phase that was not stopped has served every recommendation it was
\* responsible for, whatever the number of pushers, however the vector has
\* grown, and whether or not the kernel did what it was asked.
THEOREM PhaseCovers == Spec => []PhaseCoverage
  <1>1. TypeInv /\ CoverInv => PhaseCoverage
    <2> SUFFICES ASSUME TypeInv, CoverInv, phase # "idle", AllJoined, stop = 0,
                        NEW r \in Regions, dst[r] # NoTier, Serves(dst[r])
                 PROVE  curr[r] = dst[r]
      BY DEF PhaseCoverage
    <2>1. nr \in Nat
      BY MigrateAssumption DEF TypeInv, RegionTypes
    <2>2. PICK t \in Pushers : Owns(t, r)
      BY <2>1, EveryRegionOwned
    <2>3. pc[t] = "done"
      BY DEF AllJoined
    <2>4. ~Ahead(t, r)
      BY <2>3 DEF Ahead, PushSteps
    <2> QED
      BY <2>2, <2>4 DEF CoverInv, WalkInv, Open
  <1> QED
    BY <1>1, CoverInvariant, TypeInvariant, PTL

(***************************************************************************)
(* What the daemon believes of a region, while the vector is not made anew *)
(* and the kernel moves and reclaims what it is asked to.  Two pushers may *)
(* be at the same region, but they then want the same tier.                *)
(***************************************************************************)

Placed(r, d) == IF d \in ByteTiers THEN phys[r] = {d} ELSE phys[r] \subseteq {d, FAST_NODE}

\* The steps of a push in which the kernel has acted and the daemon has not
\* taken note yet.
Underway(t, r) == idx[t] = r /\ pc[t] \in {"move", "commit"}

BelievedInv ==
  \A r \in Regions : (\A t \in Pushers : ~Underway(t, r)) => Placed(r, curr[r])

MovableInv ==
  \A t \in Pushers : pc[t] = "move" => phys[idx[t]] \intersect CompressedTiers = {}

MovedInv == \A t \in Pushers : pc[t] = "commit" => Placed(idx[t], want[t])

SameWant ==
  \A t, u \in Pushers :
    pc[t] \in PushSteps /\ pc[u] \in PushSteps /\ idx[t] = idx[u]
      => want[t] = want[u]

PlaceInv == BelievedInv /\ MovableInv /\ MovedInv /\ SameWant

\* In the first phase nobody else is at the region of a pusher.
LEMMA AloneInBytePhase ==
  ASSUME TypeInv, ChunkInv, phase = "byte", NEW t \in Pushers, NEW u \in Pushers,
         pc[t] \in Working, pc[u] \in Working, idx[t] = idx[u]
  PROVE  t = u
  <1>1. InChunk(t) /\ InChunk(u)
    BY DEF ChunkInv, OwnChunks
  <1>2. nr \in Nat /\ idx[t] \in Nat
    BY MigrateAssumption DEF TypeInv, RegionTypes, ThreadTypes
  <1> QED
    BY <1>1, <1>2, ChunksDisjoint DEF InChunk

\* Where the pages of a push to a node, or to a pool, are.
LEMMA ServedTier ==
  ASSUME TypeInv, ChunkInv, NEW t \in Pushers, pc[t] \in {"migrate", "move", "commit"}
  PROVE  /\ want[t] \in TierIds
         /\ want[t] \in ByteTiers <=> phase = "byte"
         /\ want[t] \in ByteTiers <=> want[t] \notin CompressedTiers
  <1>1. want[t] \in TierIds /\ Serves(want[t])
    BY DEF TypeInv, PushersInRange, ChunkInv, PushSteps
  <1>2. \A d \in ByteTiers : d < 10
    BY DEF ByteTiers, FAST_NODE, SLOW_NODE
  <1>3. \A d \in CompressedTiers : ~(d < 10) /\ d >= 10
    BY DEF CompressedTiers, COMPRESSED_TIERS_BASE
  <1>4. want[t] \in ByteTiers \/ want[t] \in CompressedTiers
    BY <1>1 DEF TierIds
  <1>5. IF phase = "byte" THEN want[t] < 10 ELSE want[t] >= 10
    BY <1>1 DEF Serves, COMPRESSED_STARTS_FROM
  <1>6. \A d \in ByteTiers : ~(d >= 10)
    BY DEF ByteTiers, FAST_NODE, SLOW_NODE
  <1> QED
    BY <1>1, <1>2, <1>3, <1>4, <1>5, <1>6, Zenon

\* Preservation when no page moves.
LEMMA PlaceFrame ==
  ASSUME PlaceInv, NEW t \in Pushers, UNCHANGED <<nr, curr, phys>>,
         \A u \in Pushers : u # t =>
           pc'[u] = pc[u] /\ idx'[u] = idx[u] /\ want'[u] = want[u],
         pc[t] \notin {"move", "commit"}, pc'[t] \notin {"commit"},
         pc'[t] = "move" => phys[idx'[t]] \intersect CompressedTiers = {},
         pc'[t] = "move" => idx'[t] = idx[t],
         pc'[t] \in PushSteps => \A u \in Pushers :
           u # t /\ pc[u] \in PushSteps /\ idx[u] = idx'[t] => want[u] = want'[t]
  PROVE  PlaceInv'
  <1>1. Pushers' = Pushers /\ Regions' = Regions
    BY DEF Pushers, Regions
  <1>2. BelievedInv'
    <2> SUFFICES ASSUME NEW r \in Regions, \A u \in Pushers : ~Underway(u, r)'
                 PROVE  Placed(r, curr[r])'
      BY <1>1 DEF BelievedInv
    <2>1. \A u \in Pushers : ~Underway(u, r)
      BY DEF Underway
    <2>2. Placed(r, curr[r])
      BY <2>1 DEF PlaceInv, BelievedInv
    <2> QED
      BY <2>2 DEF Placed
  <1>3. MovableInv'
    BY <1>1 DEF PlaceInv, MovableInv
  <1>4. MovedInv'
    BY <1>1 DEF PlaceInv, MovedInv, Placed
  <1>5. SameWant'
    <2> SUFFICES ASSUME NEW a \in Pushers, NEW b \in Pushers,
                        pc'[a] \in PushSteps, pc'[b] \in PushSteps, idx'[a] = idx'[b]
                 PROVE  want'[a] = want'[b]
      BY <1>1 DEF SameWant
    <2>1. CASE a # t /\ b # t
      BY <2>1 DEF PlaceInv, SameWant
    <2>2. CASE a = t \/ b = t
      BY <2>2
    <2> QED
      BY <2>1, <2>2
  <1> QED
    BY <1>2, <1>3, <1>4, <1>5 DEF PlaceInv

\* A push of t that moves pages to where it wants them.
LEMMA PlaceMove ==
  ASSUME TypeInv, ChunkInv, PlaceInv, NEW t \in Pushers,
         UNCHANGED <<nr, curr, idx, want>>,
         \A u \in Pushers : u # t => pc'[u] = pc[u],
         pc[t] \in PushSteps, pc'[t] \in {"move", "commit"},
         phys' \in [Regions -> SUBSET (TierIds \union {NoTier})],
         \A r \in Regions : r # idx[t] => phys'[r] = phys[r],
         pc'[t] = "move" => /\ phase = "byte"
                            /\ phys'[idx[t]] \intersect CompressedTiers = {},
         pc'[t] = "commit" => Placed(idx[t], want[t])'
  PROVE  PlaceInv'
  <1>1. /\ Pushers' = Pushers /\ Regions' = Regions
        /\ \A u \in Pushers : pc[u] \in PushSteps => idx[u] \in Regions
        /\ \A u \in Pushers : pc'[u] \in PushSteps <=> pc[u] \in PushSteps
    BY DEF Pushers, Regions, TypeInv, PushersInRange, PushSteps, Working
  <1>2. BelievedInv'
    <2> SUFFICES ASSUME NEW r \in Regions, \A u \in Pushers : ~Underway(u, r)'
                 PROVE  Placed(r, curr[r])'
      BY <1>1 DEF BelievedInv
    <2>1. r # idx[t]
      BY DEF Underway
    <2>2. \A u \in Pushers : ~Underway(u, r)
      BY <2>1 DEF Underway
    <2>3. Placed(r, curr[r])
      BY <2>2 DEF PlaceInv, BelievedInv
    <2> QED
      BY <2>1, <2>3 DEF Placed
  <1>3. MovableInv'
    <2> SUFFICES ASSUME NEW u \in Pushers, u # t, pc[u] = "move"
                 PROVE  phys'[idx[u]] \intersect CompressedTiers = {}
      BY <1>1 DEF MovableInv
    <2>1. phase = "byte"
      BY DEF ChunkInv
    <2>2. idx[u] # idx[t]
      BY <2>1, AloneInBytePhase DEF Working, PushSteps
    <2>3. idx[u] \in Regions
      BY <1>1 DEF PushSteps
    <2> QED
      BY <2>2, <2>3 DEF PlaceInv, MovableInv
  <1>4. MovedInv'
    <2> SUFFICES ASSUME NEW u \in Pushers, u # t, pc[u] = "commit"
                 PROVE  Placed(idx[u], want[u])'
      BY <1>1 DEF MovedInv
    <2>1. Placed(idx[u], want[u]) /\ idx[u] \in Regions
      BY <1>1 DEF PlaceInv, MovedInv, PushSteps
    <2>2. CASE idx[u] # idx[t]
      BY <2>1, <2>2 DEF Placed
    <2>3. CASE idx[u] = idx[t]
      <3>1. phase # "byte"
        BY <2>3, AloneInBytePhase DEF Working, PushSteps
      <3>2. want[u] = want[t]
        BY <2>3 DEF PlaceInv, SameWant, PushSteps
      <3> QED
        BY <2>3, <3>1, <3>2
    <2> QED
      BY <2>2, <2>3
  <1>5. SameWant'
    BY <1>1 DEF PlaceInv, SameWant
  <1> QED
    BY <1>2, <1>3, <1>4, <1>5 DEF PlaceInv

\* A step of a pusher leaves the pages where the daemon then believes they are.
LEMMA PlacePusher ==
  ASSUME ~MoveMayFail, ~PageoutMayFail, TypeInv, TypeInv', ChunkInv, CoverInv, PlaceInv,
         NEW t \in Pushers, Pusher(t)
  PROVE  PlaceInv'
  <1>1. /\ pc \in [Pushers -> Steps] /\ idx \in [Pushers -> Nat]
        /\ want \in [Pushers -> TierIds \union {NoTier}]
        /\ nr \in Nat /\ Regions \subseteq Nat
        /\ curr \in [Regions -> TierIds]
        /\ phys \in [Regions -> SUBSET (TierIds \union {NoTier})]
    BY MigrateAssumption DEF TypeInv, ThreadTypes, RegionTypes, Regions
  <1>2. /\ PushSteps = {"push", "migrate", "move", "commit"}
        /\ \A u \in Pushers : pc[u] \in PushSteps => idx[u] \in Regions
    BY DEF PushSteps, Working, TypeInv, PushersInRange
  <1>3. \A d \in ByteTiers : d \notin CompressedTiers
    BY DEF ByteTiers, CompressedTiers, FAST_NODE, SLOW_NODE, COMPRESSED_TIERS_BASE
  <1>4. FAST_NODE \in ByteTiers
    BY DEF ByteTiers
  <1>5. CASE Enter(t) \/ Tally(t) \/ Limit(t) \/ Check(t) \/ Report(t) \/ PrintReport(t)
    <2>1. /\ \A u \in Pushers : u # t =>
               pc'[u] = pc[u] /\ idx'[u] = idx[u] /\ want'[u] = want[u]
          /\ UNCHANGED <<nr, curr, phys>>
          /\ pc[t] \in {"enter", "tally", "limit", "check", "report", "print"}
          /\ pc'[t] \in {"pick", "done", "limit", "check", "report", "print"}
      BY <1>1, <1>5 DEF Enter, Tally, Limit, Check, Report, PrintReport, At, Goto, regionVars
    <2> QED
      BY <1>2, <2>1, PlaceFrame
  <1>6. CASE Pick(t)
    <2>1. /\ \A u \in Pushers : u # t =>
               pc'[u] = pc[u] /\ idx'[u] = idx[u] /\ want'[u] = want[u]
          /\ UNCHANGED <<nr, curr, phys>> /\ pc[t] = "pick"
          /\ pc'[t] \in {"pick", "push", "report"}
      BY <1>1, <1>6 DEF Pick, At, Goto, regionVars
    <2>2. ASSUME pc'[t] \in PushSteps, NEW u \in Pushers, u # t,
                 pc[u] \in PushSteps, idx[u] = idx'[t]
          PROVE  want[u] = want'[t]
      <3>1. /\ idx'[t] = idx[t] /\ idx[t] < ChunkEnd(t) /\ Serves(dst[idx[t]])
            /\ want'[t] = dst[idx[t]]
        BY <1>1, <1>2, <1>6, <2>1, <2>2 DEF Pick, Goto
      <3>2. dst[idx[t]] \in {want[u], NoTier}
        BY <2>2, <3>1 DEF CoverInv, WantInv
      <3>3. CASE phase = "byte"
        <4>1. ChunkStart(t) <= idx[t]
          BY <2>1, <3>3 DEF ChunkInv, OwnChunks
        <4>2. InChunk(u)
          BY <1>2, <2>2, <3>3 DEF ChunkInv, OwnChunks, Working
        <4>3. t = u
          BY <1>1, <2>2, <3>1, <4>1, <4>2, ChunksDisjoint DEF InChunk
        <4> QED
          BY <2>2, <4>3
      <3>4. CASE phase # "byte"
        <4>1. ~Serves(NoTier)
          BY <3>4 DEF Serves, NoTier, COMPRESSED_STARTS_FROM
        <4> QED
          BY <3>1, <3>2, <4>1
      <3> QED
        BY <3>3, <3>4
    <2> QED
      BY <1>2, <2>1, <2>2, PlaceFrame
  <1>7. CASE Push(t)
    <2>1. /\ \A u \in Pushers : u # t => pc'[u] = pc[u]
          /\ UNCHANGED <<nr, curr, phys, idx, want>>
          /\ pc[t] = "push" /\ pc'[t] \in {"tally", "migrate", "move"}
          /\ pc'[t] = "move" => ~EnableNtier
      BY <1>1, <1>7 DEF Push, At, Goto, regionVars
    <2>2. ~EnableNtier => CompressedTiers = {}
      BY DEF CompressedTiers
    <2>3. \A u \in Pushers : pc[u] \in PushSteps /\ idx[u] = idx[t] => want[u] = want[t]
      BY <1>2, <2>1 DEF PlaceInv, SameWant
    <2> QED
      BY <1>2, <2>1, <2>2, <2>3, PlaceFrame
  <1>8. CASE Migrate(t)
    <2>1. /\ UNCHANGED <<nr, curr, idx, want, phase>> /\ pc[t] = "migrate"
      BY <1>8 DEF Migrate, At, regionVars, windowVars
    <2>2. idx[t] \in Regions
      BY <1>2, <2>1
    <2>3. CASE UNCHANGED <<phys, pc>>
      <3>1. \A u \in Pushers : pc[u] \in PushSteps /\ idx[u] = idx[t] => want[u] = want[t]
        BY <1>2, <2>1 DEF PlaceInv, SameWant
      <3> QED
        BY <1>2, <2>1, <2>3, <3>1, PlaceFrame
    <2>4. ASSUME NEW S \in MigrateOutcomes(phys[idx[t]], want[t]),
                 phys' = [phys EXCEPT ![idx[t]] = S],
                 Goto(t, IF want[t] \in CompressedTiers THEN "commit" ELSE "move")
          PROVE  PlaceInv'
      <3>1. /\ \A u \in Pushers : u # t => pc'[u] = pc[u]
            /\ pc'[t] = IF want[t] \in CompressedTiers THEN "commit" ELSE "move"
        BY <1>1, <2>4 DEF Goto
      <3>2. \A r \in Regions : r # idx[t] => phys'[r] = phys[r]
        BY <1>1, <2>4
      <3>3. phys'[idx[t]] = S
        BY <1>1, <2>2, <2>4
      <3>4. phys' \in [Regions -> SUBSET (TierIds \union {NoTier})]
        BY <2>1 DEF TypeInv, RegionTypes, Regions
      <3>5. ASSUME pc'[t] = "move"
            PROVE  phase = "byte" /\ phys'[idx[t]] \intersect CompressedTiers = {}
        <4>1. want[t] \notin CompressedTiers
          BY <3>1, <3>5
        <4>2. phase = "byte"
          BY <2>1, <4>1, ServedTier
        <4>3. S = FaultedIn(phys[idx[t]])
          BY <4>1 DEF MigrateOutcomes
        <4> QED
          BY <1>3, <1>4, <3>3, <4>2, <4>3 DEF FaultedIn
      <3>6. ASSUME pc'[t] = "commit"
            PROVE  Placed(idx[t], want[t])'
        <4>1. want[t] \in CompressedTiers
          BY <3>1, <3>6
        <4>2. S = {want[t]}
          BY <2>4, <4>1 DEF MigrateOutcomes
        <4> QED
          BY <1>3, <2>1, <3>3, <4>1, <4>2 DEF Placed
      <3> QED
        BY <1>2, <2>1, <3>1, <3>2, <3>4, <3>5, <3>6, PlaceMove
    <2> QED
      BY <1>8, <2>3, <2>4 DEF Migrate
  <1>9. CASE Move(t)
    <2>1. /\ \A u \in Pushers : u # t => pc'[u] = pc[u]
          /\ UNCHANGED <<nr, curr, idx, want, phase>>
          /\ pc[t] = "move" /\ pc'[t] = "commit"
      BY <1>1, <1>9 DEF Move, At, Goto, regionVars, windowVars
    <2>2. idx[t] \in Regions
      BY <1>2, <2>1
    <2>3. phase = "byte" /\ dst[idx[t]] = want[t]
      BY <2>1 DEF ChunkInv, PushSteps
    <2>4. phys[idx[t]] \intersect CompressedTiers = {}
      BY <2>1 DEF PlaceInv, MovableInv
    <2>5. phys' = [phys EXCEPT ![idx[t]] = {want[t]}]
      BY <1>9, <2>3, <2>4 DEF Move
    <2>6. phys'[idx[t]] = {want[t]} /\ \A r \in Regions : r # idx[t] => phys'[r] = phys[r]
      BY <1>1, <2>2, <2>5
    <2>7. want[t] \in ByteTiers
      BY <2>1, <2>3, ServedTier
    <2>8. Placed(idx[t], want[t])'
      BY <2>1, <2>6, <2>7 DEF Placed
    <2>9. phys' \in [Regions -> SUBSET (TierIds \union {NoTier})]
      BY <2>1 DEF TypeInv, RegionTypes, Regions
    <2> QED
      BY <1>2, <2>1, <2>6, <2>8, <2>9, PlaceMove
  <1>10. CASE Commit(t)
    <2>1. /\ \A u \in Pushers : u # t => pc'[u] = pc[u]
          /\ UNCHANGED <<nr, phys, idx, want>>
          /\ pc[t] = "commit" /\ pc'[t] = "tally"
          /\ curr' = [curr EXCEPT ![idx[t]] = want[t]]
      BY <1>1, <1>10 DEF Commit, At, Goto
    <2>2. Pushers' = Pushers /\ Regions' = Regions
      BY <2>1 DEF Pushers, Regions
    <2>3. BelievedInv'
      <3> SUFFICES ASSUME NEW r \in Regions, \A u \in Pushers : ~Underway(u, r)'
                   PROVE  Placed(r, curr[r])'
        BY <2>2 DEF BelievedInv
      <3>1. CASE r = idx[t]
        <4>1. Placed(r, want[t])
          BY <2>1, <3>1 DEF PlaceInv, MovedInv
        <4>2. curr'[r] = want[t]
          BY <1>1, <2>1, <3>1
        <4> QED
          BY <2>1, <4>1, <4>2 DEF Placed
      <3>2. CASE r # idx[t]
        <4>1. \A u \in Pushers : ~Underway(u, r)
          BY <2>1, <3>2 DEF Underway
        <4>2. Placed(r, curr[r]) /\ curr'[r] = curr[r]
          BY <1>1, <2>1, <3>2, <4>1 DEF PlaceInv, BelievedInv
        <4> QED
          BY <2>1, <4>2 DEF Placed
      <3> QED
        BY <3>1, <3>2
    <2>4. MovableInv' /\ MovedInv'
      BY <2>1, <2>2 DEF PlaceInv, MovableInv, MovedInv, Placed
    <2>5. SameWant'
      BY <1>2, <2>1, <2>2 DEF PlaceInv, SameWant
    <2> QED
      BY <2>3, <2>4, <2>5 DEF PlaceInv
  <1> QED
    BY <1>5, <1>6, <1>7, <1>8, <1>9, <1>10 DEF Pusher

\* So does every other step, if the vector stays.
LEMMA PlaceNext ==
  ASSUME ~SpaceGrows, ~MoveMayFail, ~PageoutMayFail, TypeInv, TypeInv', ChunkInv,
         CoverInv, PlaceInv, [Next]_vars
  PROVE  PlaceInv'
  <1>1. CASE \/ StartWindow \/ AbortWindow \/ StartZswapPhase \/ EndWindow
             \/ Elapse \/ UNCHANGED vars
    <2>1. UNCHANGED <<nr, curr, phys>>
      <3>1. \A grown \in {FALSE, SpaceGrows} : FixRegions(grown) => UNCHANGED <<nr, curr, phys>>
        <4>1. SpaceGrows = FALSE
          BY MigrateAssumption, Zenon
        <4>2. \A grown \in {FALSE, SpaceGrows} : ~grown
          BY <4>1, Zenon
        <4> QED
          BY <4>2, Zenon DEF FixRegions
      <3>2. CASE StartWindow
        BY <3>1, <3>2 DEF StartWindow
      <3>3. CASE AbortWindow
        BY <3>1, <3>3 DEF AbortWindow
      <3> QED
        BY <1>1, <3>2, <3>3 DEF StartZswapPhase, EndWindow, Elapse, vars, regionVars
    <2>2. Pushers' = Pushers /\ Regions' = Regions
      BY <2>1 DEF Pushers, Regions
    <2>3. CASE UNCHANGED <<pc, idx, want>>
      BY <2>1, <2>2, <2>3 DEF PlaceInv, BelievedInv, MovableInv, MovedInv, SameWant,
         Underway, Placed
    <2>4. CASE AllJoined /\ \A t \in Pushers : pc'[t] = "enter"
      <3>1. BelievedInv'
        BY <2>1, <2>2, <2>4 DEF PlaceInv, BelievedInv, Underway, Placed, AllJoined
      <3> QED
        BY <2>2, <2>4, <3>1 DEF PlaceInv, MovableInv, MovedInv, SameWant, PushSteps
    <2> QED
      BY <1>1, <2>3, <2>4 DEF StartWindow, AbortWindow, StartZswapPhase, EndWindow, Elapse,
         Spawn, TypeInv, PushersInRange, vars
  <1>2. ASSUME NEW r \in Regions, Touch(r)
        PROVE  PlaceInv'
    <2>1. UNCHANGED <<nr, curr, pc, idx, want>>
      BY <1>2 DEF Touch, regionVars
    <2>2. Pushers' = Pushers /\ Regions' = Regions
      BY <2>1 DEF Pushers, Regions
    <2>3. PICK c \in phys[r] \intersect CompressedTiers : \E gone \in SUBSET {c} :
            phys' = [phys EXCEPT ![r] = (@ \ gone) \union {FAST_NODE}]
      BY <1>2 DEF Touch
    <2>4. /\ \A q \in Regions : q # r => phys'[q] = phys[q]
          /\ phys'[r] \subseteq phys[r] \union {FAST_NODE}
      BY <2>3 DEF TypeInv, RegionTypes
    <2>5. \A d \in ByteTiers : d \notin CompressedTiers
      BY DEF ByteTiers, CompressedTiers, FAST_NODE, SLOW_NODE, COMPRESSED_TIERS_BASE
    <2>6. ASSUME NEW q \in Regions, NEW d, Placed(q, d)
          PROVE  Placed(q, d)'
      <3>1. CASE q # r
        BY <2>4, <2>6, <3>1 DEF Placed
      <3>2. CASE q = r
        <4>1. d \notin ByteTiers
          BY <2>3, <2>5, <2>6, <3>2 DEF Placed
        <4> QED
          BY <2>4, <2>6, <3>2, <4>1 DEF Placed
      <3> QED
        BY <3>1, <3>2
    <2>7. BelievedInv'
      BY <2>1, <2>2, <2>6 DEF PlaceInv, BelievedInv, Underway
    <2>8. \A t \in Pushers : pc[t] \in {"move", "commit"} => idx[t] \in Regions
      BY DEF TypeInv, PushersInRange, Working
    <2>9. MovableInv'
      BY <2>1, <2>2, <2>3, <2>4, <2>8 DEF PlaceInv, MovableInv
    <2>10. MovedInv'
      BY <2>1, <2>2, <2>6, <2>8 DEF PlaceInv, MovedInv
    <2>11. SameWant'
      BY <2>1, <2>2 DEF PlaceInv, SameWant
    <2> QED
      BY <2>7, <2>9, <2>10, <2>11 DEF PlaceInv
  <1> QED
    BY <1>1, <1>2, PlacePusher DEF Next, Finished

\* Once the push of a region is over, the region is where the daemon believes
\* it to be, if the address space keeps its size and the kernel moves and
\* reclaims the pages it is asked to; the application may touch them meanwhile.
THEOREM BeliefsSound ==
  ASSUME ~SpaceGrows, ~MoveMayFail, ~PageoutMayFail
  PROVE  Spec => []BeliefSound
  <1>1. Init => PlaceInv
    BY DEF Init, PlaceInv, BelievedInv, MovableInv, MovedInv, SameWant, PushSteps, Placed,
       ByteTiers
  <1>2. TypeInv /\ TypeInv' /\ ChunkInv /\ CoverInv /\ PlaceInv /\ [Next]_vars => PlaceInv'
    BY PlaceNext
  <1>3. PlaceInv => BeliefSound
    BY DEF PlaceInv, BelievedInv, BeliefSound, Underway, Pushing, Placed
  <1> QED
    BY <1>1, <1>2, <1>3, TypeInvariant, ChunkInvariant, CoverInvariant, PTL DEF Spec

=============================================================================
