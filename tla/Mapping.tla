------------------------------ MODULE Mapping ------------------------------
(***************************************************************************)
(* The mapping logic (core/mapping_logic): how the hotness of a region     *)
(* becomes the tier recommended for it, and the navigation between the     *)
(* tiers (TIERS_INFO in utils/model.h).  The policy that asks a server is  *)
(* the subject of IlpExchange.                                             *)
(***************************************************************************)
EXTENDS TierInfo

CONSTANTS
  HotTh,            \* SKD_HOT_TH, option -c: a percentile, or a count
  SlowTier          \* slow_tier, option -h: an index of the tier vector or -1

ASSUME HotThAssumption == HotTh \in Nat
ASSUME SlowTierAssumption == SlowTier \in Nat \union {-1}

\* get_next_tier_virt_id: an id that is not in the table counts as none.
NextTier_Twice(id) ==
  IF IdxOf(id) = -1 THEN FastTier
  ELSE IF IdxOf(id) + 2 >= NrTiers THEN IdOf(NrTiers - 1)
  ELSE IdOf(IdxOf(id) + 2)
NextTier(id) ==
  IF IdxOf(id) = -1 THEN FastTier
  ELSE IF IdxOf(id) + 1 >= NrTiers THEN IdOf(NrTiers - 1)
  ELSE IdOf(IdxOf(id) + 1)

\* get_slow_tier_virt_id
SlowTierId_Size ==
  IF SlowTier = -1 \/ SlowTier > NrTiers THEN IdOf(NrTiers) ELSE IdOf(SlowTier)
SlowTierId ==
  IF SlowTier = -1 \/ SlowTier >= NrTiers THEN IdOf(NrTiers - 1)
  ELSE IdOf(SlowTier)

\* percentile_arr: HotTh is read as a percentile if it is one of these.
PercentileArr == {25, 50, 75, 90, 95, 99}
UsesPercentile == HotTh \in PercentileArr

\* process_regions of HeMem for one region.
HememTier(hotness, threshold) ==
  IF hotness >= threshold THEN FastTier ELSE SlowTierId

\* process_regions of Waterfall for one region: a cold region goes one tier
\* down from where it was last recommended to, or, if that has been carried
\* out, from where it is.  In the former case it is taken to have come back
\* if no sampled page of it is in swap.
WaterfallTier(hotness, threshold, curr, dst, noneSwapped) ==
  LET down == NextTier(IF dst < 0 THEN curr ELSE dst)
  IN  IF hotness >= threshold THEN FastTier
      ELSE IF dst >= 0 /\ noneSwapped /\ down >= 2 THEN FastTier
      ELSE down

=============================================================================
