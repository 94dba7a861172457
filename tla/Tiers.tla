------------------------------- MODULE Tiers -------------------------------
(***************************************************************************)
(* The tier table of the daemon (utils/tier_config.h, utils/model.h).      *)
(*                                                                         *)
(* A tier is named by its virtual id.  Ids below COMPRESSED_STARTS_FROM    *)
(* are NUMA nodes and double as node numbers; the compressed tiers exist   *)
(* only in a build with ENABLE_NTIER, and the kernel's zswap pool of tier  *)
(* t is the one with index t - COMPRESSED_TIERS_BASE.                      *)
(***************************************************************************)
EXTENDS Integers

CONSTANT EnableNtier      \* the ENABLE_NTIER build flag of sk_daemon/Makefile

ASSUME NtierAssumption == EnableNtier \in BOOLEAN

FAST_NODE == 0
SLOW_NODE == 1
COMPRESSED_TIERS_BASE == 10
COMPRESSED_STARTS_FROM == 10

\* dst_virt_tier of a region that has no recommendation.
NoTier == -1

ByteTiers == {FAST_NODE, SLOW_NODE}
CompressedTiers ==
  IF EnableNtier THEN {COMPRESSED_TIERS_BASE + i : i \in 0..2} ELSE {}
TierIds == ByteTiers \union CompressedTiers

\* TierInfo::backing_store: the node that holds the pages, or the zswap pool.
BackingStore(t) ==
  IF t \in {FAST_NODE, COMPRESSED_TIERS_BASE, COMPRESSED_TIERS_BASE + 1}
  THEN FAST_NODE ELSE SLOW_NODE

=============================================================================
