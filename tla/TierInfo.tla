------------------------------ MODULE TierInfo ------------------------------
(***************************************************************************)
(* TIERS_INFO (utils/model.h): the vector of tiers.  A tier is addressed   *)
(* by its virtual id in the daemon and the kernel, and by its index in the *)
(* vector in the exchange with the ILP server.                             *)
(***************************************************************************)
EXTENDS Tiers, Sequences

\* TIERS_INFO::tiers after its sort: the ids in ascending order.
TierVector == IF EnableNtier THEN <<0, 1, 10, 11, 12>> ELSE <<0, 1>>
NrTiers == Len(TierVector)

IdOf(idx) == IF idx \in 0..NrTiers - 1 THEN TierVector[idx + 1] ELSE -1
IdxOf(id) ==
  IF \E i \in 1..NrTiers : TierVector[i] = id
  THEN (CHOOSE i \in 1..NrTiers : TierVector[i] = id) - 1
  ELSE -1

FastTier == IdOf(0)

=============================================================================
