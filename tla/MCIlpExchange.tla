--------------------------- MODULE MCIlpExchange ---------------------------
(***************************************************************************)
(* IlpExchange with two regions and the five tiers.                        *)
(***************************************************************************)
EXTENDS IlpExchange

\* Tiers whose index is not their id, and tiers whose index is.
TwoSolutions == {<<3, 0>>, <<1, 4>>}

=============================================================================
