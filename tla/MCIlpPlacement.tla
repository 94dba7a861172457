--------------------------- MODULE MCIlpPlacement ---------------------------
(***************************************************************************)
(* IlpPlacement with groups of two regions and ints of 32 values.          *)
(***************************************************************************)
EXTENDS IlpPlacement

\* Three full groups less one region, with ties and cold regions; and two
\* groups with a hotness above the cap and one that does not fit an int.
SmallRequests == [1..5 -> {0, 1, 4}] \union [1..3 -> {0, 1, 12, 15, 17}]

=============================================================================
