-------------------------- MODULE MCProfileWindow --------------------------
(***************************************************************************)
(* ProfileWindow on small address spaces, with regions of two addresses.   *)
(***************************************************************************)
EXTENDS ProfileWindow

Space(lo, hi) == [lo |-> lo, hi |-> hi]

\* No space at all; two regions, the last of them cut short or not; spaces
\* that are longer, by whole regions and by less.
GrowingSpaces == {Space(3, 3), Space(3, 6), Space(3, 7), Space(1, 7),
                  Space(2, 8)}

\* Batches: one address alone or again and again, the ends of the
\* spaces and beyond, two regions and three.
SmallBatches == {<<4, 4>>, <<1, 9>>, <<3, 7>>, <<3, 4, 5>>, <<6, 5, 4, 5>>,
                 <<5, 1, 9, 2, 1>>, <<2, 3, 3, 8>>}

\* No threshold file, or one of an earlier run of the daemon.
OldFiles == {Absent, 2}

\* slow_tier as it is without the option.
NoSlowTier == -1

\* Five regions, accessed alike.
EvenSpace == {Space(1, 10), Space(1, 11)}
EvenBatches == {<<1, 1, 3, 3, 5, 5, 7, 7, 9, 9>>, <<1, 2, 3, 4, 5, 6, 7, 8, 9, 9>>}

=============================================================================
