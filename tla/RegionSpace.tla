---------------------------- MODULE RegionSpace ----------------------------
(***************************************************************************)
(* The algorithms of the region logic (core/region_logic): how an address  *)
(* space is cut into regions, how a batch of accesses is counted into      *)
(* them, and the threshold that convolve.py derives from the counts.       *)
(*                                                                         *)
(* Addresses are naturals in a unit of the reader's choice.  A vector of   *)
(* regions is a function on the indices that fill_regions pushes; region i *)
(* of a space that starts at lo is [lo + i * RegionSize, ... + RegionSize).*)
(***************************************************************************)
EXTENDS Integers, Sequences, FiniteSets, SequencesExt

CONSTANTS
  RegionSize,       \* REGION_SIZE, 2 MB
  MegaByte          \* the unit in which the length of the space is tested

ASSUME RegionSizeAssumption == RegionSize \in Nat \ {0}
ASSUME MegaByteAssumption == MegaByte \in Nat \ {0}

RegionStart(lo, i) == lo + i * RegionSize

\* fill_regions: the indices for which its loop runs.
Filled_WholeOnly(lo, hi) ==
  {i \in 0..hi - lo : RegionStart(lo, i) + RegionSize <= hi}
Filled(lo, hi) ==
  {i \in 0..hi - lo : RegionStart(lo, i) + RegionSize < hi + RegionSize}

\* assign_events_to_regions: the index of the region of an address.
IndexOf_Rounded(lo, a) == (a - lo + 1) \div RegionSize
IndexOf(lo, a) == (a - lo) \div RegionSize

\* What std::sort makes of a sequence of numbers: each one stands as far down
\* as there are smaller ones, and equal ones before it.
Sorted(s) ==
  LET rank(k) == Cardinality({j \in DOMAIN s : s[j] < s[k] \/ (s[j] = s[k] /\ j <= k)})
  IN  [i \in DOMAIN s |-> s[CHOOSE k \in DOMAIN s : rank(k) = i]]

\* One turn of sort_count_unique_process_mod over the sorted accesses: the
\* address being counted, how often it was seen, and the entries finished.
CountOne_KeepCount(lo, hi, s, a) ==
  IF a < lo \/ a > hi \/ a = 0 THEN s
  ELSE IF s.last = 0 THEN [s EXCEPT !.last = a]
  ELSE IF s.last = a THEN [s EXCEPT !.cnt = @ + 1]
  ELSE [s EXCEPT !.last = a, !.out = Append(@, [addr |-> s.last, count |-> s.cnt])]
CountOne(lo, hi, s, a) ==
  IF a < lo \/ a > hi \/ a = 0 THEN s
  ELSE IF s.last = 0 THEN [s EXCEPT !.last = a]
  ELSE IF s.last = a THEN [s EXCEPT !.cnt = @ + 1]
  ELSE [last |-> a, cnt |-> 1,
        out |-> Append(s.out, [addr |-> s.last, count |-> s.cnt])]

\* The distinct addresses of a batch inside lo..hi, in order, each with its
\* count.  There is a last entry even if every access was discarded.
RunLengths(batch, lo, hi) ==
  LET s == FoldLeft(LAMBDA acc, a : CountOne(lo, hi, acc, a),
                    [last |-> 0, cnt |-> 1, out |-> <<>>],
                    Sorted(batch))
  IN  Append(s.out, [addr |-> s.last, count |-> s.cnt])

\* collected_hotness of the regions dom after the entries have been counted.
\* An index beyond the vector adds to none of them.
Collected(entries, lo, hi, dom) ==
  [i \in dom |->
     LET mine == {k \in DOMAIN entries :
                    entries[k].addr \in lo..hi /\ IndexOf(lo, entries[k].addr) = i}
     IN  SumFunction([k \in mine |-> entries[k].count])]

\* The entries whose index lies beyond the vector.
Beyond(entries, lo, hi, dom) ==
  {k \in DOMAIN entries :
     entries[k].addr \in lo..hi /\ IndexOf(lo, entries[k].addr) \notin dom}

(***************************************************************************)
(* convolve.py.                                                            *)
(***************************************************************************)

\* The weights, in tenths.
Weights == <<1, 3, 4, 8, 4, 3, 1>>

\* np.convolve(..., mode = 'same') is as long as the longer operand and
\* centred on it, and zip keeps its first n values: with fewer regions than
\* weights the window is off centre.  A region keeps at least its own count.
Convolved(counts) ==
  LET n == Cardinality(DOMAIN counts)
      shift == IF n >= Len(Weights) THEN 3 ELSE (n - 1) \div 2
      weighed(k) == [j \in {j \in DOMAIN counts : k + shift - j \in 0..6} |->
                       counts[j] * Weights[k + shift - j + 1]]
  IN  [k \in DOMAIN counts |->
         LET w == SumFunction(weighed(k)) \div 10
         IN  IF w > counts[k] THEN w ELSE counts[k]]

\* np.percentile of the values that the regions hot have, interpolated, and cut
\* to an integer as the daemon does when it uses it.  (In floating point a sum
\* that is a whole number here may be cut one lower there.)
PercentileAmong(p, conv, hot) ==
  LET v == Sorted([j \in 1..Cardinality(hot) |-> conv[SetToSeq(hot)[j]]])
      at == (Len(v) - 1) * p
      low == v[at \div 100 + 1]
  IN  IF at % 100 = 0 THEN low
      ELSE low + ((at % 100) * (v[at \div 100 + 2] - low)) \div 100

\* Of the two percentiles that convolve.py prints, the one it leaves in
\* /tmp/comm is that of the values above zero.
PercentileOf_WithZeros(p, counts) ==
  LET conv == Convolved(counts)
  IN  PercentileAmong(p, conv, DOMAIN conv)
PercentileOf(p, counts) ==
  LET conv == Convolved(counts)
  IN  PercentileAmong(p, conv, {k \in DOMAIN conv : conv[k] > 0})

=============================================================================
