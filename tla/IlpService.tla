----------------------------- MODULE IlpService -----------------------------
(***************************************************************************)
(* What the window thread relies on when the mapping asks the ILP server:  *)
(* an abstract specification, implemented by IlpExchange.                  *)
(*                                                                         *)
(* A request is answered by a placement that was computed for it, or the   *)
(* daemon ends.  Of the answer a region may be missing; its recommendation *)
(* is then the one it had, and it had one.                                 *)
(***************************************************************************)
CONSTANTS
  Regions,          \* the regions of the address space
  Placements,       \* functions from Regions to tiers
  NoTier            \* no recommendation

VARIABLES
  status,           \* "idle", "waiting" for an answer, "ended"
  rec,              \* the tier recommended for each region
  answer            \* the placement computed for the request being waited for

vars == <<status, rec, answer>>

NoAnswer == <<>>
Nowhere == [r \in Regions |-> NoTier]

Init ==
  /\ status = "ended"
  /\ rec = Nowhere
  /\ answer = NoAnswer

\* A daemon is started, knowing of no recommendation.
Start ==
  /\ status = "ended" /\ status' = "idle"
  /\ UNCHANGED <<rec, answer>>

Ask ==
  /\ status = "idle" /\ status' = "waiting"
  /\ UNCHANGED <<rec, answer>>

\* The server finds a placement for the request.
Compute ==
  /\ status = "waiting" /\ answer = NoAnswer
  /\ answer' \in Placements
  /\ UNCHANGED <<status, rec>>

\* The recommendations after an answer of which some regions may be missing.
Adopted ==
  {f \in [Regions -> {rec[r] : r \in Regions} \union
                     (IF answer = NoAnswer THEN {}
                      ELSE {answer[r] : r \in Regions})] :
     \A r \in Regions :
       /\ f[r] # NoTier
       /\ f[r] = rec[r] \/ (answer # NoAnswer /\ f[r] = answer[r])}

Adopt ==
  /\ status = "waiting" /\ status' = "idle"
  /\ rec' \in Adopted
  /\ answer' = NoAnswer

\* Recommendations are carried out, or dropped with the regions.
Migrate ==
  /\ status = "idle"
  /\ \E gone \in SUBSET Regions :
       rec' = [r \in Regions |-> IF r \in gone THEN NoTier ELSE rec[r]]
  /\ UNCHANGED <<status, answer>>

End ==
  /\ status # "ended" /\ status' = "ended"
  /\ rec' = Nowhere
  /\ answer' = NoAnswer

Next == Start \/ Ask \/ Compute \/ Adopt \/ Migrate \/ End

Spec == Init /\ [][Next]_vars

=============================================================================
