--------------------------- MODULE RoiMeasurement ---------------------------
(***************************************************************************)
(* What a run of a benchmark promises: the region of interest is entered   *)
(* at most once, and what is reported of it is its own length and its own  *)
(* statistics, whether it comes to its end or is cut short.                *)
(***************************************************************************)
EXTENDS Naturals

VARIABLES
  stage,    \* "before", "inside" or "after" the region, or "aborted" before it
  length,   \* how long the region took
  report    \* << >>, then the time and the periods that have been reported

mvars == <<stage, length, report>>

MInit == stage = "before" /\ length = 0 /\ report = << >>

Enter == stage = "before" /\ stage' = "inside" /\ UNCHANGED <<length, report>>

Abort == stage = "before" /\ stage' = "aborted" /\ UNCHANGED <<length, report>>

Leave ==
  /\ stage = "inside"
  /\ stage' = "after"
  /\ length' \in Nat
  /\ report' = <<length', {"roi"}>>

MNext == Enter \/ Abort \/ Leave

MSpec == MInit /\ [][MNext]_mvars
=============================================================================
