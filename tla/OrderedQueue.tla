---------------------------- MODULE OrderedQueue ----------------------------
(***************************************************************************)
(* What an ordered batch promises: issues are settled one after the other, *)
(* an issue is published only when it is the first that is not settled,    *)
(* and it is settled as finalized only when its review was completed.  An  *)
(* issue may be bailed at any stage: a review that was completed without   *)
(* the batch knowing of it has no other way on.                            *)
(***************************************************************************)
EXTENDS Integers, Sequences

CONSTANT N      \* issues

VARIABLES
    settled,    \* how each settled issue ended, in the order of the batch
    stage       \* of the first issue that is not settled

Stages == {"untouched", "published", "complete"}
queueVars == <<settled, stage>>

Init == settled = <<>> /\ stage = "untouched"

Publish == Len(settled) < N /\ stage = "untouched" /\ stage' = "published" /\ UNCHANGED settled
Complete == stage = "published" /\ stage' = "complete" /\ UNCHANGED settled

Settle(outcome) == settled' = Append(settled, outcome) /\ stage' = "untouched"
Finalize == stage = "complete" /\ Settle("finalized")
Bail == Len(settled) < N /\ Settle("bailed")

Next == Publish \/ Complete \/ Finalize \/ Bail

Spec == Init /\ [][Next]_queueVars
=============================================================================
