--------------------------- MODULE AbstractReview ---------------------------
(***************************************************************************)
(* What the review of a PR promises to one who sees the PR and the         *)
(* checkpoint only: no round is skipped and none comes back; a round is    *)
(* attested by each engine once, by Claude on top of Codex; the review     *)
(* converges on both attestations of one round, and keeps them; the PR     *)
(* leaves draft only after that was announced, and only a PR that has left *)
(* draft is recorded as finished; a review is taken up again only while    *)
(* the PR is a draft.                                                      *)
(***************************************************************************)
EXTENDS Integers

VARIABLES
    round,      \* the round on record
    stage,      \* how far the record says that the review is
    signed,     \* the results that the record names
    attested,   \* the results that are attested on the PR
    draft       \* the PR is a draft

reviewVars == <<round, stage, signed, attested, draft>>

Init == round = 1 /\ stage = "reviewing" /\ signed = {} /\ attested = {} /\ draft = TRUE

(* k was made on what c left, in one round and on one base.                *)
Follows(c, k) ==
    /\ c.engine = "codex" /\ k.engine = "claude"
    /\ c.round = k.round /\ c.base = k.base /\ c.after <= k.before

Attest ==
    /\ stage = "reviewing"
    /\ \E a \in attested' \ attested :
         /\ attested' = attested \cup {a} /\ a.round = round
         /\ \A b \in attested : b.round = round => b.engine # a.engine
         /\ a.engine = "claude" => \E c \in attested : Follows(c, a)
    /\ UNCHANGED <<round, stage, signed, draft>>

NextRound ==
    /\ draft
    /\ round' = round + 1 /\ stage' = "reviewing" /\ signed' = {}
    /\ UNCHANGED <<attested, draft>>

Converge ==
    /\ stage = "reviewing" /\ stage' = "converged"
    /\ \E c, k \in attested :
         /\ signed' = {c, k} /\ Follows(c, k) /\ k.round = round
         /\ {c.status, k.status} \subseteq {"clean", "minor"}
    /\ UNCHANGED <<round, attested, draft>>

Announce == stage = "converged" /\ stage' = "finalizing" /\ UNCHANGED <<round, signed, attested, draft>>

Publish ==
    /\ stage = "finalizing" /\ draft /\ draft' = FALSE
    /\ UNCHANGED <<round, stage, signed, attested>>

Finish ==
    /\ stage = "finalizing" /\ ~draft /\ stage' = "finalized"
    /\ UNCHANGED <<round, signed, attested, draft>>

(* The publication failed, or the PR is not what was announced.            *)
TakeBack == ~draft /\ draft' = TRUE /\ UNCHANGED <<round, stage, signed, attested>>
Unfinish ==
    /\ stage = "finalized" /\ draft /\ stage' = "finalizing"
    /\ UNCHANGED <<round, signed, attested, draft>>

Next ==
    \/ Attest \/ NextRound \/ Converge \/ Announce \/ Publish \/ Finish
    \/ TakeBack \/ Unfinish

Spec == Init /\ [][Next]_reviewVars
=============================================================================
