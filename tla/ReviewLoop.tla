----------------------------- MODULE ReviewLoop -----------------------------
(***************************************************************************)
(* The review of one issue by agent-loop.sh, from the draft PR to the PR   *)
(* marked ready: rounds of a Codex pass and a Claude pass, the checkpoints *)
(* that let an interrupted run be resumed, and the finalization with its   *)
(* rollback.  The wrapper is the process with program counter pc and       *)
(* volatile memory ctl; runState, the journals, the results and the        *)
(* worktree are on disk; remote, base, prDraft and attests are on GitHub.  *)
(* Review contract version 3 or later.                                     *)
(***************************************************************************)
EXTENDS ReviewPass

CONSTANTS
    ResumeCaps,  \* review_max_rounds found in the config by a resume
    MaxBase,     \* bound: fast-forwards of the base branch
    MaxFaults    \* bound: disturbances and interruptions

ASSUME LoopAssumption ==
    /\ ResumeCaps \subseteq 1..MaxRounds
    /\ MaxBase \in Nat /\ MaxFaults \in Nat

VARIABLES
    pc,          \* where the wrapper is; "stopped" when no wrapper runs
    ctl,         \* the wrapper's variables, lost when it stops
    runState,    \* run-state.json
    merged,      \* the base tips that HEAD contains
    prDraft,     \* the PR is a draft
    attests,     \* the results attested by a comment on the PR
    ledgerOk,    \* every review thread has its disposition and is resolved
    issueOk,     \* the issue is still open, claimed and as it was
    faults       \* disturbances so far

hostVars == <<prDraft, attests, ledgerOk, issueOk>>
vars == <<passVars, pc, ctl, runState, merged, hostVars, faults>>

(* What every step of the wrapper leaves alone unless it says so.          *)
world == <<remote, base, expired, ledgerOk, issueOk, faults>>

RunningPcs ==
    {"start", "round", "merge", "validateMerge", "publish", "attestMerge", "leg",
     "recoverClaude", "pass", "open", "hook", "inspect", "attest", "validate",
     "toClaude", "moved", "decide", "final", "finalize", "checkpoint", "ready",
     "verifyReady", "record", "rollback", "rollbackRecord", "unrecord", "cleanup",
     "boundary", "rebase", "recovered"}
Pcs == RunningPcs \cup {"stopped", "done"}

(* rec is resume_engine, head the HEAD a pass or the finalization began    *)
(* with, sig the outcome signatures, ready is ready_finalization, lock the *)
(* journal lock left open by reset_interrupted_review_publication_journal. *)
Ctl == [round : Rounds, base : Bases, leg : Engines, head : Heads, cap : 1..MaxRounds,
        rec : Engines \cup {"complete"}, sig : [Engines -> Results \cup {None}],
        ready : BOOLEAN, hook : HookIds \cup {None}, lock : Passes \cup {None}]

NoSig == [e \in Engines |-> None]
NoCtl == [round |-> 1, base |-> 0, leg |-> "codex", head |-> 0, cap |-> MaxRounds,
          rec |-> "codex", sig |-> NoSig, ready |-> FALSE, hook |-> None, lock |-> None]

TypeOK ==
    /\ PassTypeOK
    /\ pc \in Pcs
    /\ ctl \in Ctl
    /\ runState \in RunStates
    /\ merged \subseteq Bases
    /\ prDraft \in BOOLEAN
    /\ attests \subseteq Results
    /\ ledgerOk \in BOOLEAN /\ issueOk \in BOOLEAN
    /\ faults \in Nat

(* The draft PR is open on the validated head and its state file created.  *)
Init ==
    /\ PassInit
    /\ pc = "start" /\ ctl = NoCtl
    /\ runState = CreateRunState(0, 0)
    /\ merged = {0}
    /\ prDraft = TRUE /\ attests = {} /\ ledgerOk = TRUE /\ issueOk = TRUE
    /\ faults = 0

-----------------------------------------------------------------------------
(* The boundaries the wrapper attests.                                     *)

Contains(b) == \E m \in merged : BaseAncestor(b, m)

(* attest_remote_branch and attest_pr_state: 1 is "bad", 2 is "moved".     *)
Boundary(b, draft) ==
    CASE remote # local \/ prDraft # draft -> "bad"
      [] remote = local /\ prDraft = draft /\ base # b -> "moved"
      [] OTHER -> "ok"

ThreadsVerified == ledgerOk /\ remote = local

(* The schema of a result against the pass it claims to describe.          *)
ValidResult(res, e, r, b, before, after) ==
    /\ res # None
    /\ res.engine = e /\ res.round = r /\ res.base = b
    /\ res.before = before /\ res.after = after
    /\ res.status = "clean" => before = after
    /\ res.status \in {"minor", "material"} => before # after
    /\ res.status = "minor" => r < 3

(* verify_v3_result_attestation: the file is the accepted one, valid, in   *)
(* agreement with the ledger, and attested by its exact comment.           *)
Evidence(e, r, b, want) ==
    /\ want # None
    /\ results[e][r] = want
    /\ ValidResult(want, e, r, b, want.before, want.after)
    /\ want.status # "blocked"
    /\ want.after <= local /\ base = b
    /\ ThreadsVerified
    /\ want \in attests

(* run_validation: within a round it is charged to the review deadline,    *)
(* after convergence it is not.                                            *)
Validates_AlwaysCharged(budgeted) == ~expired                    \* mutant
Validates(budgeted) == budgeted => ~expired

OutcomesVerified == \A e \in Engines : Evidence(e, ctl.round, ctl.base, ctl.sig[e])
RecordedHash(e) == IF e = "codex" THEN runState.codex ELSE runState.claude

-----------------------------------------------------------------------------
(* Ways to stop.  The wrapper's memory goes, the run lock is released.     *)
Stop == pc' = "stopped" /\ ctl' = NoCtl
Goto(p) == pc' = p /\ UNCHANGED ctl
Refuse == Stop /\ UNCHANGED <<passVars, runState, merged, hostVars, faults>>

(* Something the instance allows, within its bound.                        *)
Disturb(kind) == kind \in Faults /\ faults < MaxFaults /\ faults' = faults + 1

(* update_run_state reviewing, at a head that is HEAD now.                 *)
CheckpointReviewing(r, b, e) == runState' = ToReviewing(runState, r, b, local, e)

(* Another round: its checkpoint is written, then the loop goes round.     *)
NextRound(b) ==
    /\ CheckpointReviewing(ctl.round + 1, b, "codex")
    /\ ctl' = [ctl EXCEPT !.round = @ + 1, !.sig = NoSig]
    /\ pc' = "round"
    /\ UNCHANGED <<passVars, merged, hostVars, faults>>

StartReview ==
    /\ pc = "start"
    /\ runState' = ToReviewing(runState, 1, runState.base, runState.head, "codex")
    /\ Goto("round")
    /\ UNCHANGED <<passVars, merged, hostVars, faults>>

(* The loop condition and prepare_review_pass_budget.                      *)
BudgetSpent_NoCap == expired                                     \* mutant
BudgetSpent == ctl.round > ctl.cap \/ expired

(* The head of run_review_convergence's loop.                              *)
BeginRound ==
    /\ pc = "round"
    /\ IF BudgetSpent
         THEN Refuse
         ELSE /\ ctl' = [ctl EXCEPT !.base = base]
              /\ pc' = IF Contains(base) THEN "leg" ELSE "merge"
              /\ UNCHANGED <<passVars, runState, merged, hostVars, faults>>

MergeBase ==
    /\ pc = "merge"
    /\ local < MaxHead
    /\ local' = local + 1
    /\ merged' = merged \cup {ctl.base}
    /\ Goto("validateMerge")
    /\ UNCHANGED <<world, journal, results, hooks, validated, runState, prDraft, attests>>

MergeConflict == pc = "merge" /\ Refuse

ValidateMerge_Skipped ==                                         \* mutant
    /\ pc = "validateMerge" /\ Goto("publish")
    /\ UNCHANGED <<passVars, runState, merged, hostVars, faults>>

ValidateMerge ==
    /\ pc = "validateMerge"
    /\ IF Validates(TRUE)
         THEN /\ validated' = validated \cup {local}
              /\ Goto("publish")
              /\ UNCHANGED <<world, local, journal, results, hooks, runState, merged,
                             prDraft, attests>>
         ELSE Refuse

(* push_review_head: a plain push, then its attestation.                   *)
PublishMerge ==
    /\ pc = "publish"
    /\ IF remote = Foreign
         THEN Refuse
         ELSE /\ remote' = local
              /\ Goto("attestMerge")
              /\ UNCHANGED <<local, base, expired, journal, results, hooks, validated,
                             runState, merged, hostVars, faults>>

AttestMerge ==
    /\ pc = "attestMerge"
    /\ IF Boundary(ctl.base, TRUE) = "ok"
         THEN Goto("leg") /\ UNCHANGED <<passVars, runState, merged, hostVars, faults>>
         ELSE Refuse

-----------------------------------------------------------------------------
(* The legs of a round.                                                    *)

CheckpointCodex ==
    /\ pc = "leg" /\ ctl.rec = "codex"
    /\ CheckpointReviewing(ctl.round, ctl.base, "codex")
    /\ ctl' = [ctl EXCEPT !.leg = "codex", !.sig = NoSig]
    /\ pc' = "pass"
    /\ UNCHANGED <<passVars, merged, hostVars, faults>>

(* A recovered result is about HEAD; Codex's may be about the head Claude  *)
(* then moved on from, when Claude's is recovered as well.                 *)
AtHead_Any(res, descendant) == TRUE                              \* mutant
AtHead(res, descendant) == res.after = local \/ descendant

(* recover_v3_review_pass, with the budgeted validation of the head.       *)
Recovers(e, descendant) ==
    LET res == results[e][ctl.round] IN
    /\ res # None
    /\ AtHead(res, descendant)
    /\ Evidence(e, ctl.round, ctl.base, res)
    /\ Validates(TRUE)
    /\ Boundary(ctl.base, TRUE) = "ok"

RecoverLeg(e, descendant, rec, next) ==
    IF Recovers(e, descendant)
      THEN /\ ctl' = [ctl EXCEPT !.sig[e] = results[e][ctl.round], !.rec = rec]
           /\ pc' = next
           /\ validated' = validated \cup {local}
           /\ UNCHANGED <<world, local, journal, results, hooks, runState, merged,
                          prDraft, attests>>
      ELSE Refuse

RecoverCodex ==
    /\ pc = "leg" /\ ctl.rec # "codex"
    /\ IF ctl.rec = "complete"
         THEN RecoverLeg("codex", TRUE, "complete", "recoverClaude")
         ELSE RecoverLeg("codex", FALSE, "codex", "toClaude")

RecoverClaude ==
    /\ pc = "recoverClaude"
    /\ RecoverLeg("claude", FALSE, "codex", "decide")

CheckpointClaude ==
    /\ pc = "toClaude"
    /\ CheckpointReviewing(ctl.round, ctl.base, "claude")
    /\ ctl' = [ctl EXCEPT !.leg = "claude"]
    /\ pc' = "pass"
    /\ UNCHANGED <<passVars, merged, hostVars, faults>>

(* run_review_pass.  The budget is checked, the old result removed.        *)
ClearPass ==
    /\ pc = "pass"
    /\ IF expired
         THEN Refuse
         ELSE /\ results' = [results EXCEPT ![ctl.leg][ctl.round] = None]
              /\ ctl' = [ctl EXCEPT !.head = local]
              /\ pc' = "open"
              /\ UNCHANGED <<world, local, journal, hooks, validated, runState, merged,
                             prDraft, attests>>

(* The boundary, the pass journal, and the start of the hook.              *)
OpenPass ==
    LET b == Boundary(ctl.base, TRUE)
        j == journal[ctl.leg][ctl.round]
    IN
    /\ pc = "open"
    /\ CASE b = "moved" ->
              Goto("moved") /\ UNCHANGED <<passVars, runState, merged, hostVars, faults>>
         [] b = "ok" /\ (j = None \/ j.start = ctl.head) ->
              \E i \in HookIds :
                /\ hooks[i] = NoHook
                /\ hooks' = [hooks EXCEPT
                       ![i] = NewHook(ctl.leg, ctl.round, ctl.base, ctl.head,
                                      ctl.lock)]
                /\ journal' = [journal EXCEPT ![ctl.leg][ctl.round] =
                                 IF j = None THEN NewJournal(ctl.head) ELSE j]
                /\ ctl' = [ctl EXCEPT !.hook = i]
                /\ pc' = "hook"
                /\ UNCHANGED <<world, local, results, validated, runState, merged,
                               prDraft, attests>>
         [] OTHER -> Refuse

(* The review process ends, by itself or by the supervisor's timeout.  One *)
(* that lost its wrapper ends unseen.                                      *)
MayExit_NoTimeout(i) == At(i, "recorded")                        \* mutant
MayExit(i) == hooks[i] # NoHook

HookExit(i) ==
    /\ MayExit(i)
    /\ hooks' = [hooks EXCEPT ![i] = NoHook]
    /\ IF pc = "hook" /\ ctl.hook = i
         THEN \/ pc' = "inspect" /\ ctl' = [ctl EXCEPT !.hook = None]
              \/ Stop
         ELSE UNCHANGED <<pc, ctl>>
    /\ UNCHANGED <<world, local, journal, results, validated, runState, merged,
                   prDraft, attests>>

JournalClosed ==
    LET j == journal[ctl.leg][ctl.round]
        pushed == IF local = ctl.head THEN None ELSE local
    IN j = [start |-> ctl.head, validated |-> pushed, published |-> pushed]

(* What the wrapper requires of a hook that exited 0.                      *)
InspectPass ==
    LET res == results[ctl.leg][ctl.round]
        b == Boundary(ctl.base, TRUE)
        acceptable == /\ ctl.head <= local
                      /\ JournalClosed
                      /\ ValidResult(res, ctl.leg, ctl.round, ctl.base, ctl.head, local)
                      /\ res.status # "blocked"
    IN
    /\ pc = "inspect"
    /\ CASE acceptable /\ b = "ok" ->
              /\ ctl' = [ctl EXCEPT !.sig[ctl.leg] = res]
              /\ pc' = "attest"
              /\ UNCHANGED <<passVars, runState, merged, hostVars, faults>>
         [] acceptable /\ b = "moved" ->
              Goto("moved") /\ UNCHANGED <<passVars, runState, merged, hostVars, faults>>
         [] OTHER -> Refuse

(* The ledger's attest: at most one comment per engine and round, checked  *)
(* against the live head and base, removed again when they have changed.   *)
AttestPass ==
    LET res == ctl.sig[ctl.leg]
        rivals == {a \in attests : a.engine = ctl.leg /\ a.round = ctl.round}
    IN
    /\ pc = "attest"
    /\ IF /\ results[ctl.leg][ctl.round] = res
          /\ local = res.after /\ ThreadsVerified
          /\ base = ctl.base
          /\ rivals \subseteq {res}
         THEN /\ attests' = attests \cup {res}
              /\ Goto("validate")
              /\ UNCHANGED <<passVars, runState, merged, prDraft, ledgerOk, issueOk, faults>>
         ELSE Refuse

(* The parent's own validation of the head, charged to the deadline.       *)
ValidatePass ==
    LET b == Boundary(ctl.base, TRUE)
        accepted == /\ ctl.sig[ctl.leg].after # ctl.head => JournalClosed
                    /\ Validates(TRUE)
                    /\ results[ctl.leg][ctl.round] = ctl.sig[ctl.leg]
    IN
    /\ pc = "validate"
    /\ IF accepted /\ b # "bad"
         THEN /\ validated' = validated \cup {local}
              /\ Goto(CASE b = "moved" -> "moved"
                        [] b = "ok" /\ ctl.leg = "codex" -> "toClaude"
                        [] OTHER -> "decide")
              /\ UNCHANGED <<world, local, journal, results, hooks, runState, merged,
                             prDraft, attests>>
         ELSE Refuse

(* A pass ended at a base that is no longer the PR's.                      *)
BaseMoved ==
    /\ pc = "moved"
    /\ IF BaseAncestor(ctl.base, base) THEN NextRound(base) ELSE Refuse

(* The decision at the end of a round.                                     *)
Material_ClaudeOnly == ctl.sig["claude"].status = "material"     \* mutant
Material == \E e \in Engines : ctl.sig[e].status = "material"

Decide ==
    LET signed == \A e \in Engines : results[e][ctl.round] = ctl.sig[e] IN
    /\ pc = "decide"
    /\ IF signed /\ BaseAncestor(ctl.base, base)
         THEN IF Material \/ base # ctl.base
                THEN NextRound(base)
                ELSE IF ThreadsVerified
                  THEN /\ runState' = ToConverged(runState, ctl.round, ctl.base, local,
                                                  ctl.sig["codex"], ctl.sig["claude"])
                       /\ Goto("final")
                       /\ UNCHANGED <<passVars, merged, hostVars, faults>>
                  ELSE Refuse
         ELSE Refuse

-----------------------------------------------------------------------------
(* Publication.                                                            *)

(* The checks after convergence, on the original run and on a resume; the  *)
(* validation among them is not charged to the deadline.                   *)
FinalChecks ==
    /\ pc = "final"
    /\ IF /\ Boundary(ctl.base, ~ctl.ready) = "ok"
          /\ OutcomesVerified
          /\ issueOk
          /\ Validates(FALSE)
         THEN /\ validated' = validated \cup {local}
              /\ Goto(IF ctl.ready THEN "record" ELSE "finalize")
              /\ UNCHANGED <<world, local, journal, results, hooks, runState, merged,
                             prDraft, attests>>
         ELSE IF ctl.ready
           THEN Goto("rollback") /\ UNCHANGED <<passVars, runState, merged, hostVars, faults>>
           ELSE Refuse

(* finalize_pr up to its first checkpoint.                                 *)
FinalizeChecks ==
    /\ pc = "finalize"
    /\ IF Boundary(ctl.base, TRUE) = "ok" /\ OutcomesVerified
         THEN /\ ctl' = [ctl EXCEPT !.head = local]
              /\ pc' = "checkpoint"
              /\ UNCHANGED <<passVars, runState, merged, hostVars, faults>>
         ELSE Refuse

CheckpointFinalizing_Skipped ==                                  \* mutant
    /\ pc = "checkpoint" /\ Goto("ready")
    /\ UNCHANGED <<passVars, runState, merged, hostVars, faults>>

CheckpointFinalizing ==
    /\ pc = "checkpoint"
    /\ runState' = ToPhase(runState, "finalizing", ctl.round, ctl.base, ctl.head)
    /\ Goto("ready")
    /\ UNCHANGED <<passVars, merged, hostVars, faults>>

MarkReady ==
    /\ pc = "ready"
    /\ prDraft' = FALSE
    /\ Goto("verifyReady")
    /\ UNCHANGED <<passVars, runState, merged, attests, ledgerOk, issueOk, faults>>

(* gh failed: the PR may have been marked all the same.                    *)
MarkReadyFails ==
    /\ pc = "ready" /\ Disturb("lostReady")
    /\ prDraft' \in BOOLEAN
    /\ IF prDraft' /\ Boundary(ctl.base, TRUE) = "ok" THEN Stop ELSE Goto("rollback")
    /\ UNCHANGED <<passVars, runState, merged, attests, ledgerOk, issueOk>>

VerifyReady ==
    /\ pc = "verifyReady"
    /\ Goto(IF Boundary(ctl.base, FALSE) = "ok" /\ OutcomesVerified
              THEN "record" ELSE "rollback")
    /\ UNCHANGED <<passVars, runState, merged, hostVars, faults>>

Finalized(h) == ToPhase(runState, "finalized", ctl.round, ctl.base, h)

RecordFinalized ==
    /\ pc = "record"
    /\ runState' = Finalized(ctl.head)
    /\ Goto("cleanup")
    /\ UNCHANGED <<passVars, merged, hostVars, faults>>

(* The helper fails, before the rename or after it.                        *)
RecordFails ==
    /\ pc = "record" /\ Disturb("write")
    /\ runState' \in {runState, Finalized(ctl.head)}
    /\ Goto("rollbackRecord")
    /\ UNCHANGED <<passVars, merged, hostVars>>

(* restore_draft_after_finalization_failure.                               *)
UndoReady_Dropped == UNCHANGED prDraft                           \* mutant
UndoReady == prDraft' = TRUE

RestoreDraft ==
    /\ pc \in {"rollback", "rollbackRecord"}
    /\ UndoReady
    /\ IF pc = "rollback" THEN Stop ELSE Goto("unrecord")
    /\ UNCHANGED <<passVars, runState, merged, attests, ledgerOk, issueOk, faults>>

RestoreFails ==
    /\ pc \in {"rollback", "rollbackRecord"} /\ "fail" \in Faults
    /\ prDraft' \in {prDraft, TRUE}
    /\ Stop
    /\ UNCHANGED <<passVars, runState, merged, attests, ledgerOk, issueOk, faults>>

(* The PR is a draft again, so the checkpoint becomes resumable again.     *)
Unrecord ==
    /\ pc = "unrecord"
    /\ runState' = ToPhase(runState, "finalizing", ctl.round, ctl.base, ctl.head)
    /\ Stop
    /\ UNCHANGED <<passVars, merged, hostVars, faults>>

(* The worktree is removed; nothing is left to resume.                     *)
Cleanup ==
    /\ pc = "cleanup"
    /\ Goto("done")
    /\ UNCHANGED <<passVars, runState, merged, hostVars, faults>>

-----------------------------------------------------------------------------
(* agent-loop.sh --resume-run.  A resume that is refused before it changes *)
(* anything is not a step.                                                 *)

(* A clean Codex pass leaves no trace but its attestation.                 *)
CodexAttested_Ignored == FALSE                                   \* mutant
CodexAttested ==
    \E a \in attests : /\ a.engine = "codex" /\ a.status = "clean"
                       /\ a.round = runState.round
                       /\ a.base = runState.base /\ a.after = runState.head

(* The checkpointed pass may already have produced something.              *)
Interrupted ==
    /\ runState.phase = "reviewing"
    /\ runState.engine = "claude" \/ local # runState.head \/ CodexAttested

HasResult(e) == results[e][runState.round] # None

(* In the last round the legs are recovered instead of repeated.           *)
RecFor(last) ==
    CASE ~last -> "codex"
      [] last /\ HasResult("claude") -> "complete"
      [] last /\ ~HasResult("claude") /\ HasResult("codex") -> "claude"
      [] OTHER -> runState.engine

(* reset_interrupted_review_publication_journal: replay the last round's   *)
(* pass from the candidate it had published.  It takes the journal's flock *)
(* and never gives it back.                                                *)
Replays(last) ==
    last /\ ~HasResult("claude") /\ ~HasResult("codex") /\ local # runState.head
StatePass == <<runState.engine, runState.round>>
ResetAllowed_Any == TRUE                                         \* mutant
ResetAllowed ==
    journal[runState.engine][runState.round] \in
        {NewJournal(local),
         [start |-> runState.head, validated |-> local, published |-> local]}

(* An interrupted round is not repeated, unless it is the last.            *)
ResumeRound_First(last) == 1                                     \* mutant
ResumeRound(last) ==
    IF Interrupted /\ ~last THEN runState.round + 1 ELSE runState.round

Resume ==
    /\ pc = "stopped" /\ issueOk
    /\ runState.phase # "finalized"
    /\ \E cap \in ResumeCaps :
         LET last == Interrupted /\ runState.round >= cap IN
         /\ Replays(last) => ~HeldByHook(StatePass) /\ ResetAllowed
         /\ journal' = IF Replays(last)
                         THEN [journal EXCEPT ![runState.engine][runState.round] =
                                 NewJournal(local)]
                         ELSE journal
         /\ ctl' = [NoCtl EXCEPT
                !.cap = cap,
                !.round = ResumeRound(last),
                !.rec = RecFor(last),
                !.ready = runState.phase = "finalizing" /\ ~prDraft,
                !.lock = IF Replays(last) THEN StatePass ELSE None]
    /\ pc' = "boundary"
    /\ UNCHANGED <<world, local, results, hooks, validated, runState, merged, prDraft, attests>>

Drifted == runState.phase \in LatePhases /\ local # runState.head

(* A ready PR whose head moved goes back to draft before anything else.    *)
RestoreDrifted ==
    /\ pc = "boundary" /\ ctl.ready /\ Drifted
    /\ UndoReady
    /\ ctl' = [ctl EXCEPT !.ready = FALSE]
    /\ UNCHANGED <<passVars, pc, runState, merged, attests, ledgerOk, issueOk, faults>>

(* The PR against the checkpoint.  A ready PR that does not match it is    *)
(* restored to draft first.                                                *)
ResumeBoundary ==
    LET b == Boundary(runState.base, ~ctl.ready) IN
    /\ pc = "boundary" /\ ~(ctl.ready /\ Drifted)
    /\ CASE b = "moved" ->
              /\ IF ctl.ready THEN UndoReady ELSE UNCHANGED prDraft
              /\ ctl' = [ctl EXCEPT !.ready = FALSE]
              /\ pc' = "rebase"
              /\ UNCHANGED <<passVars, runState, merged, attests, ledgerOk, issueOk, faults>>
         [] b = "bad" ->
              IF ctl.ready
                THEN Goto("rollback") /\
                     UNCHANGED <<passVars, runState, merged, hostVars, faults>>
                ELSE Refuse
         [] b = "ok" /\ Drifted ->
              /\ CheckpointReviewing(ctl.round + 1, runState.base, "codex")
              /\ ctl' = [ctl EXCEPT !.round = @ + 1]
              /\ pc' = "round"
              /\ UNCHANGED <<passVars, merged, hostVars, faults>>
         [] OTHER ->
              /\ Goto(IF runState.phase \in LatePhases THEN "recovered" ELSE "round")
              /\ UNCHANGED <<passVars, runState, merged, hostVars, faults>>

(* The base moved while no wrapper ran; a finished review needs one more   *)
(* round.                                                                  *)
Rebase ==
    LET r == IF runState.phase \in LatePhases THEN ctl.round + 1 ELSE ctl.round IN
    /\ pc = "rebase"
    /\ IF BaseAncestor(runState.base, base)
         THEN /\ CheckpointReviewing(r, base, "codex")
              /\ ctl' = [ctl EXCEPT !.round = r]
              /\ pc' = "round"
              /\ UNCHANGED <<passVars, merged, hostVars, faults>>
         ELSE Refuse

(* A converged checkpoint is taken up where it was left.                   *)
RecoveredCtl ==
    [ctl EXCEPT !.base = runState.base, !.head = local,
                !.sig = [e \in Engines |-> RecordedHash(e)]]

RecoverConverged ==
    /\ pc = "recovered"
    /\ IF \A e \in Engines : Evidence(e, ctl.round, runState.base, RecordedHash(e))
         THEN /\ pc' = "final" /\ ctl' = RecoveredCtl
              /\ UNCHANGED <<passVars, runState, merged, hostVars, faults>>
         ELSE IF ctl.ready
           THEN Goto("rollback") /\ UNCHANGED <<passVars, runState, merged, hostVars, faults>>
           ELSE Refuse

(* A finalized checkpoint is only re-attested.                             *)
ResumeFinalized ==
    /\ pc = "stopped" /\ issueOk
    /\ runState.phase = "finalized" /\ local = runState.head
    /\ Boundary(runState.base, FALSE) = "ok"
    /\ \A e \in Engines : Evidence(e, runState.round, runState.base, RecordedHash(e))
    /\ validated' = validated \cup {local}
    /\ Goto("cleanup")
    /\ UNCHANGED <<world, local, journal, results, hooks, runState, merged, prDraft, attests>>

-----------------------------------------------------------------------------
(* What happens to the wrapper, and around it.                             *)

(* Any command a step needs may fail: git, gh, a hook, the disk.           *)
Fail ==
    /\ "fail" \in Faults
    /\ pc \in RunningPcs \ {"hook", "ready", "verifyReady", "record", "rollback",
                            "rollbackRecord"}
    /\ IF ctl.ready /\ pc \in {"boundary", "recovered", "final"}
         THEN Goto("rollback") /\ UNCHANGED <<passVars, runState, merged, hostVars, faults>>
         ELSE Refuse

(* The machine goes down, with every process.                              *)
Crash ==
    /\ Disturb("crash") /\ pc \in RunningPcs
    /\ Stop
    /\ hooks' = [i \in HookIds |-> NoHook]
    /\ UNCHANGED <<local, remote, base, expired, journal, results, validated,
                   runState, merged, hostVars>>

(* The wrapper alone is killed; its supervisor and hook live on, and they  *)
(* do not hold the run lock.                                               *)
Kill ==
    /\ Disturb("kill") /\ pc \in RunningPcs
    /\ \E i \in HookIds : hooks[i] = NoHook
    /\ Stop
    /\ UNCHANGED <<passVars, runState, merged, hostVars>>

MoveBase ==
    /\ \/ Disturb("base") /\ base \in 0..(MaxBase - 1) /\ base' = base + 1
       \/ Disturb("rewrite") /\ base # Rewritten /\ base' = Rewritten
    /\ UNCHANGED <<local, remote, expired, journal, results, hooks, validated,
                   pc, ctl, runState, merged, hostVars>>

PushForeign ==
    /\ Disturb("foreign") /\ remote' = Foreign
    /\ UNCHANGED <<local, base, expired, journal, results, hooks, validated,
                   pc, ctl, runState, merged, hostVars>>

(* While nothing runs the operator commits in the worktree and pushes.     *)
OperatorCommit ==
    /\ Disturb("drift") /\ pc = "stopped"
    /\ remote = local /\ local < MaxHead
    /\ local' = local + 1 /\ remote' = local + 1
    /\ UNCHANGED <<base, expired, journal, results, hooks, validated,
                   pc, ctl, runState, merged, hostVars>>

ChangeLedger ==
    /\ Disturb("ledger") /\ ledgerOk' = ~ledgerOk
    /\ UNCHANGED <<passVars, pc, ctl, runState, merged, prDraft, attests, issueOk>>

ChangeIssue ==
    /\ Disturb("issue") /\ issueOk' = ~issueOk
    /\ UNCHANGED <<passVars, pc, ctl, runState, merged, prDraft, attests, ledgerOk>>

(* The result file of a finished pass is edited.                           *)
ChangeResult ==
    /\ Disturb("tamper")
    /\ \E e \in Engines, r \in Rounds, s \in Statuses :
         /\ results[e][r] # None
         /\ results' = [results EXCEPT ![e][r].status = s]
    /\ UNCHANGED <<local, remote, base, expired, journal, hooks, validated,
                   pc, ctl, runState, merged, hostVars>>

Expire ==
    /\ "expire" \in Faults /\ ~expired /\ expired' = TRUE
    /\ UNCHANGED <<local, remote, base, journal, results, hooks, validated,
                   pc, ctl, runState, merged, hostVars, faults>>

Wrapper ==
    \/ StartReview \/ BeginRound
    \/ MergeBase \/ MergeConflict \/ ValidateMerge \/ PublishMerge \/ AttestMerge
    \/ CheckpointCodex \/ RecoverCodex \/ RecoverClaude \/ CheckpointClaude
    \/ ClearPass \/ OpenPass \/ InspectPass \/ AttestPass \/ ValidatePass
    \/ BaseMoved \/ Decide
    \/ FinalChecks \/ FinalizeChecks \/ CheckpointFinalizing
    \/ MarkReady \/ MarkReadyFails \/ VerifyReady \/ RecordFinalized \/ RecordFails
    \/ RestoreDraft \/ RestoreFails \/ Unrecord \/ Cleanup
    \/ RestoreDrifted \/ ResumeBoundary \/ Rebase \/ RecoverConverged

Hook(i) ==
    HookStep(i, ctl.lock) /\ UNCHANGED <<pc, ctl, runState, merged, hostVars, faults>>

Environment ==
    \/ Fail \/ Crash \/ Kill \/ MoveBase \/ PushForeign \/ OperatorCommit
    \/ ChangeLedger \/ ChangeIssue \/ ChangeResult \/ Expire

Next ==
    \/ Wrapper
    \/ \E i \in HookIds : Hook(i) \/ HookExit(i)
    \/ Resume \/ ResumeFinalized
    \/ Environment

Spec == Init /\ [][Next]_vars
=============================================================================
