------------------------ MODULE ReviewLoopProperties ------------------------
(***************************************************************************)
(* What the review of one issue promises.                                  *)
(***************************************************************************)
EXTENDS ReviewLoop

(* The validator of agent-loop-state.py never meets a state it refuses, so *)
(* no checkpoint the wrapper asks for is lost to it.                       *)
RunStateValid == ValidRunState(runState)

(* A checkpoint that claims convergence rests on one whole round: both     *)
(* results are attested on the PR for the recorded round and base, Claude  *)
(* began at the head Codex left and ended at the recorded head, and no fix *)
(* was material.  This survives crashes, replays and head drift.           *)
WholeRoundReviewed ==
    LET c == runState.codex  k == runState.claude IN
    runState.phase \in LatePhases =>
        /\ {c, k} \subseteq attests
        /\ c.round = runState.round /\ k.round = runState.round
        /\ c.base = runState.base /\ k.base = runState.base
        /\ c.after = k.before /\ k.after = runState.head
        /\ {c.status, k.status} \subseteq {"clean", "minor"}

(* What is left of it when a wrapper is killed and its review process goes *)
(* on committing behind the next one's back: still the attested passes of  *)
(* one whole round, in this order and none ahead of the recorded head, but *)
(* commits that nobody attested may lie in between.                        *)
WholeRoundAttested ==
    LET c == runState.codex  k == runState.claude IN
    runState.phase \in LatePhases =>
        /\ {c, k} \subseteq attests
        /\ c.round = runState.round /\ k.round = runState.round
        /\ c.base = runState.base /\ k.base = runState.base
        /\ c.after <= k.before /\ k.after <= runState.head
        /\ {c.status, k.status} \subseteq {"clean", "minor"}

(* The PR is out of draft only under a finalizing or finalized checkpoint, *)
(* which is what tells a resume that it has to look and to roll back.      *)
ReadyOnlyAtCheckpoint ==
    ~prDraft => runState.phase \in {"finalizing", "finalized"}

(* Attestations are unique per engine and round: a pass is never started   *)
(* in a round whose attestation is already on the PR, where its own result *)
(* could only be refused.                                                  *)
FreshPassUnattested ==
    pc = "hook" =>
        ~\E a \in attests : a.engine = ctl.leg /\ a.round = ctl.round

(* What the wrapper or the helper pushes was accepted by the validation    *)
(* hook before: the helper's candidate, the base merge, and the candidate  *)
(* of a helper that was cut short and called again.                        *)
PublishedIsValidated ==
    [][remote' \notin {remote, Foreign} /\ UNCHANGED local
         => remote' \in validated]_vars

(* A pass publishes at most one candidate: its journal is never rewritten  *)
(* once it is closed, unless the last round is replayed from it.           *)
OnePublicationPerPass ==
    [][\A e \in Engines, r \in Rounds :
         LET j == journal[e][r]  k == journal'[e][r] IN
         (j # None /\ k # j) =>
            \/ j.published = None /\ k.start = j.start
            \/ k = NewJournal(j.published)]_vars

(* Rounds only go up, over every interruption and resume: the cap bounds   *)
(* the review for good.                                                    *)
RoundNeverRegresses == [][runState'.round >= runState.round]_vars

(* A checkpoint leaves the finished phases only while the PR is a draft:   *)
(* a ready PR never loses the record that says why it is ready.            *)
ReadyRecordKept ==
    [][runState.phase \in {"finalizing", "finalized"} /\ runState'.phase = "reviewing"
         => prDraft /\ prDraft']_vars

(* The review implements AbstractReview, over crashes, kills, resumes,     *)
(* replays, lost replies and rollbacks, and whatever a process that        *)
(* outlives its wrapper does.                                              *)
Review == INSTANCE AbstractReview WITH
    round <- runState.round,
    stage <- IF runState.phase \in LatePhases THEN runState.phase ELSE "reviewing",
    signed <- {runState.codex, runState.claude} \ {None},
    attested <- attests,
    draft <- prDraft

ImplementsAbstractReview == Review!Spec

-----------------------------------------------------------------------------
(* The documents.                                                          *)

(* SKILL.md: "A non-fast-forward base move stops the loop", so a later     *)
(* checkpoint of a run never records a base that the earlier one does not  *)
(* precede.                                                                *)
BaseOnlyFastForwards ==
    [][BaseAncestor(runState.base, runState'.base)]_vars

(* local-review-ledger.md: "After every accepted fix in the pass is        *)
(* committed, publish the complete pass".  The only review process alive   *)
(* has nobody to wait for when it calls the helper.                        *)
PublicationNotBlocked ==
    \A i \in HookIds :
        At(i, "committed") /\ (\A k \in HookIds \ {i} : hooks[k] = NoHook)
            => JournalFree(i, ctl.lock)

-----------------------------------------------------------------------------
(* Liveness.  The wrapper keeps running while it is alive, and every hook  *)
(* ends because its supervisor has a timeout.  Nothing is assumed of the   *)
(* environment.                                                            *)
Fairness == WF_vars(Wrapper) /\ \A i \in HookIds : WF_vars(HookExit(i))
FairSpec == Spec /\ Fairness

(* A run that was started or resumed comes to an end.                      *)
EveryRunEnds == pc \in RunningPcs ~> pc \in {"stopped", "done"}

(* The operator resumes a stopped run for as long as that is possible.     *)
ResumingSpec == FairSpec /\ WF_vars(Resume) /\ WF_vars(ResumeFinalized)

(* Once a round has converged, crashes and the end of the review budget    *)
(* do not keep the PR from being published.                                *)
ConvergedIsPublished ==
    runState.phase = "converged" ~> runState.phase = "finalized" /\ ~prDraft /\ pc = "done"
=============================================================================
