------------------------- MODULE IssueLoopProperties -------------------------
(***************************************************************************)
(* What the issue loops and the ordered batch promise.                     *)
(***************************************************************************)
EXTENDS IssueLoop

(* The batch is ordered: it leaves traces of an issue (a worktree, a       *)
(* branch, a PR) only when every issue before it is finalized or bailed.   *)
InOrder ==
    \A i \in Issues : runs[Batch][i] # NoRun =>
        /\ batch # NoBatch
        /\ \A j \in 1..(i - 1) : batch.rows[j].status \in SettledStatuses

(* The batch implements OrderedQueue, over kills, resumes, late bail       *)
(* commands and reviews resumed beside it: the cursor passes an issue as   *)
(* finalized only when its review recorded a finalized checkpoint, and no  *)
(* later issue has a PR before that.                                       *)
Stage(run) ==
    CASE run.child = "finalized" -> "complete"
      [] run.child # "finalized" /\ run.pr \in {"draft", "ready"} -> "published"
      [] OTHER -> "untouched"

Queue == INSTANCE OrderedQueue WITH
    settled <- IF batch = NoBatch THEN <<>>
               ELSE [i \in 1..batch.cursor |-> batch.rows[i].status],
    stage <- IF batch = NoBatch \/ batch.cursor = N THEN "untouched"
             ELSE Stage(runs[Batch][batch.cursor + 1])

ImplementsOrderedQueue == Queue!Spec

(* A printed bail command is about an issue that has no review checkpoint: *)
(* run late, when the issue has one attached, it changes nothing.          *)
BailedHasNoChild ==
    batch # NoBatch => \A i \in Issues :
        batch.rows[i].status = "bailed" => ~batch.rows[i].child

(* An owner that works on an issue, in its worktree or on its PR.          *)
Works(o, i) ==
    \/ \E p \in Procs :
         /\ Owner(p) = o /\ proc[p].issue = i
         /\ \E pc \in {"work", "verifyIssue", "push", "openPr",
                       "checkpoint", "lock", "attach", "review", "record"} : At(p, pc)
    \/ review[o][i].pc \in {"review", "record"}

(* Loops of different logins never work on one issue at the same time,     *)
(* whatever the order in which they read and write its assignees.          *)
OneLoopPerIssue ==
    \A i \in Issues, a, b \in Owners :
        Works(a, i) /\ Works(b, i) => Login[a] = Login[b]

(* An issue with a PR from one loop never gets a second one from another.  *)
OnePrPerIssue ==
    \A i \in Issues, a, b \in Owners : HasPr(a, i) /\ HasPr(b, i) => a = b

(* A loop that has verified its claim keeps it while it works: what others *)
(* roll back is their own (SKILL.md, "roll back only the assignment added  *)
(* by this run").                                                          *)
WorkIsClaimed ==
    \A p \in Procs :
        proc[p].pc \in {"work", "verifyIssue", "push", "openPr", "checkpoint", "lock",
                       "attach", "review", "record"}
            => Login[Owner(p)] \in assignees[proc[p].issue]

(* A worktree goes only after its run is finalized, whatever is killed.    *)
WorktreeOutlivesRun ==
    \A o \in Owners, i \in Issues :
        runs[o][i].pr # "none" /\ ~runs[o][i].worktree => runs[o][i].child = "finalized"

(* One process drives the review of a run: the wrapper that opened the PR, *)
(* a resume the operator started, or a resume under the batch.             *)
OneReviewPerRun ==
    \A o \in Owners, i \in Issues :
        LET wrappers == {p \in Procs : /\ Owner(p) = o /\ proc[p].issue = i
                                       /\ \E pc \in {"attach", "review", "record"} : At(p, pc)}
        IN /\ Cardinality(wrappers) <= 1
           /\ wrappers # {} => review[o][i] = NoReview

(* A batch is driven by one wrapper process and works on one issue: the    *)
(* review it started for an issue, which inherited the batch lock, is the  *)
(* only one and the driver waits for it.  A driver that is killed leaves   *)
(* the review behind, and nobody drives the batch until that one ends.     *)
OneBatchProcess ==
    LET drivers == {p \in BatchProcs : proc[p].pc \notin {"idle", "acquire"}}
        children == {i \in Issues : review[Batch][i].parent}
    IN /\ Cardinality(drivers) <= 1 /\ Cardinality(children) <= 1
       /\ \A p \in drivers, i \in children : At(p, "child") /\ proc[p].issue = i

-----------------------------------------------------------------------------
(* SKILL.md: "Resume with agent-loop.sh --resume-batch", after a recovery  *)
(* message that offered --resume-run as well.  An active issue with its    *)
(* checkpoint attached can be resumed by the batch as long as the issue    *)
(* on GitHub is as it was.                                                 *)
ActiveChildResumes ==
    batch # NoBatch => \A i \in Issues :
        /\ batch.rows[i].status = "active" /\ batch.rows[i].child
        /\ Publishable(Batch, i)
        => Resumable(Batch, i)

-----------------------------------------------------------------------------
(* Liveness.  A process takes its next step unless it is killed; the       *)
(* operator resumes the batch when it has stopped and runs a bail command  *)
(* that was printed, sooner or later.                                      *)
Fairness ==
    /\ \A p \in BatchProcs : WF_vars(LoopStep(p))
    /\ \A o \in Owners, i \in Issues : WF_vars(ReviewStep(o, i))
    /\ WF_vars(\E p \in BatchProcs : ResumeBatch(p))
    /\ \A i \in Issues, e \in {"pending", "active"} : SF_vars(Bail(i, e))
FairSpec == Spec /\ Fairness

(* Every issue of a batch is settled in the end, unless its review cannot  *)
(* be resumed because the issue is no longer the loop's or its worktree    *)
(* has gone.                                                               *)
BatchDrains ==
    <>[](batch # NoBatch /\ \A i \in Issues :
           batch.rows[i].status = "active" /\ batch.rows[i].child
             => runs[Batch][i].worktree /\ Publishable(Batch, i))
    => <>(batch # NoBatch /\ batch.cursor = N)
=============================================================================
