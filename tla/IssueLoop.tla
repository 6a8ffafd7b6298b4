------------------------------ MODULE IssueLoop ------------------------------
(***************************************************************************)
(* The main loop of agent-loop.sh around the review of one issue: select,  *)
(* claim, worktree, worker, draft PR, checkpoint, and the ordered batch    *)
(* with its --resume-batch, for several loops that share a repository and  *)
(* its issues.  An owner is a loop's own series of runs: the batch, whose  *)
(* processes come and go, or a loop over the ready queue.  The review      *)
(* itself is one step here; ReviewLoop has its inside.  A review process   *)
(* is agent-loop.sh --resume-run, started by the operator or by a batch    *)
(* that is resumed.                                                        *)
(***************************************************************************)
EXTENDS BatchState, FiniteSets

CONSTANTS
    BatchProcs,      \* processes that may run the batch
    QueueProcs,      \* loops over the ready queue
    Batch,           \* the batch as an owner
    Login,           \* the GitHub login each owner runs under
    IncludeAssigned, \* owners started with --resume
    ResumeRuns,      \* owners whose runs the operator resumes on their own
    Human,           \* a login that is no loop's
    Faults,          \* the kinds of disturbance the instance contains
    MaxFaults        \* bound: disturbances

Procs == BatchProcs \cup QueueProcs
Owners == {Batch} \cup QueueProcs
Owner(p) == IF p \in BatchProcs THEN Batch ELSE p
Logins == {Login[o] : o \in Owners}

ASSUME IssueLoopAssumption ==
    /\ IsFiniteSet(BatchProcs) /\ IsFiniteSet(QueueProcs)
    /\ BatchProcs \cap QueueProcs = {} /\ Batch \notin Procs
    /\ DOMAIN Login = Owners /\ Human \notin Logins
    /\ IncludeAssigned \cup ResumeRuns \subseteq Owners
    /\ MaxFaults \in Nat

VARIABLES
    batch,       \* batch-state.json
    offers,      \* bail commands printed: an issue and the status expected
    proc,        \* the wrapper of each process
    runs,        \* what each owner left on disk and on GitHub for an issue
    review,      \* the review process resuming that, at most one by its lock
    assignees,   \* of each issue
    eligible,    \* the issue is open, labelled, unchanged and not blocked
    faults       \* disturbances so far

hostVars == <<assignees, eligible>>
vars == <<batch, offers, proc, runs, review, hostVars, faults>>

BatchPcs == {"acquire", "resume", "child", "childDone", "childCleanup", "activate",
             "attach", "advance"}
LoopPcs == {"select", "claim", "verify", "recheck", "unclaim", "unready", "work",
            "verifyIssue", "push", "openPr", "checkpoint", "lock", "review",
            "record", "cleanup"}

(* assigned is SELECTED_ASSIGNED, exit that a rollback ends the loop,      *)
(* processed PROCESSED_ISSUES, locked the issues whose run lock it holds.  *)
Proc == [pc : {"idle", "ended"} \cup BatchPcs \cup LoopPcs, issue : Issues,
         assigned : BOOLEAN, exit : BOOLEAN,
         processed : SUBSET Issues, locked : SUBSET Issues]
NewProc(pc) == [pc |-> pc, issue |-> 1, assigned |-> FALSE, exit |-> FALSE,
                processed |-> {}, locked |-> {}]

(* branch is a pushed branch without a PR.                                 *)
Run == [worktree : BOOLEAN, pr : {"none", "branch", "draft", "ready"},
        child : {"none", "open", "finalized"}]
NoRun == [worktree |-> FALSE, pr |-> "none", child |-> "none"]

Review == [pc : {"none", "start", "review", "record", "cleanup"}, parent : BOOLEAN]
NoReview == [pc |-> "none", parent |-> FALSE]

(* With the types: the validator of batch-state.json refuses none of the   *)
(* writes and reads, whoever makes them after whatever interruption.       *)
TypeOK ==
    /\ batch \in Batches \cup {NoBatch}
    /\ batch # NoBatch => ValidBatch(batch)
    /\ offers \subseteq Issues \X {"pending", "active"}
    /\ proc \in [Procs -> Proc]
    /\ runs \in [Owners -> [Issues -> Run]]
    /\ review \in [Owners -> [Issues -> Review]]
    /\ assignees \in [Issues -> SUBSET (Logins \cup {Human})]
    /\ eligible \in [Issues -> BOOLEAN]
    /\ faults \in Nat

Init ==
    /\ batch = NoBatch /\ offers = {}
    /\ proc = [p \in Procs |-> NewProc("idle")]
    /\ runs = [o \in Owners |-> [i \in Issues |-> NoRun]]
    /\ review = [o \in Owners |-> [i \in Issues |-> NoReview]]
    /\ assignees = [i \in Issues |-> {}]
    /\ eligible = [i \in Issues |-> TRUE]
    /\ faults = 0

-----------------------------------------------------------------------------
(* What a loop reads on GitHub.                                            *)

HasPr(o, i) == runs[o][i].pr \in {"draft", "ready"}

(* The ready queue leaves out issues that an open PR addresses, other than *)
(* the PR the wrapper itself opened.                                       *)
Ready_Eligible(o, i) == eligible[i]                              \* mutant
Ready(o, i) == eligible[i] /\ \A other \in Owners \ {o} : ~HasPr(other, i)

(* issue_is_selectable.                                                    *)
Selectable(o, i, includeAssigned) ==
    /\ eligible[i]
    /\ assignees[i] = {} \/ (includeAssigned /\ assignees[i] = {Login[o]})

(* verify_issue_for_publication.                                           *)
Publishable(o, i) == Ready(o, i) /\ assignees[i] = {Login[o]}

(* The locks.  A process inherits the batch lock of the resumed batch that *)
(* started it and keeps it when that one is killed.                        *)
BatchLockFree_Ignored == TRUE                                    \* mutant
BatchLockFree ==
    /\ \A p \in BatchProcs : proc[p].pc \in {"idle", "acquire"}
    /\ \A i \in Issues : review[Batch][i].parent => review[Batch][i].pc = "none"

RunLockFree_Ignored(o, i) == TRUE                                \* mutant
RunLockFree(o, i) ==
    /\ review[o][i].pc = "none"
    /\ \A p \in Procs : Owner(p) = o => i \notin proc[p].locked

(* A process that ends is a batch process that may start again, or a queue *)
(* loop that is over.                                                      *)
Ended(p) == NewProc(IF p \in BatchProcs THEN "idle" ELSE "ended")
End(p) == proc' = [proc EXCEPT ![p] = Ended(p)]
Goto(p, pc) == proc' = [proc EXCEPT ![p].pc = pc]
NextIssue(p) == proc' = [proc EXCEPT ![p].pc = "select", ![p].issue = 1, ![p].assigned = FALSE]
At(p, pc) == proc[p].pc = pc

(* A batch stops where a queue loop goes on with its next issue.           *)
GiveUp_FallsThrough(p) ==                                        \* mutant
    IF p \in BatchProcs \/ proc[p].exit THEN End(p) ELSE Goto(p, "work")
GiveUp(p) == IF p \in BatchProcs \/ proc[p].exit THEN End(p) ELSE NextIssue(p)

(* print_batch_bail_command; what was printed can be run at any time.      *)
PrintBail_Never(i, expected) == UNCHANGED offers                 \* mutant
PrintBail(i, expected) == offers' = offers \cup {<<i, expected>>}

Change(o, i, run) == runs' = [runs EXCEPT ![o][i] = run]

-----------------------------------------------------------------------------
(* Start and resume of a loop.                                             *)

CreateBatch(p) ==
    /\ p \in BatchProcs /\ At(p, "idle") /\ batch = NoBatch
    /\ batch' = NewBatch
    /\ Goto(p, "acquire")
    /\ UNCHANGED <<offers, runs, review, hostVars, faults>>

AcquireBatch(p) ==
    /\ At(p, "acquire")
    /\ IF BatchLockFree THEN Goto(p, "select") ELSE End(p)
    /\ UNCHANGED <<batch, offers, runs, review, hostVars, faults>>

(* --resume-batch; a second one is refused and changes nothing.            *)
ResumeBatch(p) ==
    /\ p \in BatchProcs /\ At(p, "idle") /\ batch # NoBatch /\ BatchLockFree
    /\ batch.cursor < N
    /\ Goto(p, "resume")
    /\ UNCHANGED <<batch, offers, runs, review, hostVars, faults>>

StartQueue(p) ==
    /\ p \in QueueProcs /\ At(p, "idle")
    /\ Goto(p, "select")
    /\ UNCHANGED <<batch, offers, runs, review, hostVars, faults>>

(* The issue at the cursor: without a child it has to be bailed, a child   *)
(* is resumed if nobody holds its run lock.                                *)
InspectRow(p) ==
    LET i == batch.cursor + 1 IN
    /\ At(p, "resume")
    /\ CASE batch.rows[i].status = "pending" ->
              Goto(p, "select") /\ UNCHANGED <<offers, review>>
         [] batch.rows[i].status = "active" /\ ~batch.rows[i].child ->
              /\ PrintBail(i, "active")
              /\ End(p) /\ UNCHANGED review
         [] OTHER ->
              /\ IF RunLockFree(Batch, i)
                   THEN /\ review' = [review EXCEPT ![Batch][i] =
                                        [pc |-> "start", parent |-> TRUE]]
                        /\ proc' = [proc EXCEPT ![p].pc = "child", ![p].issue = i]
                   ELSE End(p) /\ UNCHANGED review
              /\ UNCHANGED offers
    /\ UNCHANGED <<batch, runs, hostVars, faults>>

(* batch-update finalized, after the child exited 0.                       *)
RecordChild(p) ==
    LET i == proc[p].issue IN
    /\ At(p, "childDone")
    /\ IF CanUpdate(batch, i, "active", "finalized", FALSE)
         THEN batch' = UpdateBatch(batch, i, "finalized", FALSE) /\ Goto(p, "childCleanup")
         ELSE End(p) /\ UNCHANGED batch
    /\ UNCHANGED <<offers, runs, review, hostVars, faults>>

-----------------------------------------------------------------------------
(* select_next_issue, with the dependency gate.                            *)

Choose(p, i) ==
    proc' = [proc EXCEPT ![p].pc = IF p \in BatchProcs THEN "activate" ELSE "claim",
                         ![p].issue = i, ![p].assigned = assignees[i] # {},
                         ![p].processed = @ \cup {i}]

(* A batch looks at the cursor only; after an issue it may have reached    *)
(* its iteration cap.                                                      *)
SelectInBatch(p) ==
    LET i == batch.cursor + 1
        pending == batch.cursor < N /\ batch.rows[i].status = "pending"
    IN
    /\ p \in BatchProcs /\ At(p, "select")
    /\ \/ /\ pending => proc[p].processed # {}
          /\ End(p) /\ UNCHANGED offers
       \/ /\ pending
          /\ IF Ready(Batch, i) /\ Selectable(Batch, i, Batch \in IncludeAssigned)
               THEN Choose(p, i) /\ UNCHANGED offers
               ELSE End(p) /\ PrintBail(i, "pending")
    /\ UNCHANGED <<batch, runs, review, hostVars, faults>>

SelectInQueue(p) ==
    LET candidates == {i \in Issues \ proc[p].processed :
                         Ready(p, i) /\ Selectable(p, i, p \in IncludeAssigned)}
    IN
    /\ p \in QueueProcs /\ At(p, "select")
    /\ IF candidates = {} THEN End(p) ELSE \E i \in candidates : Choose(p, i)
    /\ UNCHANGED <<batch, offers, runs, review, hostVars, faults>>

Activate(p) ==
    LET i == proc[p].issue IN
    /\ At(p, "activate")
    /\ IF CanUpdate(batch, i, "pending", "active", FALSE)
         THEN batch' = UpdateBatch(batch, i, "active", FALSE) /\ Goto(p, "claim")
         ELSE End(p) /\ UNCHANGED batch
    /\ UNCHANGED <<offers, runs, review, hostVars, faults>>

-----------------------------------------------------------------------------
(* claim_issue and the refresh after it.                                   *)

(* A command that failed may have assigned the issue all the same.         *)
AddAssignee(p) ==
    LET i == proc[p].issue
        added == [assignees EXCEPT ![i] = @ \cup {Login[Owner(p)]}]
    IN
    /\ At(p, "claim")
    /\ \/ proc[p].assigned /\ Goto(p, "verify") /\ UNCHANGED assignees
       \/ ~proc[p].assigned /\ Goto(p, "verify") /\ assignees' = added
       \/ ~proc[p].assigned /\ GiveUp(p) /\ assignees' \in {assignees, added}
    /\ UNCHANGED <<batch, offers, runs, review, eligible, faults>>

(* A reply that cannot be read ends the loop, after the rollback.          *)
VerifyClaim_Selects(p) ==                                        \* mutant
    /\ At(p, "verify") /\ Goto(p, "recheck")
    /\ UNCHANGED <<batch, offers, runs, review, hostVars, faults>>
VerifyClaim(p) ==
    LET i == proc[p].issue IN
    /\ At(p, "verify")
    /\ \/ IF eligible[i] /\ assignees[i] = {Login[Owner(p)]}
            THEN Goto(p, "recheck")
            ELSE Goto(p, "unclaim")
       \/ proc' = [proc EXCEPT ![p].pc = "unclaim", ![p].exit = TRUE]
    /\ UNCHANGED <<batch, offers, runs, review, hostVars, faults>>

Recheck(p) ==
    /\ At(p, "recheck")
    /\ \/ Goto(p, IF Ready(Owner(p), proc[p].issue) THEN "work" ELSE "unready")
       \/ proc' = [proc EXCEPT ![p].pc = "unready", ![p].exit = TRUE]
    /\ UNCHANGED <<batch, offers, runs, review, hostVars, faults>>

(* rollback_new_claim, only of an assignment made by this loop.  When it   *)
(* fails the loop ends.                                                    *)
Rollback(p) ==
    LET i == proc[p].issue IN
    /\ \E pc \in {"unclaim", "unready"} : At(p, pc)
    /\ \/ /\ assignees' = IF proc[p].assigned THEN assignees
                          ELSE [assignees EXCEPT ![i] = @ \ {Login[Owner(p)]}]
          /\ IF At(p, "unready") /\ p \in BatchProcs
               THEN PrintBail(i, "active")
               ELSE UNCHANGED offers
          /\ GiveUp(p)
       \/ ~proc[p].assigned /\ End(p) /\ UNCHANGED <<assignees, offers>>
    /\ UNCHANGED <<batch, runs, review, eligible, faults>>

-----------------------------------------------------------------------------
(* From the worktree to the checkpoint of the review.                      *)

(* A step that only moves the wrapper and its run forward.                 *)
Advances(p, from, run, to) ==
    /\ At(p, from)
    /\ Change(Owner(p), proc[p].issue, run)
    /\ Goto(p, to)
    /\ UNCHANGED <<batch, offers, review, hostVars, faults>>

RunOf(p) == runs[Owner(p)][proc[p].issue]

(* The worktree, setup, worker with its retries, validation, integration   *)
(* of the base; a failure of any of them leaves the worktree, as Die does. *)
Work(p) == Advances(p, "work", [RunOf(p) EXCEPT !.worktree = TRUE], "verifyIssue")

VerifyIssue(p) ==
    /\ At(p, "verifyIssue")
    /\ IF Publishable(Owner(p), proc[p].issue) THEN Goto(p, "push") ELSE End(p)
    /\ UNCHANGED <<batch, offers, runs, review, hostVars, faults>>

PushBranch(p) == Advances(p, "push", [RunOf(p) EXCEPT !.pr = "branch"], "openPr")
OpenPr(p) == Advances(p, "openPr", [RunOf(p) EXCEPT !.pr = "draft"], "checkpoint")
CreateCheckpoint(p) == Advances(p, "checkpoint", [RunOf(p) EXCEPT !.child = "open"], "lock")

AcquireRun(p) ==
    LET i == proc[p].issue IN
    /\ At(p, "lock")
    /\ IF RunLockFree(Owner(p), i)
         THEN proc' = [proc EXCEPT ![p].pc = IF p \in BatchProcs THEN "attach" ELSE "review",
                                   ![p].locked = @ \cup {i}]
         ELSE End(p)
    /\ UNCHANGED <<batch, offers, runs, review, hostVars, faults>>

Attach(p) ==
    LET i == proc[p].issue IN
    /\ At(p, "attach")
    /\ IF CanUpdate(batch, i, "active", "active", TRUE)
         THEN batch' = UpdateBatch(batch, i, "active", TRUE) /\ Goto(p, "review")
         ELSE End(p) /\ UNCHANGED batch
    /\ UNCHANGED <<offers, runs, review, hostVars, faults>>

-----------------------------------------------------------------------------
(* The review, seen from outside: the PR becomes ready if the issue still  *)
(* is as it was, then the checkpoint is finalized.                         *)

MarkReady(p) ==
    /\ At(p, "review")
    /\ IF Publishable(Owner(p), proc[p].issue)
         THEN Change(Owner(p), proc[p].issue, [RunOf(p) EXCEPT !.pr = "ready"])
              /\ Goto(p, "record")
         ELSE End(p) /\ UNCHANGED runs
    /\ UNCHANGED <<batch, offers, review, hostVars, faults>>

Record_Unchecked(p) ==                                           \* mutant
    Advances(p, "record", RunOf(p), IF p \in BatchProcs THEN "advance" ELSE "cleanup")
Record(p) ==
    Advances(p, "record", [RunOf(p) EXCEPT !.child = "finalized"],
             IF p \in BatchProcs THEN "advance" ELSE "cleanup")

(* The cursor first, then the worktree: a crash between leaves a worktree. *)
Advance(p) ==
    LET i == proc[p].issue IN
    /\ At(p, "advance")
    /\ IF CanUpdate(batch, i, "active", "finalized", FALSE)
         THEN batch' = UpdateBatch(batch, i, "finalized", FALSE) /\ Goto(p, "cleanup")
         ELSE End(p) /\ UNCHANGED batch
    /\ UNCHANGED <<offers, runs, review, hostVars, faults>>

(* git worktree remove; its failure is a warning.                          *)
Cleanup(p) ==
    /\ \E pc \in {"cleanup", "childCleanup"}, left \in BOOLEAN :
         At(p, pc) /\ Change(Owner(p), proc[p].issue, [RunOf(p) EXCEPT !.worktree = @ /\ left])
    /\ NextIssue(p)
    /\ UNCHANGED <<batch, offers, review, hostVars, faults>>

Die(p) ==
    /\ "kill" \in Faults /\ faults < MaxFaults /\ faults' = faults + 1
    /\ proc[p].pc \notin {"idle", "ended"}
    /\ End(p)
    /\ UNCHANGED <<batch, offers, runs, review, hostVars>>

-----------------------------------------------------------------------------
(* agent-loop.sh --resume-run.                                             *)

(* The exit of a review process, seen by a batch that waits for it.        *)
Exit_AnyStatus(o, i, ok) ==                                      \* mutant
    /\ review' = [review EXCEPT ![o][i] = NoReview]
    /\ proc' = [p \in Procs |->
         IF p \in BatchProcs /\ review[o][i].parent /\ At(p, "child") /\ proc[p].issue = i
           THEN [proc[p] EXCEPT !.pc = "childDone"]
           ELSE proc[p]]
Exit(o, i, ok) ==
    /\ review' = [review EXCEPT ![o][i] = NoReview]
    /\ proc' = [p \in Procs |->
         IF p \in BatchProcs /\ review[o][i].parent /\ At(p, "child") /\ proc[p].issue = i
           THEN IF ok THEN [proc[p] EXCEPT !.pc = "childDone"] ELSE Ended(p)
           ELSE proc[p]]

Reviewing(o, i, pc) == review[o][i].pc = pc
ReviewGoto(o, i, pc) == review' = [review EXCEPT ![o][i].pc = pc] /\ UNCHANGED proc

ResumeRun(o, i) ==
    /\ o \in ResumeRuns /\ runs[o][i].child # "none" /\ RunLockFree(o, i)
    /\ review' = [review EXCEPT ![o][i] = [pc |-> "start", parent |-> FALSE]]
    /\ UNCHANGED <<batch, offers, proc, runs, hostVars, faults>>

(* What the resumed run requires before it looks at the review.            *)
Resumable(o, i) == runs[o][i].worktree /\ Selectable(o, i, TRUE)

ResumeStart(o, i) ==
    /\ Reviewing(o, i, "start")
    /\ CASE ~Resumable(o, i) -> Exit(o, i, FALSE)
         [] Resumable(o, i) /\ runs[o][i].child = "open" -> ReviewGoto(o, i, "review")
         [] OTHER -> IF Publishable(o, i) /\ runs[o][i].pr = "ready"
                       THEN ReviewGoto(o, i, "cleanup")
                       ELSE Exit(o, i, FALSE)
    /\ UNCHANGED <<batch, offers, runs, hostVars, faults>>

(* A PR that an interrupted run made ready is a draft again when the issue *)
(* has changed.                                                            *)
ResumeReady(o, i) ==
    /\ Reviewing(o, i, "review")
    /\ IF Publishable(o, i)
         THEN Change(o, i, [runs[o][i] EXCEPT !.pr = "ready"]) /\ ReviewGoto(o, i, "record")
         ELSE Change(o, i, [runs[o][i] EXCEPT !.pr = "draft"]) /\ Exit(o, i, FALSE)
    /\ UNCHANGED <<batch, offers, hostVars, faults>>

ResumeRecord(o, i) ==
    /\ Reviewing(o, i, "record")
    /\ Change(o, i, [runs[o][i] EXCEPT !.child = "finalized"])
    /\ ReviewGoto(o, i, "cleanup")
    /\ UNCHANGED <<batch, offers, hostVars, faults>>

(* Under a batch the worktree is left to the parent.                       *)
ResumeCleanup(o, i) ==
    /\ Reviewing(o, i, "cleanup")
    /\ Change(o, i, [runs[o][i] EXCEPT !.worktree = @ /\ review[o][i].parent])
    /\ Exit(o, i, TRUE)
    /\ UNCHANGED <<batch, offers, hostVars, faults>>

ReviewDies(o, i) ==
    /\ "kill" \in Faults /\ faults < MaxFaults /\ faults' = faults + 1
    /\ ~Reviewing(o, i, "none")
    /\ Exit(o, i, FALSE)
    /\ UNCHANGED <<batch, offers, runs, hostVars>>

-----------------------------------------------------------------------------
(* The operator and the other users of the repository.                     *)

(* The operator runs a printed command, perhaps much later; it waits for   *)
(* the batch lock.                                                         *)
Bail(i, expected) ==
    /\ <<i, expected>> \in offers /\ batch # NoBatch /\ BatchLockFree
    /\ CanUpdate(batch, i, expected, "bailed", FALSE)
    /\ batch' = UpdateBatch(batch, i, "bailed", FALSE)
    /\ UNCHANGED <<offers, proc, runs, review, hostVars, faults>>

ChangeIssue(i) ==
    /\ "issue" \in Faults /\ faults < MaxFaults /\ faults' = faults + 1
    /\ eligible' = [eligible EXCEPT ![i] = ~@]
    /\ UNCHANGED <<batch, offers, proc, runs, review, assignees>>

(* The issue is assigned to somebody, also to the login of a loop.  Nobody *)
(* but a loop takes back a claim under which a loop is at work.            *)
Busy(o, i) ==
    \/ \E p \in Procs : Owner(p) = o /\ proc[p].issue = i /\ proc[p].pc \in BatchPcs \cup LoopPcs
    \/ review[o][i] # NoReview

ChangeAssignee(i) ==
    /\ "assignee" \in Faults /\ faults < MaxFaults /\ faults' = faults + 1
    /\ \/ \E l \in Logins \cup {Human} : assignees' = [assignees EXCEPT ![i] = @ \cup {l}]
       \/ \E l \in assignees[i] :
            /\ \A o \in Owners : Login[o] = l => ~Busy(o, i)
            /\ assignees' = [assignees EXCEPT ![i] = @ \ {l}]
    /\ UNCHANGED <<batch, offers, proc, runs, review, eligible>>

LoopStep(p) ==
    \/ AcquireBatch(p) \/ InspectRow(p) \/ RecordChild(p)
    \/ SelectInBatch(p) \/ SelectInQueue(p) \/ Activate(p)
    \/ AddAssignee(p) \/ VerifyClaim(p) \/ Recheck(p) \/ Rollback(p)
    \/ Work(p) \/ VerifyIssue(p) \/ PushBranch(p) \/ OpenPr(p)
    \/ CreateCheckpoint(p) \/ AcquireRun(p) \/ Attach(p)
    \/ MarkReady(p) \/ Record(p) \/ Advance(p) \/ Cleanup(p)

ReviewStep(o, i) ==
    ResumeStart(o, i) \/ ResumeReady(o, i) \/ ResumeRecord(o, i) \/ ResumeCleanup(o, i)

Next ==
    \/ \E p \in Procs : \/ CreateBatch(p) \/ ResumeBatch(p) \/ StartQueue(p)
                        \/ LoopStep(p) \/ Die(p)
    \/ \E o \in Owners, i \in Issues : ResumeRun(o, i) \/ ReviewStep(o, i) \/ ReviewDies(o, i)
    \/ \E i \in Issues : \/ \E e \in {"pending", "active"} : Bail(i, e)
                         \/ ChangeIssue(i) \/ ChangeAssignee(i)

Spec == Init /\ [][Next]_vars
=============================================================================
