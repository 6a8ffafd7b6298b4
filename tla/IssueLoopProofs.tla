--------------------------- MODULE IssueLoopProofs ---------------------------
(***************************************************************************)
(* What holds of the issue loops and the ordered batch for every number of *)
(* issues, processes, logins and disturbances of every kind.               *)
(***************************************************************************)
EXTENDS IssueLoopProperties, FiniteSetTheorems, SequenceTheorems, TLAPS

(* A process that holds the batch lock.                                    *)
Holds(p) == proc[p].pc \notin {"idle", "acquire"}

(* The batch has come as far as the issue.                                 *)
Reached(i) == batch # NoBatch /\ i <= batch.cursor + 1

(* Only a loop of the batch is in the batch's part of the code, and not    *)
(* before the checkpoint exists.                                           *)
BatchKnown ==
    /\ \A p \in BatchProcs : proc[p].pc # "idle" => batch # NoBatch
    /\ \A p \in QueueProcs : proc[p].pc \notin BatchPcs

OneHolder == \A p, q \in BatchProcs : Holds(p) /\ Holds(q) => p = q

(* The holder that has read the cursor finds it there: nobody else writes. *)
CursorHeld == \A p \in BatchProcs : proc[p].pc = "resume" => batch.cursor < N

(* A process, a run or a review of the batch is about an issue it reached. *)
IssuesReached ==
    /\ \A p \in BatchProcs : proc[p].issue = 1 \/ Reached(proc[p].issue)
    /\ \A i \in Issues :
         runs[Batch][i] # NoRun \/ review[Batch][i] # NoReview => Reached(i)

IInv == TypeOK /\ BatchKnown /\ OneHolder /\ CursorHeld /\ IssuesReached

-----------------------------------------------------------------------------
(* The checkpoint of the batch.                                            *)

LEMMA NewBatchValid == NewBatch \in Batches /\ ValidBatch(NewBatch) /\ NewBatch # NoBatch
<1>1. NewBatch \in Batches
  BY NAssumption DEF NewBatch, Batches, RowStatuses, Issues
<1>2. ValidBatch(NewBatch)
  BY NAssumption DEF NewBatch, ValidBatch, Issues, AtCursor
<1> QED
  BY <1>1, <1>2, NoBatchAssumption

(* A write that batch-update accepts leaves a state its validator accepts, *)
(* and the cursor never goes back.                                         *)
LEMMA UpdateValid ==
    ASSUME NEW b \in Batches, ValidBatch(b), NEW i \in Issues,
           NEW expected, NEW status, NEW attach \in BOOLEAN,
           CanUpdate(b, i, expected, status, attach)
    PROVE  /\ UpdateBatch(b, i, status, attach) \in Batches
           /\ UpdateBatch(b, i, status, attach) # NoBatch
           /\ ValidBatch(UpdateBatch(b, i, status, attach))
           /\ b.cursor <= UpdateBatch(b, i, status, attach).cursor
<1> DEFINE c == UpdateBatch(b, i, status, attach)
<1>1. /\ b.cursor \in 0..N /\ b.cursor < N /\ i = b.cursor + 1
      /\ status \in {"active", "finalized", "bailed"}
  BY DEF CanUpdate, AtCursor, Transitions, Batches
<1>2. c.cursor = (IF status \in SettledStatuses THEN b.cursor + 1 ELSE b.cursor)
  BY DEF UpdateBatch
<1>3. /\ c.rows[i].status = status
      /\ \A j \in Issues \ {i} : c.rows[j] = b.rows[j]
  BY DEF UpdateBatch, Batches
<1>4. c \in Batches
  <2>1. [status |-> status, child |-> b.rows[i].child \/ attach]
          \in [status : RowStatuses, child : BOOLEAN]
    BY <1>1 DEF RowStatuses
  <2>2. c.cursor \in 0..N
    BY <1>1, <1>2, NAssumption
  <2> QED
    BY <2>1, <2>2 DEF UpdateBatch, Batches
<1>5. ValidBatch(c)
  BY <1>1, <1>2, <1>3, NAssumption DEF ValidBatch, AtCursor, SettledStatuses, Issues
<1>6. b.cursor <= c.cursor
  BY <1>1, <1>2
<1> QED
  BY <1>4, <1>5, <1>6, NoBatchAssumption

(* The steps of a loop that write the batch checkpoint.                    *)
Writes(p) == RecordChild(p) \/ Activate(p) \/ Attach(p) \/ Advance(p)

LEMMA Writers ==
    [Next]_vars => \/ UNCHANGED batch
                   \/ \E p \in Procs : CreateBatch(p) \/ Writes(p)
                   \/ \E i \in Issues, e \in {"pending", "active"} : Bail(i, e)
<1> SUFFICES ASSUME [Next]_vars,
                    ~ \E p \in Procs : CreateBatch(p) \/ Writes(p),
                    ~ \E i \in Issues, e \in {"pending", "active"} : Bail(i, e)
             PROVE  UNCHANGED batch
  OBVIOUS
<1>1. ASSUME NEW p \in Procs, ResumeBatch(p) \/ StartQueue(p) \/ LoopStep(p) \/ Die(p)
      PROVE  UNCHANGED batch
  BY <1>1 DEF Writes, ResumeBatch, StartQueue, LoopStep, Die, AcquireBatch, InspectRow,
              SelectInBatch, SelectInQueue, AddAssignee, VerifyClaim, Recheck, Rollback,
              Advances, Work, VerifyIssue, PushBranch, OpenPr, CreateCheckpoint, AcquireRun,
              MarkReady, Record, Cleanup
<1>2. ASSUME NEW o \in Owners, NEW i \in Issues,
             ResumeRun(o, i) \/ ReviewStep(o, i) \/ ReviewDies(o, i)
      PROVE  UNCHANGED batch
  BY <1>2 DEF ResumeRun, ReviewStep, ReviewDies, ResumeStart, ResumeReady, ResumeRecord,
              ResumeCleanup
<1>3. ASSUME NEW i \in Issues, ChangeIssue(i) \/ ChangeAssignee(i) PROVE UNCHANGED batch
  BY <1>3 DEF ChangeIssue, ChangeAssignee
<1> QED
  BY <1>1, <1>2, <1>3 DEF Next, vars

LEMMA BatchSteps ==
    ASSUME IInv, [Next]_vars
    PROVE  /\ batch' \in Batches \cup {NoBatch}
           /\ batch' # NoBatch => ValidBatch(batch')
           /\ batch # NoBatch => batch' # NoBatch /\ batch.cursor <= batch'.cursor
<1>1. batch \in Batches \cup {NoBatch} /\ (batch # NoBatch => ValidBatch(batch))
  BY DEF IInv, TypeOK
<1>2. CASE UNCHANGED batch
  BY <1>1, <1>2, NAssumption DEF Batches
<1>3. ASSUME NEW p \in Procs, CreateBatch(p)
      PROVE  batch = NoBatch /\ batch' = NewBatch
  BY <1>3 DEF CreateBatch
<1>4. ASSUME NEW p \in Procs, Writes(p), batch' # batch
      PROVE  batch \in Batches /\ \E e, s : \E a \in BOOLEAN :
               /\ CanUpdate(batch, proc[p].issue, e, s, a)
               /\ batch' = UpdateBatch(batch, proc[p].issue, s, a)
  <2>1. batch # NoBatch
    BY <1>4 DEF IInv, BatchKnown, Procs, Writes, RecordChild, Activate, Attach, Advance, At,
                BatchPcs
  <2>2. \E e, s : \E a \in BOOLEAN :
          /\ CanUpdate(batch, proc[p].issue, e, s, a)
          /\ batch' = UpdateBatch(batch, proc[p].issue, s, a)
    BY <1>4 DEF Writes, RecordChild, Activate, Attach, Advance
  <2> QED
    BY <1>1, <2>1, <2>2
<1>5. ASSUME NEW i \in Issues, NEW e \in {"pending", "active"}, Bail(i, e)
      PROVE  /\ batch # NoBatch /\ CanUpdate(batch, i, e, "bailed", FALSE)
             /\ batch' = UpdateBatch(batch, i, "bailed", FALSE)
  BY <1>5 DEF Bail
<1>6. \A p \in Procs : proc[p].issue \in Issues
  BY DEF IInv, TypeOK, Proc
<1>7. CASE \E p \in Procs : CreateBatch(p)
  BY <1>3, <1>7, NewBatchValid
<1>8. CASE (\E p \in Procs : Writes(p)) /\ batch' # batch
  <2> PICK p \in Procs : Writes(p)
    BY <1>8
  <2>1. PICK e, s : \E a \in BOOLEAN :
          /\ CanUpdate(batch, proc[p].issue, e, s, a)
          /\ batch' = UpdateBatch(batch, proc[p].issue, s, a)
    BY <1>4, <1>8
  <2>2. batch \in Batches /\ batch # NoBatch
    BY <1>4, <1>8, NoBatchAssumption
  <2> QED
    BY <1>1, <1>6, <2>1, <2>2, UpdateValid
<1>9. CASE \E i \in Issues, e \in {"pending", "active"} : Bail(i, e)
  BY <1>1, <1>5, <1>9, UpdateValid
<1> QED
  BY <1>2, <1>7, <1>8, <1>9, Writers

-----------------------------------------------------------------------------
(* The control of the processes.                                           *)

Pcs == {"idle", "ended"} \cup BatchPcs \cup LoopPcs

(* The process moves and no other does.                                    *)
Moves(p) == proc' = [proc EXCEPT ![p] = proc'[p]] /\ proc'[p] \in Proc

(* It moves on and stays on its issue.                                     *)
Leads(p, pc) == Moves(p) /\ proc'[p].pc = pc /\ proc'[p].issue = proc[p].issue

LEMMA FirstIssue == 1 \in Issues
  BY NAssumption DEF Issues

LEMMA OwnerType ==
    ASSUME NEW p \in Procs
    PROVE  /\ Owner(p) \in Owners /\ Login[Owner(p)] \in Logins
           /\ Owner(p) = Batch <=> p \in BatchProcs
  BY IssueLoopAssumption DEF Owner, Owners, Procs, Logins

LEMMA GotoMoves ==
    ASSUME TypeOK, NEW p \in Procs, NEW pc \in Pcs, Goto(p, pc)
    PROVE  Leads(p, pc)
  BY DEF TypeOK, Goto, Leads, Moves, Proc, Pcs

LEMMA ExitMoves ==
    ASSUME TypeOK, NEW p \in Procs, NEW pc \in Pcs,
           proc' = [proc EXCEPT ![p].pc = pc, ![p].exit = TRUE]
    PROVE  Leads(p, pc)
  BY DEF TypeOK, Leads, Moves, Proc, Pcs

LEMMA LockMoves ==
    ASSUME TypeOK, NEW p \in Procs, NEW pc \in Pcs,
           proc' = [proc EXCEPT ![p].pc = pc, ![p].locked = @ \cup {proc[p].issue}]
    PROVE  Leads(p, pc)
<1> DEFINE locked == proc[p].locked \cup {proc[p].issue}
           r == [proc[p] EXCEPT !.pc = pc, !.locked = locked]
<1>1. proc \in [Procs -> Proc] /\ proc[p] \in Proc
  BY DEF TypeOK
<1>2. proc' = [proc EXCEPT ![p] = r] /\ proc'[p] = r
  BY <1>1
<1>3. locked \in SUBSET Issues
  BY <1>1 DEF Proc
<1> HIDE DEF locked
<1>4. r \in Proc /\ r.issue = proc[p].issue /\ r.pc = pc
  BY <1>1, <1>3 DEF Proc, Pcs
<1> QED
  BY <1>2, <1>4 DEF Leads, Moves

LEMMA EndMoves ==
    ASSUME TypeOK, NEW p \in Procs, End(p)
    PROVE  /\ Moves(p) /\ proc'[p].issue = 1
           /\ proc'[p].pc = IF p \in BatchProcs THEN "idle" ELSE "ended"
  BY FirstIssue DEF TypeOK, End, Ended, NewProc, Moves, Proc, Pcs

LEMMA NextIssueMoves ==
    ASSUME TypeOK, NEW p \in Procs, NextIssue(p)
    PROVE  Moves(p) /\ proc'[p].pc = "select" /\ proc'[p].issue = 1
  BY FirstIssue DEF TypeOK, NextIssue, Moves, Proc, LoopPcs

LEMMA ChooseMoves ==
    ASSUME TypeOK, NEW p \in Procs, NEW i \in Issues, Choose(p, i)
    PROVE  /\ Moves(p) /\ proc'[p].issue = i
           /\ proc'[p].pc = IF p \in BatchProcs THEN "activate" ELSE "claim"
<1> DEFINE pc == IF p \in BatchProcs THEN "activate" ELSE "claim"
           a == assignees[i] # {}
           r == [proc[p] EXCEPT !.pc = pc, !.issue = i, !.assigned = a,
                                !.processed = proc[p].processed \cup {i}]
<1>1. proc \in [Procs -> Proc] /\ proc[p] \in Proc
  BY DEF TypeOK
<1>2. proc' = [proc EXCEPT ![p] = r] /\ proc'[p] = r
  BY <1>1 DEF Choose
<1>3. a \in BOOLEAN /\ pc \in Pcs /\ proc[p].processed \cup {i} \in SUBSET Issues
  BY <1>1 DEF Proc, Pcs, BatchPcs, LoopPcs
<1> HIDE DEF a, pc
<1>4. r \in Proc /\ r.issue = i /\ r.pc = pc
  BY <1>1, <1>3 DEF Proc, Pcs
<1> QED
  BY <1>2, <1>4 DEF Moves, pc

(* Where a step may take a process.                                        *)
Follows(p) ==
    /\ Moves(p)
    /\ p \in QueueProcs => proc'[p].pc \notin BatchPcs
    /\ p \in BatchProcs =>
         /\ proc'[p].pc \notin {"idle", "acquire"} => Holds(p) \/ BatchLockFree
         /\ proc'[p].pc # "idle" => batch' # NoBatch
         /\ proc'[p].pc = "resume" => batch'.cursor < N
         /\ \/ proc'[p].issue = 1
            \/ batch' # NoBatch /\ proc'[p].issue <= batch'.cursor + 1

(* A step inside the loop that stays on its issue.                         *)
LEMMA LeadsFollows ==
    ASSUME IInv, [Next]_vars, NEW p \in Procs, NEW pc, Leads(p, pc),
           pc \notin {"idle", "acquire", "resume"},
           p \in BatchProcs => Holds(p), p \in QueueProcs => pc \notin BatchPcs
    PROVE  Follows(p)
<1>1. p \in BatchProcs => batch # NoBatch /\ (proc[p].issue = 1 \/ Reached(proc[p].issue))
  BY DEF IInv, BatchKnown, Holds, IssuesReached
<1>2. Reached(proc[p].issue) => proc[p].issue <= batch'.cursor + 1
  BY BatchSteps DEF IInv, TypeOK, Batches, Reached, Proc, Issues
<1> QED
  BY <1>1, <1>2, BatchSteps DEF Follows, Leads

LEMMA EndFollows ==
    ASSUME IInv, NEW p \in Procs, End(p)
    PROVE  Follows(p)
  BY EndMoves DEF IInv, Follows, BatchPcs

LEMMA NextIssueFollows ==
    ASSUME IInv, [Next]_vars, NEW p \in Procs, NextIssue(p), p \in BatchProcs => Holds(p)
    PROVE  Follows(p)
  BY NextIssueMoves, BatchSteps DEF IInv, BatchKnown, Holds, Follows, BatchPcs

LEMMA GiveUpFollows ==
    ASSUME IInv, [Next]_vars, NEW p \in Procs, GiveUp(p)
    PROVE  Follows(p)
  BY EndFollows, NextIssueFollows DEF GiveUp

(* The steps that start, end or leave the loop for another issue.          *)
LEMMA StartFollows ==
    ASSUME IInv, [Next]_vars, NEW p \in Procs,
           CreateBatch(p) \/ AcquireBatch(p) \/ ResumeBatch(p) \/ StartQueue(p) \/ Die(p)
    PROVE  Follows(p)
<1>1. proc[p] \in Proc
  BY DEF IInv, TypeOK
<1>2. CASE CreateBatch(p)
  <2>1. Leads(p, "acquire")
    BY <1>2, GotoMoves DEF CreateBatch, IInv, Pcs, BatchPcs
  <2>2. p \in BatchProcs /\ batch' # NoBatch /\ proc[p].issue = 1
    BY <1>2, NewBatchValid DEF CreateBatch, At, IInv, IssuesReached, Reached
  <2> QED
    BY <2>1, <2>2, IssueLoopAssumption DEF Follows, Leads
<1>3. CASE AcquireBatch(p)
  <2>1. p \in BatchProcs
    BY <1>3 DEF AcquireBatch, At, IInv, BatchKnown, Procs, BatchPcs
  <2>2. CASE ~BatchLockFree
    BY <1>3, <2>2, EndFollows DEF AcquireBatch
  <2>3. CASE BatchLockFree
    <3>1. Leads(p, "select")
      BY <1>3, <2>3, GotoMoves DEF AcquireBatch, IInv, Pcs, LoopPcs
    <3>2. UNCHANGED batch /\ batch # NoBatch /\ (proc[p].issue = 1 \/ Reached(proc[p].issue))
      BY <1>3, <2>1 DEF AcquireBatch, At, IInv, BatchKnown, IssuesReached
    <3> QED
      BY <2>1, <2>3, <3>1, <3>2, IssueLoopAssumption DEF Follows, Leads, Reached
  <2> QED
    BY <2>2, <2>3
<1>4. CASE ResumeBatch(p)
  <2>1. Leads(p, "resume")
    BY <1>4, GotoMoves DEF ResumeBatch, IInv, Pcs, BatchPcs
  <2>2. /\ p \in BatchProcs /\ BatchLockFree /\ UNCHANGED batch
        /\ batch # NoBatch /\ batch.cursor < N
        /\ proc[p].issue = 1 \/ Reached(proc[p].issue)
    BY <1>4 DEF ResumeBatch, IInv, IssuesReached
  <2> QED
    BY <2>1, <2>2, IssueLoopAssumption DEF Follows, Leads, Reached
<1>5. CASE StartQueue(p)
  <2>1. p \in QueueProcs /\ Leads(p, "select")
    BY <1>5, GotoMoves DEF StartQueue, IInv, Pcs, LoopPcs
  <2> QED
    BY <2>1, IssueLoopAssumption, LeadsFollows DEF BatchPcs
<1>6. CASE Die(p)
  BY <1>6, EndFollows DEF Die
<1> QED
  BY <1>2, <1>3, <1>4, <1>5, <1>6

LEMMA SelectFollows ==
    ASSUME IInv, [Next]_vars, NEW p \in Procs,
           InspectRow(p) \/ SelectInBatch(p) \/ SelectInQueue(p)
    PROVE  Follows(p)
<1>1. proc[p] \in Proc /\ TypeOK /\ (p \in BatchProcs => p \notin QueueProcs)
  BY IssueLoopAssumption DEF IInv, TypeOK
<1>2. CASE InspectRow(p)
  <2> DEFINE i == batch.cursor + 1
  <2>1. p \in BatchProcs /\ Holds(p) /\ UNCHANGED batch
    BY <1>2 DEF InspectRow, At, IInv, BatchKnown, Procs, BatchPcs, Holds
  <2>2. batch # NoBatch /\ batch \in Batches /\ batch.cursor < N
    BY <1>2, <2>1 DEF InspectRow, At, IInv, TypeOK, BatchKnown, CursorHeld
  <2>3. i \in Issues
    BY <2>2, NAssumption DEF Batches, Issues
  <2>4. \/ Goto(p, "select") \/ End(p)
        \/ proc' = [proc EXCEPT ![p].pc = "child", ![p].issue = i]
    BY <1>2 DEF InspectRow
  <2>5. CASE Goto(p, "select")
    BY <1>1, <2>1, <2>5, GotoMoves, LeadsFollows DEF Pcs, LoopPcs
  <2>6. CASE proc' = [proc EXCEPT ![p].pc = "child", ![p].issue = i]
    <3>1. Moves(p) /\ proc'[p].pc = "child" /\ proc'[p].issue = i
      BY <2>3, <2>6 DEF IInv, TypeOK, Moves, Proc, BatchPcs
    <3> QED
      BY <1>1, <2>1, <2>2, <3>1 DEF Follows, Batches
  <2> QED
    BY <2>4, <2>5, <2>6, EndFollows
<1>3. CASE SelectInBatch(p)
  <2> DEFINE i == batch.cursor + 1
  <2>1. p \in BatchProcs /\ Holds(p) /\ UNCHANGED batch
    BY <1>3 DEF SelectInBatch, At, Holds
  <2>2. batch # NoBatch /\ batch \in Batches
    BY <2>1 DEF IInv, TypeOK, BatchKnown, Holds
  <2>3. End(p) \/ (batch.cursor < N /\ Choose(p, i))
    BY <1>3 DEF SelectInBatch
  <2>4. CASE batch.cursor < N /\ Choose(p, i)
    <3>1. i \in Issues
      BY <2>2, <2>4, NAssumption DEF Batches, Issues
    <3> QED
      BY <1>1, <2>1, <2>2, <2>4, <3>1, ChooseMoves DEF Follows, Batches
  <2> QED
    BY <2>3, <2>4, EndFollows
<1>4. CASE SelectInQueue(p)
  <2>1. p \in QueueProcs /\ (End(p) \/ \E i \in Issues : Choose(p, i))
    BY <1>4 DEF SelectInQueue
  <2> QED
    BY <1>1, <2>1, EndFollows, ChooseMoves DEF Follows, BatchPcs
<1> QED
  BY <1>2, <1>3, <1>4

(* Every step of the loop, by the way it moves the process.                *)
LEMMA LoopFollows ==
    ASSUME IInv, [Next]_vars, NEW p \in Procs, LoopStep(p)
    PROVE  Follows(p)
<1>1. /\ TypeOK /\ p \in Procs
      /\ p \in QueueProcs => proc[p].pc \notin BatchPcs /\ p \notin BatchProcs
  BY IssueLoopAssumption DEF IInv, BatchKnown
<1>2. ASSUME NEW pc \in (LoopPcs \cup {"childCleanup", "attach", "advance"}), Goto(p, pc),
             p \in BatchProcs => Holds(p), p \in QueueProcs => pc \notin BatchPcs
      PROVE  Follows(p)
  BY <1>2, GotoMoves, LeadsFollows DEF IInv, Pcs, BatchPcs, LoopPcs
<1>3. p \notin QueueProcs => p \in BatchProcs
  BY DEF Procs
<1>4. CASE AcquireBatch(p) \/ InspectRow(p) \/ SelectInBatch(p) \/ SelectInQueue(p)
  BY <1>4, StartFollows, SelectFollows
<1>5. CASE RecordChild(p) \/ Activate(p) \/ Attach(p) \/ Advance(p)
  <2>1. Holds(p) /\ p \notin QueueProcs
    BY <1>1, <1>5 DEF RecordChild, Activate, Attach, Advance, At, Holds, BatchPcs
  <2>2. End(p) \/ \E pc \in {"childCleanup", "claim", "review", "cleanup"} : Goto(p, pc)
    BY <1>5 DEF RecordChild, Activate, Attach, Advance
  <2> QED
    BY <1>2, <2>1, <2>2, EndFollows DEF LoopPcs
<1>6. CASE AddAssignee(p) \/ VerifyClaim(p) \/ Recheck(p) \/ Rollback(p)
  <2>1. Holds(p)
    BY <1>6 DEF AddAssignee, VerifyClaim, Recheck, Rollback, At, Holds
  <2>2. \/ End(p) \/ GiveUp(p)
        \/ \E pc \in {"verify", "recheck", "unclaim", "work", "unready"} : Goto(p, pc)
        \/ \E pc \in {"unclaim", "unready"} :
             proc' = [proc EXCEPT ![p].pc = pc, ![p].exit = TRUE]
    BY <1>6 DEF AddAssignee, VerifyClaim, Recheck, Rollback
  <2>3. CASE \E pc \in {"verify", "recheck", "unclaim", "work", "unready"} : Goto(p, pc)
    BY <1>2, <2>1, <2>3 DEF LoopPcs, BatchPcs
  <2>4. CASE \E pc \in {"unclaim", "unready"} :
               proc' = [proc EXCEPT ![p].pc = pc, ![p].exit = TRUE]
    BY <1>1, <2>1, <2>4, ExitMoves, LeadsFollows DEF Pcs, LoopPcs, BatchPcs
  <2> QED
    BY <2>2, <2>3, <2>4, EndFollows, GiveUpFollows
<1>7. CASE \/ Work(p) \/ VerifyIssue(p) \/ PushBranch(p) \/ OpenPr(p)
           \/ CreateCheckpoint(p) \/ MarkReady(p) \/ Record(p)
  <2>1. Holds(p)
    BY <1>7 DEF Work, VerifyIssue, PushBranch, OpenPr, CreateCheckpoint, MarkReady, Record,
                Advances, At, Holds
  <2>2. \/ End(p)
        \/ \E pc \in {"verifyIssue", "push", "openPr", "checkpoint", "lock", "record"} :
             Goto(p, pc)
        \/ Goto(p, IF p \in BatchProcs THEN "advance" ELSE "cleanup")
    BY <1>7 DEF Work, VerifyIssue, PushBranch, OpenPr, CreateCheckpoint, MarkReady, Record,
                Advances
  <2>3. CASE \E pc \in {"verifyIssue", "push", "openPr", "checkpoint", "lock", "record"} :
               Goto(p, pc)
    BY <1>2, <2>1, <2>3 DEF LoopPcs, BatchPcs
  <2>4. CASE Goto(p, IF p \in BatchProcs THEN "advance" ELSE "cleanup")
    BY <1>1, <1>2, <2>1, <2>4 DEF LoopPcs, BatchPcs
  <2> QED
    BY <2>2, <2>3, <2>4, EndFollows
<1>8. CASE AcquireRun(p)
  <2> DEFINE pc == IF p \in BatchProcs THEN "attach" ELSE "review"
  <2>1. Holds(p)
    BY <1>8 DEF AcquireRun, At, Holds
  <2>2. CASE End(p)
    BY <2>2, EndFollows
  <2>3. CASE proc' = [proc EXCEPT ![p].pc = pc, ![p].locked = @ \cup {proc[p].issue}]
    <3>1. pc \in Pcs /\ pc \notin {"idle", "acquire", "resume"}
          /\ (p \in QueueProcs => pc \notin BatchPcs)
      BY <1>1 DEF Pcs, BatchPcs, LoopPcs
    <3> QED
      BY <1>1, <2>1, <2>3, <3>1, LockMoves, LeadsFollows
  <2> QED
    BY <1>8, <2>2, <2>3 DEF AcquireRun
<1>9. CASE Cleanup(p)
  BY <1>9, NextIssueFollows DEF Cleanup, At, Holds
<1> QED
  BY <1>4, <1>5, <1>6, <1>7, <1>8, <1>9 DEF LoopStep

(* What a step does to the processes.  The exit of a review ends the wait  *)
(* of a batch, and nothing else is done to two processes at once.          *)
Settles ==
    proc' \in [Procs -> Proc] /\ \A p \in Procs :
        \/ proc'[p] = proc[p]
        \/ /\ p \in BatchProcs /\ proc[p].pc = "child"
           /\ \/ proc'[p].pc = "childDone" /\ proc'[p].issue = proc[p].issue
              \/ proc'[p].pc = "idle" /\ proc'[p].issue = 1

LEMMA ExitSettles ==
    ASSUME TypeOK, NEW o \in Owners, NEW i \in Issues, NEW ok, Exit(o, i, ok)
    PROVE  Settles
<1> DEFINE waits(p) == p \in BatchProcs /\ review[o][i].parent /\ At(p, "child")
                         /\ proc[p].issue = i
           next(p) == IF waits(p)
                        THEN IF ok THEN [proc[p] EXCEPT !.pc = "childDone"] ELSE Ended(p)
                        ELSE proc[p]
<1>1. proc' = [p \in Procs |-> next(p)]
  BY DEF Exit
<1>2. ASSUME NEW p \in Procs
      PROVE  /\ next(p) \in Proc
             /\ \/ next(p) = proc[p]
                \/ /\ p \in BatchProcs /\ proc[p].pc = "child"
                   /\ \/ next(p).pc = "childDone" /\ next(p).issue = proc[p].issue
                      \/ next(p).pc = "idle" /\ next(p).issue = 1
  <2>1. proc[p] \in Proc
    BY DEF TypeOK
  <2>2. [proc[p] EXCEPT !.pc = "childDone"] \in Proc
    BY <2>1 DEF Proc, BatchPcs
  <2>3. Ended(p) \in Proc
    BY FirstIssue DEF Ended, NewProc, Proc
  <2> QED
    BY <2>1, <2>2, <2>3 DEF At, Ended, NewProc, Proc
<1> HIDE DEF next
<1> QED
  BY <1>1, <1>2 DEF Settles

LEMMA ProcSteps ==
    ASSUME IInv, [Next]_vars
    PROVE  \/ \E p \in Procs : Follows(p)
           \/ UNCHANGED batch /\ Settles
           \/ UNCHANGED proc
<1>1. ASSUME NEW p \in Procs,
             CreateBatch(p) \/ ResumeBatch(p) \/ StartQueue(p) \/ LoopStep(p) \/ Die(p)
      PROVE  Follows(p)
  BY <1>1, StartFollows, LoopFollows
<1>2. ASSUME NEW o \in Owners, NEW i \in Issues,
             ResumeRun(o, i) \/ ReviewStep(o, i) \/ ReviewDies(o, i)
      PROVE  UNCHANGED proc \/ (UNCHANGED batch /\ Settles)
  <2>1. UNCHANGED batch /\ (UNCHANGED proc \/ \E ok \in BOOLEAN : Exit(o, i, ok))
    BY <1>2 DEF ResumeRun, ReviewStep, ReviewDies, ResumeStart, ResumeReady, ResumeRecord,
                ResumeCleanup, ReviewGoto
  <2> QED
    BY <2>1, ExitSettles DEF IInv
<1>3. ASSUME NEW i \in Issues,
             \/ \E e \in {"pending", "active"} : Bail(i, e)
             \/ ChangeIssue(i) \/ ChangeAssignee(i)
      PROVE  UNCHANGED proc
  BY <1>3 DEF Bail, ChangeIssue, ChangeAssignee
<1> QED
  BY <1>1, <1>2, <1>3 DEF Next, vars

-----------------------------------------------------------------------------
(* The steps preserve the invariant.                                       *)

(* Nobody writes the batch while its holder does something else.           *)
LEMMA BatchStays ==
    ASSUME IInv, [Next]_vars, NEW q \in BatchProcs, Holds(q),
           proc[q].pc \notin {"childDone", "activate", "attach", "advance"}
    PROVE  UNCHANGED batch
<1>1. batch # NoBatch /\ ~BatchLockFree
  BY DEF IInv, BatchKnown, Holds, BatchLockFree
<1>2. ASSUME NEW p \in Procs, CreateBatch(p) \/ Writes(p) PROVE FALSE
  <2>1. Writes(p)
    BY <1>1, <1>2 DEF CreateBatch
  <2>2. p \in BatchProcs
    BY <2>1 DEF Writes, RecordChild, Activate, Attach, Advance, At, IInv, BatchKnown, Procs,
                BatchPcs
  <2>3. Holds(p) /\ p # q
    BY <2>1 DEF Writes, RecordChild, Activate, Attach, Advance, At, Holds
  <2> QED
    BY <2>2, <2>3 DEF IInv, OneHolder
<1>3. ASSUME NEW i \in Issues, NEW e \in {"pending", "active"}, Bail(i, e) PROVE FALSE
  BY <1>1, <1>3 DEF Bail
<1> QED
  BY <1>2, <1>3, Writers

(* What every process has reached stays reached.                           *)
LEMMA ReachedStays ==
    ASSUME IInv, [Next]_vars, NEW i \in Issues, Reached(i)
    PROVE  Reached(i)'
  BY BatchSteps DEF IInv, TypeOK, Batches, Reached, Issues

ControlOK ==
    /\ proc \in [Procs -> Proc]
    /\ BatchKnown /\ OneHolder /\ CursorHeld
    /\ \A p \in BatchProcs : proc[p].issue = 1 \/ Reached(proc[p].issue)

LEMMA ControlKept == ASSUME IInv, [Next]_vars PROVE ControlOK'
<1>1. /\ proc \in [Procs -> Proc]
      /\ BatchProcs \subseteq Procs /\ QueueProcs \subseteq Procs
      /\ BatchProcs \cap QueueProcs = {}
  BY IssueLoopAssumption DEF IInv, TypeOK, Procs
<1>2. \A p \in BatchProcs : proc[p].pc # "idle" => batch' # NoBatch
  BY BatchSteps DEF IInv, BatchKnown
<1>3. \A p \in BatchProcs : proc[p].pc = "resume" => batch'.cursor < N
  BY BatchStays DEF IInv, CursorHeld, Holds
<1>4. \A p \in BatchProcs :
        proc[p].issue = 1 \/ (batch' # NoBatch /\ proc[p].issue <= batch'.cursor + 1)
  BY <1>1, ReachedStays DEF IInv, IssuesReached, Reached, Proc
<1>5. \A p \in QueueProcs : proc[p].pc \notin BatchPcs
  BY DEF IInv, BatchKnown
<1>6. CASE \E p \in Procs : Follows(p)
  <2> PICK p \in Procs : Follows(p)
    BY <1>6
  <2>1. /\ proc' = [proc EXCEPT ![p] = proc'[p]] /\ proc'[p] \in Proc
        /\ \A q \in Procs \ {p} : proc'[q] = proc[q]
    BY <1>1 DEF Follows, Moves
  <2>2. proc' \in [Procs -> Proc]
    BY <1>1, <2>1
  <2>3. BatchKnown'
    BY <1>1, <1>2, <1>5, <2>1 DEF BatchKnown, Follows
  <2>4. OneHolder'
    <3> SUFFICES ASSUME NEW q \in BatchProcs, NEW r \in BatchProcs, Holds(q)', Holds(r)', q # r
                 PROVE  FALSE
      BY DEF OneHolder
    <3>1. BatchLockFree => ~Holds(q) /\ ~Holds(r)
      BY DEF BatchLockFree, Holds
    <3>2. ~(Holds(q) /\ Holds(r))
      BY DEF IInv, OneHolder
    <3>3. \A s \in BatchProcs \ {p} : Holds(s)' => Holds(s)
      BY <1>1, <2>1 DEF Holds
    <3>4. p \in BatchProcs /\ Holds(p)' => Holds(p) \/ BatchLockFree
      BY DEF Holds, Follows
    <3> QED
      BY <3>1, <3>2, <3>3, <3>4
  <2>5. CursorHeld'
    BY <1>1, <1>3, <2>1 DEF CursorHeld, Follows
  <2>6. (\A q \in BatchProcs : proc[q].issue = 1 \/ Reached(proc[q].issue))'
    <3> SUFFICES ASSUME NEW q \in BatchProcs
                 PROVE  \/ proc'[q].issue = 1
                        \/ batch' # NoBatch /\ proc'[q].issue <= batch'.cursor + 1
      BY DEF Reached
    <3>1. CASE q # p
      BY <1>1, <1>4, <2>1, <3>1
    <3>2. CASE q = p
      BY <3>2 DEF Follows
    <3> QED
      BY <3>1, <3>2
  <2> QED
    BY <2>2, <2>3, <2>4, <2>5, <2>6 DEF ControlOK
<1>7. CASE UNCHANGED batch /\ Settles
  <2>1. proc' \in [Procs -> Proc]
    BY <1>7 DEF Settles
  <2>2. \A p \in BatchProcs : Holds(p)' => Holds(p)
    BY <1>1, <1>7 DEF Settles, Holds
  <2>3. OneHolder'
    BY <2>2 DEF IInv, OneHolder
  <2>4. BatchKnown' /\ CursorHeld'
    BY <1>1, <1>2, <1>3, <1>5, <1>7 DEF Settles, BatchKnown, CursorHeld
  <2>5. (\A q \in BatchProcs : proc[q].issue = 1 \/ Reached(proc[q].issue))'
    BY <1>1, <1>4, <1>7 DEF Settles, Reached
  <2> QED
    BY <2>1, <2>3, <2>4, <2>5 DEF ControlOK
<1>8. CASE UNCHANGED proc
  BY <1>1, <1>2, <1>3, <1>4, <1>5, <1>8
     DEF ControlOK, BatchKnown, OneHolder, Holds, CursorHeld, Reached, IInv
<1> QED
  BY <1>6, <1>7, <1>8, ProcSteps

(* Where a worktree, a PR or a checkpoint comes from.                      *)
RunWrite ==
    \E o \in Owners, i \in Issues : \E r \in Run :
        Change(o, i, r) /\ (o = Batch => Reached(i))

LEMMA RunSteps == ASSUME IInv, [Next]_vars PROVE UNCHANGED runs \/ RunWrite
<1>1. ASSUME NEW p \in Procs, NEW r \in Run, proc[p].pc # "idle",
             Change(Owner(p), proc[p].issue, r)
      PROVE  RunWrite
  <2>1. p \in BatchProcs => batch # NoBatch /\ (proc[p].issue = 1 \/ Reached(proc[p].issue))
    BY <1>1 DEF IInv, BatchKnown, IssuesReached
  <2>2. proc[p].issue \in Issues /\ (batch # NoBatch => batch \in Batches)
    BY DEF IInv, TypeOK, Proc
  <2>3. Owner(p) = Batch => Reached(proc[p].issue)
    BY <2>1, <2>2, OwnerType DEF Reached, Batches
  <2> QED
    BY <1>1, <2>2, <2>3, OwnerType DEF RunWrite
<1>2. ASSUME NEW p \in Procs
      PROVE  RunOf(p) \in Run
  BY OwnerType DEF IInv, TypeOK, RunOf, Proc
<1>3. ASSUME NEW p \in Procs, NEW run \in Run, NEW from, from # "idle", NEW to,
             Advances(p, from, run, to)
      PROVE  RunWrite
  BY <1>1, <1>3 DEF Advances, At
<1>4. ASSUME NEW p \in Procs,
             Work(p) \/ PushBranch(p) \/ OpenPr(p) \/ CreateCheckpoint(p) \/ Record(p)
      PROVE  RunWrite
  <2>1. /\ [RunOf(p) EXCEPT !.worktree = TRUE] \in Run
        /\ [RunOf(p) EXCEPT !.pr = "branch"] \in Run
        /\ [RunOf(p) EXCEPT !.pr = "draft"] \in Run
        /\ [RunOf(p) EXCEPT !.child = "open"] \in Run
        /\ [RunOf(p) EXCEPT !.child = "finalized"] \in Run
    BY <1>2 DEF Run
  <2> QED
    BY <1>3, <1>4, <2>1 DEF Work, PushBranch, OpenPr, CreateCheckpoint, Record
<1>5. ASSUME NEW p \in Procs, MarkReady(p) PROVE UNCHANGED runs \/ RunWrite
  <2>1. [RunOf(p) EXCEPT !.pr = "ready"] \in Run
    BY <1>2 DEF Run
  <2> QED
    BY <1>1, <1>5, <2>1 DEF MarkReady, At
<1>6. ASSUME NEW p \in Procs, Cleanup(p) PROVE RunWrite
  <2>1. ASSUME NEW left \in BOOLEAN
        PROVE  [RunOf(p) EXCEPT !.worktree = @ /\ left] \in Run
    <3> DEFINE kept == RunOf(p).worktree /\ left
    <3>1. kept \in BOOLEAN
      OBVIOUS
    <3> HIDE DEF kept
    <3>2. [RunOf(p) EXCEPT !.worktree = kept] \in Run
      BY <1>2, <3>1 DEF Run
    <3> QED
      BY <3>2 DEF kept
  <2> QED
    BY <1>1, <1>6, <2>1 DEF Cleanup, At
<1>7. ASSUME NEW o \in Owners, NEW i \in Issues,
             ResumeReady(o, i) \/ ResumeRecord(o, i) \/ ResumeCleanup(o, i)
      PROVE  RunWrite
  <2>1. o = Batch => Reached(i)
    <3>1. review[o][i].pc # "none"
      BY <1>7 DEF ResumeReady, ResumeRecord, ResumeCleanup, Reviewing
    <3> QED
      BY <3>1 DEF NoReview, IInv, IssuesReached
  <2>2. runs[o][i] \in Run
    BY DEF IInv, TypeOK
  <2>3. /\ [runs[o][i] EXCEPT !.pr = "ready"] \in Run
        /\ [runs[o][i] EXCEPT !.pr = "draft"] \in Run
        /\ [runs[o][i] EXCEPT !.child = "finalized"] \in Run
    BY <2>2 DEF Run
  <2>4. [runs[o][i] EXCEPT !.worktree = @ /\ review[o][i].parent] \in Run
    <3> DEFINE kept == runs[o][i].worktree /\ review[o][i].parent
    <3>1. kept \in BOOLEAN
      OBVIOUS
    <3> HIDE DEF kept
    <3>2. [runs[o][i] EXCEPT !.worktree = kept] \in Run
      BY <2>2, <3>1 DEF Run
    <3> QED
      BY <3>2 DEF kept
  <2> QED
    BY <1>7, <2>1, <2>3, <2>4 DEF ResumeReady, ResumeRecord, ResumeCleanup, RunWrite
<1>8. ASSUME NEW p \in Procs,
             \/ CreateBatch(p) \/ ResumeBatch(p) \/ StartQueue(p) \/ Die(p) \/ AcquireBatch(p)
             \/ InspectRow(p) \/ RecordChild(p) \/ SelectInBatch(p) \/ SelectInQueue(p)
             \/ Activate(p) \/ AddAssignee(p) \/ VerifyClaim(p) \/ Recheck(p) \/ Rollback(p)
             \/ VerifyIssue(p) \/ AcquireRun(p) \/ Attach(p) \/ Advance(p)
      PROVE  UNCHANGED runs
  BY <1>8 DEF CreateBatch, ResumeBatch, StartQueue, Die, AcquireBatch, InspectRow,
              RecordChild, SelectInBatch, SelectInQueue, Activate, AddAssignee,
              VerifyClaim, Recheck, Rollback, VerifyIssue, AcquireRun, Attach, Advance
<1>9. ASSUME NEW o \in Owners, NEW i \in Issues,
             ResumeRun(o, i) \/ ResumeStart(o, i) \/ ReviewDies(o, i)
      PROVE  UNCHANGED runs
  BY <1>9 DEF ResumeRun, ResumeStart, ReviewDies
<1>10. ASSUME NEW i \in Issues,
              \/ \E e \in {"pending", "active"} : Bail(i, e)
              \/ ChangeIssue(i) \/ ChangeAssignee(i)
       PROVE  UNCHANGED runs
  BY <1>10 DEF Bail, ChangeIssue, ChangeAssignee
<1> QED
  BY <1>4, <1>5, <1>6, <1>7, <1>8, <1>9, <1>10 DEF Next, LoopStep, ReviewStep, vars

(* Where a review process comes from, and where it goes.                   *)
ReviewWrite ==
    \E o \in Owners, i \in Issues : \E r \in Review :
        review' = [review EXCEPT ![o][i] = r] /\ (o = Batch /\ r # NoReview => Reached(i))

LEMMA ReviewSteps == ASSUME IInv, [Next]_vars PROVE UNCHANGED review \/ ReviewWrite
<1>1. ASSUME NEW p \in Procs, InspectRow(p) PROVE UNCHANGED review \/ ReviewWrite
  <2> DEFINE i == batch.cursor + 1
             r == [pc |-> "start", parent |-> TRUE]
  <2>1. p \in BatchProcs
    BY <1>1 DEF InspectRow, At, IInv, BatchKnown, Procs, BatchPcs
  <2>2. batch # NoBatch /\ batch \in Batches /\ batch.cursor < N
    BY <1>1, <2>1 DEF InspectRow, At, IInv, TypeOK, BatchKnown, CursorHeld
  <2>3. i \in Issues /\ Reached(i) /\ r \in Review /\ Batch \in Owners
    BY <2>2, NAssumption DEF Batches, Issues, Reached, Review, Owners
  <2> QED
    BY <1>1, <2>3 DEF InspectRow, ReviewWrite
<1>2. ASSUME NEW o \in Owners, NEW i \in Issues, ResumeRun(o, i) PROVE ReviewWrite
  <2>1. o = Batch => Reached(i)
    BY <1>2 DEF ResumeRun, NoRun, IInv, IssuesReached
  <2>2. [pc |-> "start", parent |-> FALSE] \in Review
    BY DEF Review
  <2> QED
    BY <1>2, <2>1, <2>2 DEF ResumeRun, ReviewWrite
<1>3. ASSUME NEW o \in Owners, NEW i \in Issues, ReviewStep(o, i) \/ ReviewDies(o, i)
      PROVE  ReviewWrite
  <2>1. o = Batch => Reached(i)
    <3>1. review[o][i].pc # "none"
      BY <1>3 DEF ReviewStep, ReviewDies, ResumeStart, ResumeReady, ResumeRecord,
                  ResumeCleanup, Reviewing
    <3> QED
      BY <3>1 DEF NoReview, IInv, IssuesReached
  <2>2. \/ \E pc \in {"review", "record", "cleanup"} :
             review' = [review EXCEPT ![o][i].pc = pc]
        \/ review' = [review EXCEPT ![o][i] = NoReview]
    BY <1>3 DEF ReviewStep, ReviewDies, ResumeStart, ResumeReady, ResumeRecord,
                ResumeCleanup, ReviewGoto, Exit
  <2>3. review \in [Owners -> [Issues -> Review]] /\ review[o][i] \in Review
    BY DEF IInv, TypeOK
  <2>4. ASSUME NEW pc \in {"review", "record", "cleanup"},
               review' = [review EXCEPT ![o][i].pc = pc]
        PROVE  ReviewWrite
    <3>1. [review[o][i] EXCEPT !.pc = pc] \in Review
      BY <2>3 DEF Review
    <3>2. review' = [review EXCEPT ![o][i] = [review[o][i] EXCEPT !.pc = pc]]
      BY <2>3, <2>4
    <3> QED
      BY <2>1, <3>1, <3>2 DEF ReviewWrite
  <2>5. NoReview \in Review
    BY DEF NoReview, Review
  <2> QED
    BY <2>1, <2>2, <2>4, <2>5 DEF ReviewWrite
<1>4. ASSUME NEW p \in Procs,
             \/ CreateBatch(p) \/ ResumeBatch(p) \/ StartQueue(p) \/ Die(p)
             \/ LoopStep(p) /\ ~InspectRow(p)
      PROVE  UNCHANGED review
  BY <1>4 DEF CreateBatch, ResumeBatch, StartQueue, Die, LoopStep, AcquireBatch,
              RecordChild, SelectInBatch, SelectInQueue, Activate, AddAssignee,
              VerifyClaim, Recheck, Rollback, Advances, Work, VerifyIssue, PushBranch,
              OpenPr, CreateCheckpoint, AcquireRun, Attach, MarkReady, Record, Advance,
              Cleanup
<1>5. ASSUME NEW i \in Issues,
             \/ \E e \in {"pending", "active"} : Bail(i, e)
             \/ ChangeIssue(i) \/ ChangeAssignee(i)
      PROVE  UNCHANGED review
  BY <1>5 DEF Bail, ChangeIssue, ChangeAssignee
<1> QED
  BY <1>1, <1>2, <1>3, <1>4, <1>5 DEF Next, vars

(* The bail commands that are printed are about issues of the batch.       *)
LEMMA OfferSteps ==
    ASSUME IInv, [Next]_vars
    PROVE  offers' \subseteq Issues \X {"pending", "active"}
<1>1. offers \subseteq Issues \X {"pending", "active"}
  BY DEF IInv, TypeOK
<1>2. ASSUME NEW i \in Issues, NEW e \in {"pending", "active"}, PrintBail(i, e)
      PROVE  offers' \subseteq Issues \X {"pending", "active"}
  BY <1>1, <1>2 DEF PrintBail
<1>3. ASSUME NEW p \in Procs, InspectRow(p) \/ SelectInBatch(p), offers' # offers
      PROVE  \E i \in Issues, e \in {"pending", "active"} : PrintBail(i, e)
  <2>1. p \in BatchProcs /\ proc[p].pc # "idle"
    BY <1>3 DEF InspectRow, SelectInBatch, At, IInv, BatchKnown, Procs, BatchPcs
  <2>2. batch # NoBatch /\ batch \in Batches
    BY <2>1 DEF IInv, TypeOK, BatchKnown
  <2>3. batch.cursor < N
    BY <1>3, <2>1 DEF InspectRow, SelectInBatch, At, IInv, CursorHeld
  <2>4. batch.cursor + 1 \in Issues
    BY <2>2, <2>3, NAssumption DEF Batches, Issues
  <2> QED
    BY <1>3, <2>4 DEF InspectRow, SelectInBatch
<1>4. ASSUME NEW p \in Procs, Rollback(p), offers' # offers
      PROVE  \E i \in Issues, e \in {"pending", "active"} : PrintBail(i, e)
  BY <1>4 DEF Rollback, IInv, TypeOK, Proc
<1>5. ASSUME NEW p \in Procs,
             \/ CreateBatch(p) \/ ResumeBatch(p) \/ StartQueue(p) \/ Die(p)
             \/ LoopStep(p) /\ ~InspectRow(p) /\ ~SelectInBatch(p) /\ ~Rollback(p)
      PROVE  UNCHANGED offers
  BY <1>5 DEF CreateBatch, ResumeBatch, StartQueue, Die, LoopStep, AcquireBatch,
              RecordChild, SelectInQueue, Activate, AddAssignee,
              VerifyClaim, Recheck, Advances, Work, VerifyIssue, PushBranch,
              OpenPr, CreateCheckpoint, AcquireRun, Attach, MarkReady, Record, Advance,
              Cleanup
<1>6. ASSUME NEW o \in Owners, NEW i \in Issues,
             ResumeRun(o, i) \/ ReviewStep(o, i) \/ ReviewDies(o, i)
      PROVE  UNCHANGED offers
  BY <1>6 DEF ResumeRun, ReviewStep, ReviewDies, ResumeStart, ResumeReady, ResumeRecord,
              ResumeCleanup
<1>7. ASSUME NEW i \in Issues,
             \/ \E e \in {"pending", "active"} : Bail(i, e)
             \/ ChangeIssue(i) \/ ChangeAssignee(i)
      PROVE  UNCHANGED offers
  BY <1>7 DEF Bail, ChangeIssue, ChangeAssignee
<1> QED
  BY <1>1, <1>2, <1>3, <1>4, <1>5, <1>6, <1>7 DEF Next, vars

(* What is on GitHub, and the count of disturbances.                       *)
LEMMA HostSteps ==
    ASSUME IInv, [Next]_vars
    PROVE  /\ assignees' \in [Issues -> SUBSET (Logins \cup {Human})]
           /\ eligible' \in [Issues -> BOOLEAN]
           /\ faults' \in Nat
<1> DEFINE A == [Issues -> SUBSET (Logins \cup {Human})]
           HostOK == assignees' \in A /\ eligible' \in [Issues -> BOOLEAN] /\ faults' \in Nat
<1>1. assignees \in A /\ eligible \in [Issues -> BOOLEAN] /\ faults \in Nat
  BY DEF IInv, TypeOK
<1>2. ASSUME NEW p \in Procs, AddAssignee(p) \/ Rollback(p) PROVE HostOK
  <2>1. proc[p].issue \in Issues /\ Login[Owner(p)] \in Logins
    BY OwnerType DEF IInv, TypeOK, Proc
  <2>2. [assignees EXCEPT ![proc[p].issue] = @ \cup {Login[Owner(p)]}] \in A
    BY <1>1, <2>1
  <2>3. [assignees EXCEPT ![proc[p].issue] = @ \ {Login[Owner(p)]}] \in A
    BY <1>1, <2>1
  <2>4. UNCHANGED <<eligible, faults>>
    BY <1>2 DEF AddAssignee, Rollback
  <2>5. \/ assignees' = assignees
        \/ assignees' = [assignees EXCEPT ![proc[p].issue] = @ \cup {Login[Owner(p)]}]
        \/ assignees' = [assignees EXCEPT ![proc[p].issue] = @ \ {Login[Owner(p)]}]
    BY <1>2 DEF AddAssignee, Rollback
  <2> QED
    BY <1>1, <2>2, <2>3, <2>4, <2>5
<1>3. ASSUME NEW p \in Procs,
             \/ CreateBatch(p) \/ ResumeBatch(p) \/ StartQueue(p)
             \/ LoopStep(p) /\ ~AddAssignee(p) /\ ~Rollback(p)
      PROVE  UNCHANGED <<assignees, eligible, faults>>
  BY <1>3 DEF CreateBatch, ResumeBatch, StartQueue, LoopStep, AcquireBatch, InspectRow,
              RecordChild, SelectInBatch, SelectInQueue, Activate, VerifyClaim, Recheck,
              Advances, Work, VerifyIssue, PushBranch, OpenPr, CreateCheckpoint,
              AcquireRun, Attach, MarkReady, Record, Advance, Cleanup, hostVars
<1>4. ASSUME NEW o \in Owners, NEW i \in Issues, ResumeRun(o, i) \/ ReviewStep(o, i)
      PROVE  UNCHANGED <<assignees, eligible, faults>>
  BY <1>4 DEF ResumeRun, ReviewStep, ResumeStart, ResumeReady, ResumeRecord,
              ResumeCleanup, hostVars
<1>5. ASSUME NEW p \in Procs, Die(p) PROVE HostOK
  BY <1>1, <1>5 DEF Die, hostVars
<1>6. ASSUME NEW o \in Owners, NEW i \in Issues, ReviewDies(o, i) PROVE HostOK
  BY <1>1, <1>6 DEF ReviewDies, hostVars
<1>7. ASSUME NEW i \in Issues, NEW e \in {"pending", "active"}, Bail(i, e)
      PROVE  UNCHANGED <<assignees, eligible, faults>>
  BY <1>7 DEF Bail, hostVars
<1>8. ASSUME NEW i \in Issues, ChangeIssue(i) PROVE HostOK
  BY <1>1, <1>8 DEF ChangeIssue
<1>9. ASSUME NEW i \in Issues, ChangeAssignee(i) PROVE HostOK
  <2>1. UNCHANGED eligible /\ faults' \in Nat
    BY <1>1, <1>9 DEF ChangeAssignee
  <2>2. \/ \E l \in Logins \cup {Human} : assignees' = [assignees EXCEPT ![i] = @ \cup {l}]
        \/ \E l \in assignees[i] : assignees' = [assignees EXCEPT ![i] = @ \ {l}]
    BY <1>9 DEF ChangeAssignee
  <2>3. assignees' \in A
    BY <1>1, <2>2
  <2> QED
    BY <1>1, <2>1, <2>3
<1> QED
  BY <1>1, <1>2, <1>3, <1>4, <1>5, <1>6, <1>7, <1>8, <1>9 DEF Next, vars, hostVars

LEMMA InitInv == Init => IInv
<1> SUFFICES ASSUME Init PROVE IInv
  OBVIOUS
<1>1. NewProc("idle") \in Proc
  BY FirstIssue DEF NewProc, Proc
<1>2. NoRun \in Run /\ NoReview \in Review
  BY DEF NoRun, Run, NoReview, Review
<1>3. TypeOK
  BY <1>1, <1>2 DEF Init, TypeOK
<1>4. \A p \in Procs : proc[p].pc = "idle" /\ proc[p].issue = 1
  BY DEF Init, NewProc
<1>5. BatchKnown /\ OneHolder /\ CursorHeld
  BY <1>4 DEF BatchKnown, OneHolder, Holds, CursorHeld, Procs, BatchPcs
<1>6. IssuesReached
  BY <1>4 DEF Init, IssuesReached, Procs, Owners
<1> QED
  BY <1>3, <1>5, <1>6 DEF IInv

LEMMA NextInv == IInv /\ [Next]_vars => IInv'
<1> SUFFICES ASSUME IInv, [Next]_vars PROVE IInv'
  OBVIOUS
<1>1. /\ runs \in [Owners -> [Issues -> Run]]
      /\ review \in [Owners -> [Issues -> Review]]
      /\ Batch \in Owners
  BY DEF IInv, TypeOK, Owners
<1>2. runs' \in [Owners -> [Issues -> Run]]
  <2>1. ASSUME NEW o \in Owners, NEW i \in Issues, NEW r \in Run,
               runs' = [runs EXCEPT ![o][i] = r]
        PROVE  runs' \in [Owners -> [Issues -> Run]]
    BY <1>1, <2>1
  <2> QED
    BY <1>1, <2>1, RunSteps DEF RunWrite, Change
<1>3. review' \in [Owners -> [Issues -> Review]]
  <2>1. ASSUME NEW o \in Owners, NEW i \in Issues, NEW r \in Review,
               review' = [review EXCEPT ![o][i] = r]
        PROVE  review' \in [Owners -> [Issues -> Review]]
    BY <1>1, <2>1
  <2> QED
    BY <1>1, <2>1, ReviewSteps DEF ReviewWrite
<1>4. TypeOK'
  BY <1>2, <1>3, BatchSteps, ControlKept, OfferSteps, HostSteps DEF TypeOK, ControlOK
<1>5. ASSUME NEW i \in Issues, runs'[Batch][i] # NoRun PROVE Reached(i)'
  <2>1. Reached(i)
    BY <1>1, <1>5, RunSteps DEF RunWrite, Change, IInv, IssuesReached
  <2> QED
    BY <2>1, ReachedStays
<1>6. ASSUME NEW i \in Issues, review'[Batch][i] # NoReview PROVE Reached(i)'
  <2>1. Reached(i)
    BY <1>1, <1>6, ReviewSteps DEF ReviewWrite, IInv, IssuesReached
  <2> QED
    BY <2>1, ReachedStays
<1>7. IssuesReached'
  BY <1>5, <1>6, ControlKept DEF IssuesReached, ControlOK
<1> QED
  BY <1>4, <1>7, ControlKept DEF IInv, ControlOK

-----------------------------------------------------------------------------
(* The invariant from which the others follow.                             *)
THEOREM LoopInvariance == Spec => []IInv
  BY InitInv, NextInv, PTL DEF Spec

(* Every process, run and review stays in its type, and the validator of   *)
(* batch-state.json refuses no write of any loop, whatever is interrupted. *)
THEOREM LoopTypeCorrect == Spec => []TypeOK
<1>1. IInv => TypeOK
  BY DEF IInv
<1> QED
  BY <1>1, LoopInvariance, PTL

(* The batch leaves no trace of an issue before every earlier one is       *)
(* finalized or bailed, for batches of any length.                         *)
THEOREM BatchInOrder == Spec => []InOrder
<1>1. IInv => InOrder
  <2> SUFFICES ASSUME IInv, NEW i \in Issues, runs[Batch][i] # NoRun
               PROVE  /\ batch # NoBatch
                      /\ \A j \in 1..(i - 1) : batch.rows[j].status \in SettledStatuses
    BY DEF InOrder
  <2>1. batch # NoBatch /\ i <= batch.cursor + 1
    BY DEF IInv, IssuesReached, Reached
  <2>2. batch \in Batches /\ ValidBatch(batch)
    BY <2>1 DEF IInv, TypeOK
  <2>3. ASSUME NEW j \in 1..(i - 1) PROVE j \in Issues /\ j <= batch.cursor
    BY <2>1, <2>2, NAssumption DEF Batches, Issues
  <2> QED
    BY <2>1, <2>2, <2>3 DEF ValidBatch
<1> QED
  BY <1>1, LoopInvariance, PTL

-----------------------------------------------------------------------------
(* Bail commands that are run late.                                        *)

(* The issue is the one at the cursor, and has no child yet.               *)
AtRow(i, status) ==
    /\ batch # NoBatch /\ i = batch.cursor + 1
    /\ batch.rows[i].status = status /\ ~batch.rows[i].child

ClaimPcs == {"claim", "verify", "recheck", "unclaim", "unready"}
QuietPcs == {"idle", "acquire", "select", "resume"}

(* Only an issue with its review has a child.                              *)
ChildRows ==
    batch # NoBatch => \A i \in Issues :
        batch.rows[i].child => batch.rows[i].status \in {"active", "finalized"}

(* An issue that the batch is claiming is active at the cursor.            *)
ClaimedRows ==
    \A p \in BatchProcs : proc[p].pc \in ClaimPcs => AtRow(proc[p].issue, "active")

(* After a bail command for an active issue was printed, the issue is      *)
(* never worked on again: it waits for the operator, or is settled.        *)
OffersQuiet ==
    \A i \in Issues : <<i, "active">> \in offers =>
        /\ batch # NoBatch
        /\ \/ i <= batch.cursor
           \/ AtRow(i, "active") /\ \A p \in BatchProcs : proc[p].pc \in QuietPcs

BailInv == ChildRows /\ ClaimedRows /\ OffersQuiet

LEMMA WritesRow ==
    ASSUME IInv, NEW p \in Procs, Writes(p)
    PROVE  /\ p \in BatchProcs /\ Holds(p) /\ proc[p].pc \notin ClaimPcs \cup QuietPcs
           /\ batch # NoBatch /\ batch \in Batches
           /\ \/ UNCHANGED batch
              \/ \E s \in {"active", "finalized"}, a \in BOOLEAN :
                   batch' = UpdateBatch(batch, proc[p].issue, s, a)
<1>1. p \in BatchProcs /\ Holds(p) /\ proc[p].pc \notin ClaimPcs \cup QuietPcs
  BY DEF Writes, RecordChild, Activate, Attach, Advance, At, IInv, BatchKnown, Procs,
         BatchPcs, Holds, ClaimPcs, QuietPcs
<1>2. batch # NoBatch /\ batch \in Batches
  BY <1>1 DEF IInv, TypeOK, BatchKnown, Holds
<1> QED
  BY <1>1, <1>2 DEF Writes, RecordChild, Activate, Attach, Advance

LEMMA BailRow ==
    ASSUME IInv, BailInv, NEW i \in Issues, NEW e \in {"pending", "active"}, Bail(i, e)
    PROVE  /\ batch # NoBatch /\ batch \in Batches
           /\ i = batch.cursor + 1 /\ ~batch.rows[i].child
           /\ batch' = UpdateBatch(batch, i, "bailed", FALSE)
<1>1. /\ batch # NoBatch /\ batch \in Batches
      /\ i = batch.cursor + 1 /\ batch.rows[i].status = e
      /\ <<i, e>> \in offers
      /\ batch' = UpdateBatch(batch, i, "bailed", FALSE)
  BY DEF Bail, CanUpdate, AtCursor, IInv, TypeOK
<1>2. CASE e = "pending"
  BY <1>1, <1>2 DEF BailInv, ChildRows
<1>3. CASE e = "active"
  BY <1>1, <1>3 DEF BailInv, OffersQuiet, AtRow, Batches
<1> QED
  BY <1>1, <1>2, <1>3

LEMMA ChildRowsKept == ASSUME IInv, BailInv, [Next]_vars PROVE ChildRows'
<1> SUFFICES ASSUME batch' # NoBatch, NEW j \in Issues, batch'.rows[j].child
             PROVE  batch'.rows[j].status \in {"active", "finalized"}
  BY DEF ChildRows
<1>1. CASE UNCHANGED batch
  BY <1>1 DEF BailInv, ChildRows
<1>2. CASE \E p \in Procs : CreateBatch(p)
  BY <1>2 DEF CreateBatch, NewBatch
<1>3. ASSUME NEW p \in Procs, Writes(p), batch' # batch
      PROVE  batch'.rows[j].status \in {"active", "finalized"}
  <2>1. PICK s \in {"active", "finalized"}, a \in BOOLEAN :
               batch' = UpdateBatch(batch, proc[p].issue, s, a)
    BY <1>3, WritesRow
  <2>2. batch # NoBatch /\ batch \in Batches /\ proc[p].issue \in Issues
    BY <1>3, WritesRow DEF IInv, TypeOK, Proc
  <2>3. CASE j = proc[p].issue
    BY <2>1, <2>2, <2>3 DEF UpdateBatch, Batches
  <2>4. CASE j # proc[p].issue
    BY <2>1, <2>2, <2>4 DEF UpdateBatch, Batches, BailInv, ChildRows
  <2> QED
    BY <2>3, <2>4
<1>4. ASSUME NEW i \in Issues, NEW e \in {"pending", "active"}, Bail(i, e)
      PROVE  batch'.rows[j].status \in {"active", "finalized"}
  BY <1>4, BailRow DEF UpdateBatch, Batches, BailInv, ChildRows
<1> QED
  BY <1>1, <1>2, <1>3, <1>4, Writers

(* The steps that lead into the claim and through it.                      *)
LEMMA ClaimSteps ==
    ASSUME IInv, [Next]_vars, NEW p \in BatchProcs, proc'[p].pc \in ClaimPcs
    PROVE  \/ proc[p].pc \in ClaimPcs /\ proc'[p].issue = proc[p].issue
           \/ /\ Activate(p) /\ proc'[p].issue = proc[p].issue
              /\ CanUpdate(batch, proc[p].issue, "pending", "active", FALSE)
              /\ batch' = UpdateBatch(batch, proc[p].issue, "active", FALSE)
<1>1. proc \in [Procs -> Proc] /\ p \in Procs /\ TypeOK
  BY DEF IInv, TypeOK, Procs
<1>2. ASSUME NEW q \in Procs, q # p, Follows(q)
      PROVE  proc'[p] = proc[p]
  BY <1>1, <1>2 DEF Follows, Moves
<1>3. /\ ~End(p) /\ ~NextIssue(p)
      /\ \A pc : Goto(p, pc) => pc \in ClaimPcs /\ proc'[p].issue = proc[p].issue
  <2>1. ~End(p) /\ ~NextIssue(p)
    BY <1>1, EndMoves, NextIssueMoves DEF ClaimPcs
  <2>2. ASSUME NEW pc, Goto(p, pc)
        PROVE  proc'[p].pc = pc /\ proc'[p].issue = proc[p].issue
    BY <1>1, <2>2 DEF Goto, Proc
  <2> QED
    BY <2>1, <2>2
<1>4. ASSUME CreateBatch(p) \/ ResumeBatch(p) \/ StartQueue(p) \/ Die(p) PROVE FALSE
  <2>1. End(p) \/ \E pc \in {"acquire", "resume", "select"} : Goto(p, pc)
    BY <1>4 DEF CreateBatch, ResumeBatch, StartQueue, Die
  <2> QED
    BY <1>3, <2>1 DEF ClaimPcs
<1>5. ASSUME \/ AcquireBatch(p) \/ InspectRow(p) \/ RecordChild(p) \/ SelectInBatch(p)
             \/ SelectInQueue(p)
      PROVE  FALSE
  <2>1. ~SelectInQueue(p)
    BY IssueLoopAssumption DEF SelectInQueue
  <2>2. \/ End(p) \/ \E pc \in {"select", "childCleanup"} : Goto(p, pc)
        \/ proc' = [proc EXCEPT ![p].pc = "child", ![p].issue = batch.cursor + 1]
        \/ Choose(p, batch.cursor + 1)
    BY <1>5, <2>1 DEF AcquireBatch, InspectRow, RecordChild, SelectInBatch
  <2>3. ~Choose(p, batch.cursor + 1)
    <3> SUFFICES ASSUME Choose(p, batch.cursor + 1) PROVE FALSE
      OBVIOUS
    <3> DEFINE i == batch.cursor + 1
               a == assignees[i] # {}
               done == proc[p].processed \cup {i}
    <3>1. proc' = [proc EXCEPT ![p].pc = "activate", ![p].issue = i, ![p].assigned = a,
                               ![p].processed = done]
      BY DEF Choose
    <3> HIDE DEF a, i, done
    <3> QED
      BY <1>1, <3>1 DEF Proc, ClaimPcs
  <2>4. proc' # [proc EXCEPT ![p].pc = "child", ![p].issue = batch.cursor + 1]
    BY <1>1 DEF Proc, ClaimPcs
  <2> QED
    BY <1>3, <2>2, <2>3, <2>4 DEF ClaimPcs
<1>6. ASSUME Activate(p)
      PROVE  /\ proc'[p].issue = proc[p].issue
             /\ CanUpdate(batch, proc[p].issue, "pending", "active", FALSE)
             /\ batch' = UpdateBatch(batch, proc[p].issue, "active", FALSE)
  BY <1>3, <1>6 DEF Activate
<1>7. ASSUME AddAssignee(p) \/ VerifyClaim(p) \/ Recheck(p) \/ Rollback(p)
      PROVE  proc[p].pc \in ClaimPcs /\ proc'[p].issue = proc[p].issue
  <2>1. proc[p].pc \in ClaimPcs
    BY <1>7 DEF AddAssignee, VerifyClaim, Recheck, Rollback, At, ClaimPcs
  <2>2. \/ End(p) \/ GiveUp(p) \/ \E pc : Goto(p, pc)
        \/ \E pc \in {"unclaim", "unready"} :
             proc' = [proc EXCEPT ![p].pc = pc, ![p].exit = TRUE]
    BY <1>7 DEF AddAssignee, VerifyClaim, Recheck, Rollback
  <2>3. ~GiveUp(p)
    BY <1>3 DEF GiveUp
  <2>4. ASSUME NEW pc \in {"unclaim", "unready"},
               proc' = [proc EXCEPT ![p].pc = pc, ![p].exit = TRUE]
        PROVE  proc'[p].issue = proc[p].issue
    BY <1>1, <2>4 DEF Proc
  <2> QED
    BY <1>3, <2>1, <2>2, <2>3, <2>4
<1>8. ASSUME \/ Work(p) \/ VerifyIssue(p) \/ PushBranch(p) \/ OpenPr(p)
             \/ CreateCheckpoint(p) \/ AcquireRun(p) \/ Attach(p)
             \/ MarkReady(p) \/ Record(p) \/ Advance(p) \/ Cleanup(p)
      PROVE  FALSE
  <2>1. \/ End(p) \/ NextIssue(p)
        \/ \E pc \in {"verifyIssue", "push", "openPr", "checkpoint", "lock", "review",
                      "record", "advance", "cleanup"} : Goto(p, pc)
        \/ proc' = [proc EXCEPT ![p].pc = "attach", ![p].locked = @ \cup {proc[p].issue}]
    BY <1>8 DEF Work, VerifyIssue, PushBranch, OpenPr, CreateCheckpoint, AcquireRun,
                Attach, MarkReady, Record, Advance, Cleanup, Advances
  <2>2. proc' # [proc EXCEPT ![p].pc = "attach", ![p].locked = @ \cup {proc[p].issue}]
    BY <1>1 DEF Proc, ClaimPcs
  <2> QED
    BY <1>3, <2>1, <2>2 DEF ClaimPcs
<1>9. ASSUME NEW q \in Procs, q # p,
             CreateBatch(q) \/ ResumeBatch(q) \/ StartQueue(q) \/ LoopStep(q) \/ Die(q)
      PROVE  proc'[p] = proc[p]
  BY <1>2, <1>9, StartFollows, LoopFollows
<1>10. ASSUME NEW o \in Owners, NEW i \in Issues,
              ResumeRun(o, i) \/ ReviewStep(o, i) \/ ReviewDies(o, i)
       PROVE  proc'[p] = proc[p]
  <2>1. UNCHANGED proc \/ \E ok \in BOOLEAN : Exit(o, i, ok)
    BY <1>10 DEF ResumeRun, ReviewStep, ReviewDies, ResumeStart, ResumeReady,
                 ResumeRecord, ResumeCleanup, ReviewGoto
  <2>2. UNCHANGED proc \/ Settles
    BY <1>1, <2>1, ExitSettles
  <2> QED
    BY <1>1, <2>2 DEF Settles, ClaimPcs
<1>11. ASSUME NEW i \in Issues,
              \/ \E e \in {"pending", "active"} : Bail(i, e)
              \/ ChangeIssue(i) \/ ChangeAssignee(i)
       PROVE  proc'[p] = proc[p]
  BY <1>11 DEF Bail, ChangeIssue, ChangeAssignee
<1> QED
  BY <1>4, <1>5, <1>6, <1>7, <1>8, <1>9, <1>10, <1>11 DEF Next, LoopStep, vars

LEMMA ClaimedRowsKept == ASSUME IInv, BailInv, [Next]_vars PROVE ClaimedRows'
<1> SUFFICES ASSUME NEW p \in BatchProcs, proc'[p].pc \in ClaimPcs
             PROVE  /\ batch' # NoBatch /\ proc'[p].issue = batch'.cursor + 1
                    /\ batch'.rows[proc'[p].issue].status = "active"
                    /\ ~batch'.rows[proc'[p].issue].child
  BY DEF ClaimedRows, AtRow
<1>1. CASE proc[p].pc \in ClaimPcs /\ proc'[p].issue = proc[p].issue
  <2>1. UNCHANGED batch
    BY <1>1, BatchStays DEF Holds, ClaimPcs
  <2> QED
    BY <1>1, <2>1 DEF BailInv, ClaimedRows, AtRow
<1>2. CASE /\ Activate(p) /\ proc'[p].issue = proc[p].issue
           /\ CanUpdate(batch, proc[p].issue, "pending", "active", FALSE)
           /\ batch' = UpdateBatch(batch, proc[p].issue, "active", FALSE)
  <2>1. /\ batch # NoBatch /\ batch \in Batches /\ ValidBatch(batch)
        /\ proc[p].issue \in Issues /\ p \in Procs
    BY <1>2 DEF Activate, At, IInv, TypeOK, BatchKnown, Proc, Procs
  <2>2. /\ proc[p].issue = batch.cursor + 1
        /\ batch.rows[proc[p].issue].status = "pending"
    BY <1>2 DEF CanUpdate, AtCursor
  <2>3. ~batch.rows[proc[p].issue].child
    BY <2>1, <2>2 DEF BailInv, ChildRows
  <2>4. batch' # NoBatch
    BY <2>1, BatchSteps
  <2> QED
    BY <1>2, <2>1, <2>2, <2>3, <2>4 DEF UpdateBatch, Batches, SettledStatuses
<1> QED
  BY <1>1, <1>2, ClaimSteps

(* What a bail command for an active issue is printed for.                 *)
LEMMA NewOffer ==
    ASSUME IInv, BailInv, [Next]_vars, NEW i \in Issues,
           <<i, "active">> \in offers', <<i, "active">> \notin offers
    PROVE  AtRow(i, "active") /\ UNCHANGED batch /\ \E p \in BatchProcs : Holds(p) /\ End(p)
<1>1. ASSUME NEW p \in Procs, InspectRow(p)
      PROVE  AtRow(i, "active") /\ UNCHANGED batch /\ \E q \in BatchProcs : Holds(q) /\ End(q)
  <2>1. p \in BatchProcs /\ Holds(p) /\ UNCHANGED batch /\ batch # NoBatch
    BY <1>1 DEF InspectRow, At, IInv, BatchKnown, Procs, BatchPcs, Holds
  <2>2. /\ batch.rows[batch.cursor + 1].status = "active"
        /\ ~batch.rows[batch.cursor + 1].child
        /\ End(p) /\ PrintBail(batch.cursor + 1, "active")
    BY <1>1 DEF InspectRow
  <2>3. i = batch.cursor + 1
    BY <2>2 DEF PrintBail
  <2> QED
    BY <2>1, <2>2, <2>3 DEF AtRow
<1>2. ASSUME NEW p \in Procs, Rollback(p)
      PROVE  AtRow(i, "active") /\ UNCHANGED batch /\ \E q \in BatchProcs : Holds(q) /\ End(q)
  <2>1. /\ p \in BatchProcs /\ proc[p].pc = "unready" /\ UNCHANGED batch
        /\ PrintBail(proc[p].issue, "active") /\ GiveUp(p)
    BY <1>2 DEF Rollback, At
  <2>2. Holds(p) /\ End(p) /\ i = proc[p].issue
    BY <2>1 DEF GiveUp, PrintBail, Holds
  <2> QED
    BY <2>1, <2>2 DEF BailInv, ClaimedRows, ClaimPcs
<1>3. ASSUME NEW p \in Procs, SelectInBatch(p) PROVE FALSE
  BY <1>3 DEF SelectInBatch, PrintBail
<1>4. ASSUME NEW p \in Procs,
             \/ CreateBatch(p) \/ ResumeBatch(p) \/ StartQueue(p) \/ Die(p)
             \/ LoopStep(p) /\ ~InspectRow(p) /\ ~SelectInBatch(p) /\ ~Rollback(p)
      PROVE  UNCHANGED offers
  BY <1>4 DEF CreateBatch, ResumeBatch, StartQueue, Die, LoopStep, AcquireBatch,
              RecordChild, SelectInQueue, Activate, AddAssignee,
              VerifyClaim, Recheck, Advances, Work, VerifyIssue, PushBranch,
              OpenPr, CreateCheckpoint, AcquireRun, Attach, MarkReady, Record, Advance,
              Cleanup
<1>5. ASSUME NEW o \in Owners, NEW j \in Issues,
             ResumeRun(o, j) \/ ReviewStep(o, j) \/ ReviewDies(o, j)
      PROVE  UNCHANGED offers
  BY <1>5 DEF ResumeRun, ReviewStep, ReviewDies, ResumeStart, ResumeReady, ResumeRecord,
              ResumeCleanup
<1>6. ASSUME NEW j \in Issues,
             \/ \E e \in {"pending", "active"} : Bail(j, e)
             \/ ChangeIssue(j) \/ ChangeAssignee(j)
      PROVE  UNCHANGED offers
  BY <1>6 DEF Bail, ChangeIssue, ChangeAssignee
<1> QED
  BY <1>1, <1>2, <1>3, <1>4, <1>5, <1>6 DEF Next, vars

(* An active issue without a child starts nothing.                         *)
LEMMA QuietSteps ==
    ASSUME IInv, [Next]_vars, UNCHANGED batch, NEW i, AtRow(i, "active"),
           NEW p \in BatchProcs, proc[p].pc \in QuietPcs
    PROVE  proc'[p].pc \in QuietPcs
<1>1. proc \in [Procs -> Proc] /\ p \in Procs /\ TypeOK
  BY DEF IInv, TypeOK, Procs
<1>2. ASSUME NEW q \in Procs, q # p, Follows(q)
      PROVE  proc'[p] = proc[p]
  BY <1>1, <1>2 DEF Follows, Moves
<1>3. /\ End(p) => proc'[p].pc \in QuietPcs
      /\ \A pc : Goto(p, pc) => proc'[p].pc = pc
  <2>1. End(p) => proc'[p].pc \in QuietPcs
    BY <1>1, EndMoves DEF QuietPcs
  <2>2. ASSUME NEW pc, Goto(p, pc) PROVE proc'[p].pc = pc
    BY <1>1, <2>2 DEF Goto, Proc
  <2> QED
    BY <2>1, <2>2
<1>4. ASSUME \/ CreateBatch(p) \/ ResumeBatch(p) \/ StartQueue(p) \/ Die(p)
             \/ AcquireBatch(p) \/ InspectRow(p) \/ SelectInBatch(p)
      PROVE  proc'[p].pc \in QuietPcs
  <2>1. End(p) \/ \E pc \in QuietPcs : Goto(p, pc)
    BY <1>4 DEF CreateBatch, ResumeBatch, StartQueue, Die, AcquireBatch, InspectRow,
                SelectInBatch, AtRow, QuietPcs
  <2> QED
    BY <1>3, <2>1
<1>5. ASSUME LoopStep(p)
      PROVE  AcquireBatch(p) \/ InspectRow(p) \/ SelectInBatch(p)
  BY <1>5, IssueLoopAssumption
     DEF LoopStep, RecordChild, SelectInQueue, Activate, AddAssignee, VerifyClaim, Recheck,
         Rollback, Work, VerifyIssue, PushBranch, OpenPr, CreateCheckpoint, AcquireRun,
         Attach, MarkReady, Record, Advance, Cleanup, Advances, At, QuietPcs
<1>6. ASSUME NEW q \in Procs, q # p,
             CreateBatch(q) \/ ResumeBatch(q) \/ StartQueue(q) \/ LoopStep(q) \/ Die(q)
      PROVE  proc'[p] = proc[p]
  BY <1>2, <1>6, StartFollows, LoopFollows
<1>7. ASSUME NEW o \in Owners, NEW j \in Issues,
             ResumeRun(o, j) \/ ReviewStep(o, j) \/ ReviewDies(o, j)
      PROVE  proc'[p] = proc[p]
  <2>1. UNCHANGED proc \/ \E ok \in BOOLEAN : Exit(o, j, ok)
    BY <1>7 DEF ResumeRun, ReviewStep, ReviewDies, ResumeStart, ResumeReady,
                ResumeRecord, ResumeCleanup, ReviewGoto
  <2>2. UNCHANGED proc \/ Settles
    BY <1>1, <2>1, ExitSettles
  <2> QED
    BY <1>1, <2>2 DEF Settles, QuietPcs
<1>8. ASSUME NEW j \in Issues,
             \/ \E e \in {"pending", "active"} : Bail(j, e)
             \/ ChangeIssue(j) \/ ChangeAssignee(j)
      PROVE  proc'[p] = proc[p]
  BY <1>8 DEF Bail, ChangeIssue, ChangeAssignee
<1> QED
  BY <1>4, <1>5, <1>6, <1>7, <1>8 DEF Next, vars

LEMMA OffersQuietKept == ASSUME IInv, BailInv, [Next]_vars PROVE OffersQuiet'
<1> SUFFICES ASSUME NEW i \in Issues, <<i, "active">> \in offers'
             PROVE  /\ batch' # NoBatch
                    /\ \/ i <= batch'.cursor
                       \/ AtRow(i, "active")' /\ \A p \in BatchProcs : proc'[p].pc \in QuietPcs
  BY DEF OffersQuiet
<1>1. CASE <<i, "active">> \notin offers
  <2>1. AtRow(i, "active") /\ UNCHANGED batch
    BY <1>1, NewOffer
  <2>2. PICK p \in BatchProcs : Holds(p) /\ End(p)
    BY <1>1, NewOffer
  <2>3. \A q \in BatchProcs : proc[q].pc \in QuietPcs \/ q = p
    BY <2>2 DEF IInv, OneHolder, Holds, QuietPcs
  <2>4. p \in Procs /\ TypeOK /\ proc'[p].pc = "idle"
    BY <2>2, EndMoves DEF IInv, Procs
  <2> QED
    BY <2>1, <2>3, <2>4, QuietSteps DEF AtRow, QuietPcs
<1>2. CASE <<i, "active">> \in offers /\ i <= batch.cursor
  <2>1. batch # NoBatch
    BY <1>2 DEF BailInv, OffersQuiet
  <2> QED
    BY <1>2, <2>1, BatchSteps DEF IInv, TypeOK, Batches, Issues
<1>3. CASE AtRow(i, "active") /\ \A p \in BatchProcs : proc[p].pc \in QuietPcs
  <2>1. CASE UNCHANGED batch
    BY <1>3, <2>1, QuietSteps DEF AtRow
  <2>2. ASSUME NEW j \in Issues, NEW e \in {"pending", "active"}, Bail(j, e)
        PROVE  batch' # NoBatch /\ i <= batch'.cursor
    <3>1. batch' = UpdateBatch(batch, j, "bailed", FALSE) /\ batch \in Batches
      BY <2>2, BailRow
    <3>2. batch'.cursor = batch.cursor + 1
      BY <3>1 DEF UpdateBatch, SettledStatuses
    <3>3. batch # NoBatch /\ i = batch.cursor + 1
      BY <1>3 DEF AtRow
    <3>4. batch' # NoBatch
      BY <3>3, BatchSteps DEF IInv, TypeOK
    <3> QED
      BY <3>2, <3>3, <3>4 DEF Issues
  <2>3. ~ \E p \in Procs : CreateBatch(p) \/ Writes(p)
    BY <1>3, WritesRow DEF AtRow, CreateBatch
  <2> QED
    BY <2>1, <2>2, <2>3, Writers
<1> QED
  BY <1>1, <1>2, <1>3 DEF BailInv, OffersQuiet

LEMMA InitBail == Init => BailInv
<1>1. Init => \A p \in BatchProcs : proc[p].pc = "idle"
  BY DEF Init, NewProc, Procs
<1> QED
  BY <1>1 DEF Init, BailInv, ChildRows, ClaimedRows, ClaimPcs, OffersQuiet

(* No bail command ends an issue that has a review, however late it is run *)
(* and whatever was resumed since it was printed.                          *)
THEOREM LateBailIsHarmless == Spec => []BailedHasNoChild
<1>1. IInv /\ BailInv /\ [Next]_vars => BailInv'
  BY ChildRowsKept, ClaimedRowsKept, OffersQuietKept DEF BailInv
<1>2. BailInv => BailedHasNoChild
  BY DEF BailInv, ChildRows, BailedHasNoChild
<1> QED
  BY InitBail, <1>1, <1>2, LoopInvariance, PTL DEF Spec

-----------------------------------------------------------------------------
(* How far the runs are.                                                   *)

(* What a wrapper at a place knows of its run.                             *)
RunFits(pc, run) ==
    /\ pc \in ClaimPcs \cup {"work"} => run = NoRun
    /\ pc \in {"verifyIssue", "push"} => run = [NoRun EXCEPT !.worktree = TRUE]
    /\ pc = "openPr" => run.worktree /\ run.pr = "branch" /\ run.child = "none"
    /\ pc = "checkpoint" => run.worktree /\ run.pr = "draft" /\ run.child = "none"
    /\ pc \in {"lock", "attach", "review", "record"} => run.child # "none"
    /\ pc \in {"advance", "cleanup", "childDone", "childCleanup"} => run.child = "finalized"

RunsFit == \A p \in Procs : RunFits(proc[p].pc, RunOf(p))

(* A checkpoint has a PR, and a worktree goes only after the checkpoint is *)
(* finalized.                                                              *)
RunSound(run) ==
    /\ run.child # "none" => run.pr \in {"draft", "ready"}
    /\ run.pr # "none" /\ ~run.worktree => run.child = "finalized"

RunsSound == \A o \in Owners, i \in Issues : RunSound(runs[o][i])

(* A review process has a checkpoint to resume.                            *)
ReviewFits(o, i) ==
    /\ review[o][i].pc = "none" => review[o][i] = NoReview
    /\ review[o][i].parent => o = Batch
    /\ review[o][i].pc # "none" => runs[o][i].child # "none"
    /\ review[o][i].pc = "cleanup" => runs[o][i].child = "finalized"

ReviewsFit == \A o \in Owners, i \in Issues : ReviewFits(o, i)

(* The run lock keeps resumed reviews away from a wrapper's own.           *)
LockedPcs == {"attach", "review", "record"}
LocksHeld ==
    \A p \in Procs : proc[p].pc \in LockedPcs =>
        /\ proc[p].issue \in proc[p].locked
        /\ review[Owner(p)][proc[p].issue] = NoReview

(* The batch works on the active issue at its cursor.                      *)
RowPcs == {"work", "verifyIssue", "push", "openPr", "checkpoint", "lock", "attach"}
RowsWorked == \A p \in BatchProcs : proc[p].pc \in RowPcs => AtRow(proc[p].issue, "active")

(* What a row says of its run.                                             *)
RowFits(i) ==
    /\ batch.rows[i].status = "pending" => runs[Batch][i] = NoRun
    /\ batch.rows[i].child => runs[Batch][i].child # "none"

RowsFit == batch # NoBatch => \A i \in Issues : RowFits(i)

(* A queue loop takes an issue only once.                                  *)
QueueFits(q) ==
    /\ proc[q].pc \notin {"idle", "select", "ended"} => proc[q].issue \in proc[q].processed
    /\ \A i \in Issues : runs[q][i] # NoRun =>
          proc[q].pc = "ended" \/ (proc[q].pc # "idle" /\ i \in proc[q].processed)

QueuesFit == \A q \in QueueProcs : QueueFits(q)

RunInv == /\ RunsFit /\ RunsSound /\ ReviewsFit /\ LocksHeld
          /\ RowsWorked /\ RowsFit /\ QueuesFit

Inv == IInv /\ BailInv /\ RunInv

-----------------------------------------------------------------------------
(* Steps by who takes them.                                                *)
ProcStep(p) == CreateBatch(p) \/ ResumeBatch(p) \/ StartQueue(p) \/ LoopStep(p) \/ Die(p)
ReviewProcStep(o, i) == ResumeRun(o, i) \/ ReviewStep(o, i) \/ ReviewDies(o, i)
OperatorStep ==
    \E i \in Issues : \/ \E e \in {"pending", "active"} : Bail(i, e)
                      \/ ChangeIssue(i) \/ ChangeAssignee(i)

LEMMA ByActor ==
    [Next]_vars => \/ \E p \in Procs : ProcStep(p)
                   \/ \E o \in Owners, i \in Issues : ReviewProcStep(o, i)
                   \/ OperatorStep \/ UNCHANGED vars
  BY DEF Next, ProcStep, ReviewProcStep, OperatorStep

LEMMA RunTypes ==
    ASSUME TypeOK
    PROVE  /\ \A o \in Owners, i \in Issues : runs[o][i] \in Run /\ review[o][i] \in Review
           /\ \A p \in Procs : proc[p] \in Proc /\ proc[p].issue \in Issues /\ Owner(p) \in Owners
           /\ \A p \in Procs : RunOf(p) \in Run
  BY OwnerType DEF TypeOK, Proc, RunOf

LEMMA Changed ==
    ASSUME TypeOK, NEW o \in Owners, NEW i \in Issues, NEW run, Change(o, i, run)
    PROVE  /\ runs'[o][i] = run
           /\ \A a \in Owners, j \in Issues : a # o \/ j # i => runs'[a][j] = runs[a][j]
  BY DEF TypeOK, Change

(* Where a wrapper goes, by the way the step moves it.                     *)
LEMMA GotoTo ==
    ASSUME TypeOK, NEW p \in Procs, NEW pc, Goto(p, pc)
    PROVE  /\ proc'[p].pc = pc /\ proc'[p].issue = proc[p].issue
           /\ proc'[p].locked = proc[p].locked /\ proc'[p].processed = proc[p].processed
  BY DEF TypeOK, Goto, Proc

LEMMA EndTo ==
    ASSUME TypeOK, NEW p \in Procs, End(p)
    PROVE  proc'[p].pc = IF p \in BatchProcs THEN "idle" ELSE "ended"
  BY EndMoves

LEMMA NextIssueTo ==
    ASSUME TypeOK, NEW p \in Procs, NextIssue(p)
    PROVE  proc'[p].pc = "select" /\ proc'[p].processed = proc[p].processed
  BY DEF TypeOK, NextIssue, Proc

LEMMA ChooseTo ==
    ASSUME TypeOK, NEW p \in Procs, NEW i, Choose(p, i)
    PROVE  /\ proc'[p].pc = IF p \in BatchProcs THEN "activate" ELSE "claim"
           /\ proc'[p].issue = i /\ proc'[p].processed = proc[p].processed \cup {i}
<1> DEFINE pc == IF p \in BatchProcs THEN "activate" ELSE "claim"
           a == assignees[i] # {}
           done == proc[p].processed \cup {i}
<1>1. proc \in [Procs -> Proc] /\ proc[p] \in Proc
  BY DEF TypeOK
<1>2. proc' = [proc EXCEPT ![p].pc = pc, ![p].issue = i, ![p].assigned = a,
                           ![p].processed = done]
  BY <1>1 DEF Choose
<1> HIDE DEF a, pc, done
<1>3. proc'[p].pc = pc /\ proc'[p].issue = i /\ proc'[p].processed = done
  BY <1>1, <1>2 DEF Proc
<1> QED
  BY <1>3 DEF pc, done

LEMMA LockTo ==
    ASSUME TypeOK, NEW p \in Procs, NEW pc,
           proc' = [proc EXCEPT ![p].pc = pc, ![p].locked = @ \cup {proc[p].issue}]
    PROVE  /\ proc'[p].pc = pc /\ proc'[p].issue = proc[p].issue
           /\ proc'[p].locked = proc[p].locked \cup {proc[p].issue}
           /\ proc'[p].processed = proc[p].processed
<1> DEFINE locked == proc[p].locked \cup {proc[p].issue}
<1>1. proc \in [Procs -> Proc] /\ proc[p] \in Proc
  BY DEF TypeOK
<1>2. proc' = [proc EXCEPT ![p].pc = pc, ![p].locked = locked]
  BY <1>1
<1> HIDE DEF locked
<1>3. /\ proc'[p].pc = pc /\ proc'[p].issue = proc[p].issue
      /\ proc'[p].locked = locked /\ proc'[p].processed = proc[p].processed
  BY <1>1, <1>2 DEF Proc
<1> QED
  BY <1>3 DEF locked

LEMMA ExitTo ==
    ASSUME TypeOK, NEW p \in Procs, NEW pc,
           proc' = [proc EXCEPT ![p].pc = pc, ![p].exit = TRUE]
    PROVE  /\ proc'[p].pc = pc /\ proc'[p].issue = proc[p].issue
           /\ proc'[p].locked = proc[p].locked /\ proc'[p].processed = proc[p].processed
  BY DEF TypeOK, Proc

(* The other wrappers, when one takes a step: one on the same run does     *)
(* nothing yet.                                                            *)
LEMMA OthersRest ==
    ASSUME IInv, NEW p \in Procs, NEW q \in Procs, q # p, Holds(p), Owner(q) = Owner(p)
    PROVE  proc[q].pc \in {"idle", "acquire"}
  BY OwnerType, IssueLoopAssumption DEF IInv, OneHolder, Holds, Owner, Procs

LEMMA OthersStay ==
    ASSUME IInv, [Next]_vars, NEW p \in Procs, ProcStep(p), NEW q \in Procs, q # p
    PROVE  proc'[q] = proc[q]
<1>1. Follows(p)
  BY StartFollows, LoopFollows DEF ProcStep
<1> QED
  BY <1>1 DEF Follows, Moves, IInv, TypeOK

(* What a step keeps of a run's checkpoint.                                *)
Keeps(run, new) ==
    /\ run.child # "none" => new.child # "none"
    /\ run.child = "finalized" => new.child = "finalized"

(* The stages of a run follow each other.                                  *)
StageMoves(run, new) ==
    \/ Stage(new) = Stage(run)
    \/ Stage(run) = "untouched" /\ Stage(new) = "published"
    \/ Stage(run) = "published" /\ Stage(new) = "complete"

Opened(run) == run.pr \in {"draft", "ready"}

(* What a step of a wrapper does to its own run.                           *)
Extends(p, run) ==
    /\ Change(Owner(p), proc[p].issue, run)
    /\ RunSound(run) /\ Keeps(RunOf(p), run) /\ StageMoves(RunOf(p), run)
    /\ Opened(run) => Opened(RunOf(p)) \/ proc[p].pc = "openPr"

WritePcs == {"work", "push", "openPr", "checkpoint", "review", "record", "cleanup", "childCleanup"}

OwnRun(p) ==
    /\ UNCHANGED runs \/ (proc[p].pc \in WritePcs /\ \E run : Extends(p, run))
    /\ RunFits(proc'[p].pc, runs'[Owner(p)][proc'[p].issue])

LEMMA RestFits ==
    ASSUME NEW pc \in {"idle", "ended", "acquire", "select", "resume", "child", "activate"},
           NEW run
    PROVE  RunFits(pc, run)
  BY DEF RunFits, ClaimPcs

(* The steps that only look, ask or record in the batch.                   *)
LEMMA LookSteps ==
    ASSUME Inv, NEW p \in Procs,
           \/ CreateBatch(p) \/ ResumeBatch(p) \/ StartQueue(p) \/ Die(p) \/ AcquireBatch(p)
           \/ InspectRow(p) \/ RecordChild(p) \/ Activate(p) \/ Attach(p) \/ Advance(p)
           \/ AddAssignee(p) \/ VerifyClaim(p) \/ Recheck(p) \/ Rollback(p)
           \/ VerifyIssue(p) \/ AcquireRun(p)
    PROVE  OwnRun(p)
<1> DEFINE Fits == RunFits(proc'[p].pc, RunOf(p)) /\ proc'[p].issue = proc[p].issue
           Rests == proc'[p].pc \in {"idle", "ended", "acquire", "select", "resume", "child",
                                     "activate"}
<1>1. UNCHANGED runs
  BY DEF CreateBatch, ResumeBatch, StartQueue, Die, AcquireBatch, InspectRow,
         RecordChild, Activate, Attach, Advance, AddAssignee, VerifyClaim, Recheck, Rollback,
         VerifyIssue, AcquireRun
<1>2. TypeOK /\ proc[p] \in Proc /\ RunFits(proc[p].pc, RunOf(p))
  BY DEF Inv, IInv, TypeOK, RunInv, RunsFit
<1> SUFFICES Rests \/ Fits
  BY <1>1, RestFits DEF OwnRun, RunOf
<1>3. End(p) \/ NextIssue(p) \/ GiveUp(p) => Rests
  BY <1>2, EndTo, NextIssueTo DEF GiveUp
<1>4. \A pc : Goto(p, pc) => proc'[p].pc = pc /\ proc'[p].issue = proc[p].issue
  BY <1>2, GotoTo
<1>5. CASE \/ CreateBatch(p) \/ ResumeBatch(p) \/ StartQueue(p) \/ Die(p) \/ AcquireBatch(p)
  BY <1>3, <1>4, <1>5 DEF CreateBatch, ResumeBatch, StartQueue, Die, AcquireBatch
<1>6. CASE InspectRow(p)
  <2>1. ASSUME proc' = [proc EXCEPT ![p].pc = "child", ![p].issue = batch.cursor + 1]
        PROVE  proc'[p].pc = "child"
    BY <1>2, <2>1 DEF TypeOK, Proc
  <2> QED
    BY <1>3, <1>4, <1>6, <2>1 DEF InspectRow
<1>7. CASE RecordChild(p) \/ Attach(p) \/ Advance(p)
  <2>1. \/ End(p)
        \/ proc[p].pc = "childDone" /\ Goto(p, "childCleanup")
        \/ proc[p].pc = "attach" /\ Goto(p, "review")
        \/ proc[p].pc = "advance" /\ Goto(p, "cleanup")
    BY <1>7 DEF RecordChild, Attach, Advance, At
  <2>2. /\ proc[p].pc = "attach" => RunFits("review", RunOf(p))
        /\ proc[p].pc = "childDone" => RunFits("childCleanup", RunOf(p))
        /\ proc[p].pc = "advance" => RunFits("cleanup", RunOf(p))
    BY <1>2 DEF RunFits, ClaimPcs
  <2> QED
    BY <1>3, <1>4, <2>1, <2>2
<1>8. CASE Activate(p)
  <2>1. CASE End(p)
    BY <1>3, <2>1
  <2>2. CASE CanUpdate(batch, proc[p].issue, "pending", "active", FALSE) /\ Goto(p, "claim")
    <3>1. p \in BatchProcs /\ batch # NoBatch
      BY <1>8 DEF Activate, At, Inv, IInv, BatchKnown, Procs, BatchPcs
    <3>2. RunOf(p) = NoRun
      BY <1>2, <2>2, <3>1, OwnerType
         DEF CanUpdate, RunOf, Inv, RunInv, RowsFit, RowFits, Proc
    <3> QED
      BY <1>4, <2>2, <3>2 DEF RunFits, ClaimPcs
  <2> QED
    BY <1>8, <2>1, <2>2 DEF Activate
<1>9. CASE AddAssignee(p) \/ VerifyClaim(p) \/ Recheck(p) \/ Rollback(p)
  <2>1. RunOf(p) = NoRun
    BY <1>2, <1>9 DEF AddAssignee, VerifyClaim, Recheck, Rollback, At, RunFits, ClaimPcs
  <2>2. \/ Rests
        \/ /\ proc'[p].pc \in {"verify", "recheck", "unclaim", "work", "unready"}
           /\ proc'[p].issue = proc[p].issue
    BY <1>2, <1>3, <1>4, <1>9, ExitTo DEF AddAssignee, VerifyClaim, Recheck, Rollback
  <2>3. \A pc \in {"verify", "recheck", "unclaim", "work", "unready"} : RunFits(pc, NoRun)
    BY DEF RunFits, ClaimPcs
  <2> QED
    BY <2>1, <2>2, <2>3
<1>10. CASE VerifyIssue(p)
  BY <1>2, <1>3, <1>4, <1>10 DEF VerifyIssue, At, RunFits, ClaimPcs
<1>11. CASE AcquireRun(p)
  <2>1. proc[p].pc = "lock" /\ RunOf(p).child # "none"
    BY <1>2, <1>11 DEF AcquireRun, At, RunFits
  <2>2. \/ Rests
        \/ proc'[p].pc \in {"attach", "review"} /\ proc'[p].issue = proc[p].issue
    BY <1>2, <1>3, <1>11, LockTo DEF AcquireRun
  <2> QED
    BY <2>1, <2>2 DEF RunFits, ClaimPcs
<1> QED
  BY <1>5, <1>6, <1>7, <1>8, <1>9, <1>10, <1>11

LEMMA SelectSteps ==
    ASSUME Inv, NEW p \in Procs, SelectInBatch(p) \/ SelectInQueue(p)
    PROVE  OwnRun(p)
<1>1. UNCHANGED runs /\ TypeOK /\ proc[p] \in Proc
  BY DEF SelectInBatch, SelectInQueue, Inv, IInv, TypeOK
<1>2. CASE End(p)
  BY <1>1, <1>2, EndTo, RestFits DEF OwnRun
<1>3. CASE p \in BatchProcs /\ \E i : Choose(p, i)
  BY <1>1, <1>3, ChooseTo, RestFits DEF OwnRun
<1>4. CASE p \in QueueProcs /\ At(p, "select") /\ \E i \in Issues \ proc[p].processed : Choose(p, i)
  <2> PICK i \in Issues \ proc[p].processed : Choose(p, i)
    BY <1>4
  <2>1. p \notin BatchProcs /\ Owner(p) = p
    BY <1>4, IssueLoopAssumption DEF Owner
  <2>2. runs[p][i] = NoRun
    BY <1>4 DEF Inv, RunInv, QueuesFit, QueueFits, At
  <2>3. proc'[p].pc = "claim" /\ proc'[p].issue = i
    BY <1>1, <2>1, ChooseTo
  <2> QED
    BY <1>1, <2>1, <2>2, <2>3 DEF OwnRun, RunFits, ClaimPcs
<1> QED
  BY <1>2, <1>3, <1>4 DEF SelectInBatch, SelectInQueue

(* The steps that write the run.                                           *)
LEMMA RunWriteSteps ==
    ASSUME Inv, NEW p \in Procs,
           \/ Work(p) \/ PushBranch(p) \/ OpenPr(p) \/ CreateCheckpoint(p) \/ MarkReady(p)
           \/ Record(p) \/ Cleanup(p)
    PROVE  OwnRun(p)
<1> DEFINE o == Owner(p)
           i == proc[p].issue
           pc == proc[p].pc
<1>1. /\ TypeOK /\ RunFits(pc, RunOf(p)) /\ RunSound(RunOf(p))
      /\ o \in Owners /\ i \in Issues /\ RunOf(p) \in Run
  BY RunTypes DEF Inv, IInv, RunInv, RunsFit, RunsSound, RunOf
<1>2. pc \in WritePcs
  BY DEF Work, PushBranch, OpenPr, CreateCheckpoint, MarkReady, Record, Cleanup, Advances, At,
         WritePcs
<1>3. ASSUME NEW run, NEW to, Change(o, i, run), Goto(p, to),
             RunSound(run), Keeps(RunOf(p), run), RunFits(to, run),
             StageMoves(RunOf(p), run), Opened(run) => Opened(RunOf(p)) \/ pc = "openPr"
      PROVE  OwnRun(p)
  BY <1>1, <1>2, <1>3, GotoTo, Changed DEF OwnRun, Extends
<1>4. CASE Work(p)
  <2> DEFINE run == [RunOf(p) EXCEPT !.worktree = TRUE]
  <2>1. RunOf(p) = NoRun
    BY <1>1, <1>4 DEF Work, Advances, At, RunFits
  <2>2. RunSound(run) /\ Keeps(RunOf(p), run) /\ RunFits("verifyIssue", run)
    BY <2>1 DEF NoRun, RunSound, Keeps, RunFits, ClaimPcs
  <2>3. StageMoves(RunOf(p), run) /\ (Opened(run) => Opened(RunOf(p)) \/ pc = "openPr")
    BY <2>1 DEF StageMoves, Stage, Opened, RunSound, Run, NoRun
  <2> QED
    BY <1>3, <1>4, <2>2, <2>3 DEF Work, Advances
<1>5. CASE PushBranch(p)
  <2> DEFINE run == [RunOf(p) EXCEPT !.pr = "branch"]
  <2>1. RunOf(p) = [NoRun EXCEPT !.worktree = TRUE]
    BY <1>1, <1>5 DEF PushBranch, Advances, At, RunFits
  <2>2. RunSound(run) /\ Keeps(RunOf(p), run) /\ RunFits("openPr", run)
    BY <2>1 DEF NoRun, RunSound, Keeps, RunFits, ClaimPcs
  <2>3. StageMoves(RunOf(p), run) /\ (Opened(run) => Opened(RunOf(p)) \/ pc = "openPr")
    BY <2>1 DEF StageMoves, Stage, Opened, RunSound, Run, NoRun
  <2> QED
    BY <1>3, <1>5, <2>2, <2>3 DEF PushBranch, Advances
<1>6. CASE OpenPr(p)
  <2> DEFINE run == [RunOf(p) EXCEPT !.pr = "draft"]
  <2>1. RunOf(p).worktree /\ RunOf(p).pr = "branch" /\ RunOf(p).child = "none" /\ pc = "openPr"
    BY <1>1, <1>6 DEF OpenPr, Advances, At, RunFits
  <2>2. RunSound(run) /\ Keeps(RunOf(p), run) /\ RunFits("checkpoint", run)
    BY <1>1, <2>1 DEF Run, RunSound, Keeps, RunFits, ClaimPcs
  <2>3. StageMoves(RunOf(p), run) /\ (Opened(run) => Opened(RunOf(p)) \/ pc = "openPr")
    BY <1>1, <2>1 DEF StageMoves, Stage, Opened, RunSound, Run, NoRun
  <2> QED
    BY <1>3, <1>6, <2>2, <2>3 DEF OpenPr, Advances
<1>7. CASE CreateCheckpoint(p)
  <2> DEFINE run == [RunOf(p) EXCEPT !.child = "open"]
  <2>1. RunOf(p).worktree /\ RunOf(p).child = "none" /\ RunOf(p).pr = "draft"
    BY <1>1, <1>7 DEF CreateCheckpoint, Advances, At, RunFits
  <2>2. RunSound(run) /\ Keeps(RunOf(p), run) /\ RunFits("lock", run)
    BY <1>1, <2>1 DEF Run, RunSound, Keeps, RunFits, ClaimPcs
  <2>3. StageMoves(RunOf(p), run) /\ (Opened(run) => Opened(RunOf(p)) \/ pc = "openPr")
    BY <1>1, <2>1 DEF StageMoves, Stage, Opened, RunSound, Run, NoRun
  <2> QED
    BY <1>3, <1>7, <2>2, <2>3 DEF CreateCheckpoint, Advances
<1>8. CASE MarkReady(p)
  <2> DEFINE run == [RunOf(p) EXCEPT !.pr = "ready"]
  <2>1. RunOf(p).child # "none"
    BY <1>1, <1>8 DEF MarkReady, At, RunFits
  <2>2. RunSound(run) /\ Keeps(RunOf(p), run) /\ RunFits("record", run)
    BY <1>1, <2>1 DEF Run, RunSound, Keeps, RunFits, ClaimPcs
  <2>3. StageMoves(RunOf(p), run) /\ (Opened(run) => Opened(RunOf(p)) \/ pc = "openPr")
    BY <1>1, <2>1 DEF StageMoves, Stage, Opened, RunSound, Run, NoRun
  <2>4. CASE Change(o, i, run) /\ Goto(p, "record")
    BY <1>3, <2>2, <2>3, <2>4
  <2>5. CASE End(p) /\ UNCHANGED runs
    BY <1>1, <2>5, EndTo, RestFits DEF OwnRun
  <2> QED
    BY <1>8, <2>4, <2>5 DEF MarkReady
<1>9. CASE Record(p)
  <2> DEFINE run == [RunOf(p) EXCEPT !.child = "finalized"]
             to == IF p \in BatchProcs THEN "advance" ELSE "cleanup"
  <2>1. RunOf(p).child # "none"
    BY <1>1, <1>9 DEF Record, Advances, At, RunFits
  <2>2. RunSound(run) /\ Keeps(RunOf(p), run) /\ RunFits(to, run)
    BY <1>1, <2>1 DEF Run, RunSound, Keeps, RunFits, ClaimPcs
  <2>3. StageMoves(RunOf(p), run) /\ (Opened(run) => Opened(RunOf(p)) \/ pc = "openPr")
    BY <1>1, <2>1 DEF StageMoves, Stage, Opened, RunSound, Run, NoRun
  <2> QED
    BY <1>3, <1>9, <2>2, <2>3 DEF Record, Advances
<1>10. CASE Cleanup(p)
  <2> PICK left \in BOOLEAN : Change(o, i, [RunOf(p) EXCEPT !.worktree = @ /\ left])
    BY <1>10 DEF Cleanup
  <2> DEFINE kept == RunOf(p).worktree /\ left
             run == [RunOf(p) EXCEPT !.worktree = kept]
  <2>1. RunOf(p).child = "finalized" /\ kept \in BOOLEAN
    BY <1>1, <1>10 DEF Cleanup, At, RunFits
  <2> HIDE DEF kept
  <2>2. RunSound(run) /\ Keeps(RunOf(p), run)
    BY <1>1, <2>1 DEF Run, RunSound, Keeps
  <2>3. StageMoves(RunOf(p), run) /\ (Opened(run) => Opened(RunOf(p)))
    BY <1>1, <2>1 DEF Run, StageMoves, Stage, Opened
  <2>4. Change(o, i, run) /\ proc'[p].pc = "select"
    BY <1>1, <1>10, NextIssueTo DEF Cleanup, kept
  <2> QED
    BY <1>2, <2>2, <2>3, <2>4, RestFits DEF OwnRun, Extends
<1> QED
  BY <1>4, <1>5, <1>6, <1>7, <1>8, <1>9, <1>10

LEMMA OwnRunKept == ASSUME Inv, NEW p \in Procs, ProcStep(p) PROVE OwnRun(p)
  BY LookSteps, SelectSteps, RunWriteSteps DEF ProcStep, LoopStep

LEMMA RunsKept == ASSUME Inv, [Next]_vars, NEW p \in Procs, ProcStep(p) PROVE (RunsFit /\ RunsSound)'
<1>1. /\ TypeOK /\ OwnRun(p) /\ RunsFit /\ RunsSound
      /\ Owner(p) \in Owners /\ proc[p].issue \in Issues
  BY OwnRunKept, RunTypes DEF Inv, IInv, RunInv
<1>2. ASSUME NEW run, Extends(p, run)
      PROVE  /\ runs'[Owner(p)][proc[p].issue] = run
             /\ \A a \in Owners, j \in Issues :
                  a # Owner(p) \/ j # proc[p].issue => runs'[a][j] = runs[a][j]
  BY <1>1, <1>2, Changed DEF Extends
<1>3. ASSUME NEW q \in Procs PROVE RunFits(proc'[q].pc, runs'[Owner(q)][proc'[q].issue])
  <2>1. CASE q = p
    BY <1>1, <2>1 DEF OwnRun
  <2>2. CASE q # p
    <3>1. proc'[q] = proc[q] /\ RunFits(proc[q].pc, runs[Owner(q)][proc[q].issue])
      BY <1>1, <2>2, OthersStay DEF Inv, RunsFit, RunOf
    <3>2. CASE UNCHANGED runs
      BY <3>1, <3>2
    <3>3. CASE proc[p].pc \in WritePcs /\ \E run : Extends(p, run)
      <4> PICK run : Extends(p, run)
        BY <3>3
      <4>1. CASE Owner(q) = Owner(p) /\ proc[q].issue = proc[p].issue
        <5>1. Holds(p)
          BY <3>3 DEF Holds, WritePcs
        <5>2. proc[q].pc \in {"idle", "acquire"}
          BY <2>2, <4>1, <5>1, OthersRest DEF Inv
        <5> QED
          BY <3>1, <5>2, RestFits
      <4>2. CASE ~(Owner(q) = Owner(p) /\ proc[q].issue = proc[p].issue)
        <5>1. Owner(q) \in Owners /\ proc[q].issue \in Issues
          BY <1>1, RunTypes
        <5>2. runs'[Owner(q)][proc[q].issue] = runs[Owner(q)][proc[q].issue]
          BY <1>2, <4>2, <5>1
        <5> QED
          BY <3>1, <5>2
      <4> QED
        BY <4>1, <4>2
    <3> QED
      BY <1>1, <3>2, <3>3 DEF OwnRun
  <2> QED
    BY <2>1, <2>2
<1>4. ASSUME NEW o \in Owners, NEW i \in Issues PROVE RunSound(runs'[o][i])
  BY <1>1, <1>2 DEF OwnRun, Extends, RunsSound
<1> QED
  BY <1>3, <1>4 DEF RunsFit, RunsSound, RunOf

(* A checkpoint is never lost.                                             *)
ChildrenKept == \A o \in Owners, i \in Issues : Keeps(runs[o][i], runs'[o][i])

LEMMA ProcKeepsChildren ==
    ASSUME Inv, NEW p \in Procs, ProcStep(p) PROVE ChildrenKept
<1>1. TypeOK /\ OwnRun(p) /\ Owner(p) \in Owners /\ proc[p].issue \in Issues
  BY OwnRunKept, RunTypes DEF Inv, IInv
<1> QED
  BY <1>1, Changed DEF OwnRun, Extends, Keeps, RunOf, ChildrenKept

(* The review that a resumed batch starts has a checkpoint.                *)
LEMMA InspectStarts ==
    ASSUME Inv, NEW p \in Procs, InspectRow(p)
    PROVE  /\ p \in BatchProcs /\ Holds(p)
           /\ \/ UNCHANGED review
              \/ \E i \in Issues :
                   /\ review' = [review EXCEPT ![Batch][i] = [pc |-> "start", parent |-> TRUE]]
                   /\ RunLockFree(Batch, i) /\ runs[Batch][i].child # "none"
<1> DEFINE i == batch.cursor + 1
<1>1. p \in BatchProcs /\ Holds(p)
  BY DEF InspectRow, At, Inv, IInv, BatchKnown, Procs, BatchPcs, Holds
<1>2. batch # NoBatch /\ batch \in Batches /\ batch.cursor < N /\ ValidBatch(batch)
  BY <1>1 DEF InspectRow, At, Inv, IInv, TypeOK, BatchKnown, CursorHeld
<1>3. i \in Issues /\ AtCursor(batch, i)
  BY <1>2, NAssumption DEF Batches, Issues, AtCursor
<1>4. batch.rows[i].status \in {"pending", "active"}
  BY <1>2, <1>3 DEF ValidBatch
<1>5. \/ UNCHANGED review
      \/ /\ review' = [review EXCEPT ![Batch][i] = [pc |-> "start", parent |-> TRUE]]
         /\ RunLockFree(Batch, i) /\ batch.rows[i].child
  <2>1. CASE batch.rows[i].status = "pending"
    BY <2>1 DEF InspectRow
  <2>2. CASE batch.rows[i].status = "active" /\ ~batch.rows[i].child
    BY <2>2 DEF InspectRow
  <2>3. CASE batch.rows[i].status = "active" /\ batch.rows[i].child
    BY <2>3 DEF InspectRow
  <2> QED
    BY <1>4, <2>1, <2>2, <2>3
<1>6. batch.rows[i].child => runs[Batch][i].child # "none"
  BY <1>2, <1>3 DEF Inv, RunInv, RowsFit, RowFits
<1> QED
  BY <1>1, <1>3, <1>5, <1>6

LEMMA ProcReview ==
    ASSUME NEW p \in Procs, ProcStep(p) PROVE UNCHANGED review \/ InspectRow(p)
  BY DEF ProcStep, CreateBatch, ResumeBatch, StartQueue, Die, LoopStep, AcquireBatch,
         RecordChild, SelectInBatch, SelectInQueue, Activate, AddAssignee,
         VerifyClaim, Recheck, Rollback, Advances, Work, VerifyIssue, PushBranch,
         OpenPr, CreateCheckpoint, AcquireRun, Attach, MarkReady, Record, Advance, Cleanup

LEMMA ReviewsKept == ASSUME Inv, [Next]_vars, NEW p \in Procs, ProcStep(p) PROVE ReviewsFit'
<1> SUFFICES ASSUME NEW o \in Owners, NEW i \in Issues PROVE ReviewFits(o, i)'
  BY DEF ReviewsFit
<1>1. ReviewFits(o, i) /\ Keeps(runs[o][i], runs'[o][i]) /\ review \in [Owners -> [Issues -> Review]]
  BY ProcKeepsChildren DEF Inv, IInv, TypeOK, RunInv, ReviewsFit, ChildrenKept
<1>2. CASE review'[o][i] = review[o][i]
  BY <1>1, <1>2 DEF ReviewFits, Keeps
<1>3. CASE /\ o = Batch /\ review'[o][i] = [pc |-> "start", parent |-> TRUE]
           /\ runs[o][i].child # "none"
  BY <1>1, <1>3 DEF ReviewFits, Keeps
<1>4. CASE InspectRow(p)
  BY <1>1, <1>2, <1>3, <1>4, InspectStarts DEF Owners
<1> QED
  BY <1>2, <1>4, ProcReview

(* How a wrapper comes to a place where it works.                          *)
WorkPcs == RowPcs \cup LockedPcs

LEMMA WorkSteps ==
    ASSUME Inv, NEW p \in Procs, ProcStep(p), proc'[p].pc \in WorkPcs
    PROVE  /\ proc'[p].issue = proc[p].issue /\ UNCHANGED review
           /\ \/ Recheck(p) /\ proc'[p].pc = "work" /\ Ready(Owner(p), proc[p].issue)
              \/ /\ proc[p].pc \in {"work", "verifyIssue", "push", "openPr", "checkpoint"}
                 /\ proc'[p].pc \in {"verifyIssue", "push", "openPr", "checkpoint", "lock"}
                 /\ proc'[p].pc = "push" => Publishable(Owner(p), proc[p].issue)
                 /\ proc'[p].pc = "openPr" => proc[p].pc = "push"
                 /\ proc[p].pc = "checkpoint" => proc'[p].pc = "lock"
              \/ /\ proc[p].pc = "lock" /\ RunLockFree(Owner(p), proc[p].issue)
                 /\ proc'[p].pc = IF p \in BatchProcs THEN "attach" ELSE "review"
                 /\ proc'[p].locked = proc[p].locked \cup {proc[p].issue}
              \/ /\ proc[p].pc \in LockedPcs /\ proc'[p].pc \in {"review", "record"}
                 /\ proc'[p].locked = proc[p].locked
<1>1. TypeOK /\ proc[p] \in Proc
  BY DEF Inv, IInv, TypeOK
<1>2. /\ ~End(p) /\ ~NextIssue(p) /\ ~GiveUp(p) /\ ~ \E i : Choose(p, i)
      /\ \A pc : Goto(p, pc) => /\ pc = proc'[p].pc /\ proc'[p].issue = proc[p].issue
                                /\ proc'[p].locked = proc[p].locked
  BY <1>1, EndTo, NextIssueTo, ChooseTo, GotoTo DEF GiveUp, WorkPcs, RowPcs, LockedPcs
<1>3. CASE \/ CreateBatch(p) \/ ResumeBatch(p) \/ StartQueue(p) \/ Die(p) \/ AcquireBatch(p)
           \/ RecordChild(p) \/ Activate(p) \/ SelectInBatch(p) \/ SelectInQueue(p)
  BY <1>2, <1>3 DEF CreateBatch, ResumeBatch, StartQueue, Die, AcquireBatch, RecordChild,
                    Activate, SelectInBatch, SelectInQueue, WorkPcs, RowPcs, LockedPcs
<1>4. CASE InspectRow(p)
  <2>1. ~(proc' = [proc EXCEPT ![p].pc = "child", ![p].issue = batch.cursor + 1])
    BY <1>1 DEF TypeOK, Proc, WorkPcs, RowPcs, LockedPcs
  <2> QED
    BY <1>2, <1>4, <2>1 DEF InspectRow, WorkPcs, RowPcs, LockedPcs
<1>5. CASE AddAssignee(p) \/ VerifyClaim(p) \/ Rollback(p)
  BY <1>1, <1>2, <1>5, ExitTo DEF AddAssignee, VerifyClaim, Rollback, WorkPcs, RowPcs, LockedPcs
<1>6. CASE Recheck(p)
  <2>1. ~(proc' = [proc EXCEPT ![p].pc = "unready", ![p].exit = TRUE])
    BY <1>1, ExitTo DEF WorkPcs, RowPcs, LockedPcs
  <2>2. Goto(p, IF Ready(Owner(p), proc[p].issue) THEN "work" ELSE "unready")
    BY <1>6, <2>1 DEF Recheck
  <2> QED
    BY <1>2, <1>6, <2>2 DEF Recheck, WorkPcs, RowPcs, LockedPcs
<1>7. CASE \/ Work(p) \/ VerifyIssue(p) \/ PushBranch(p) \/ OpenPr(p) \/ CreateCheckpoint(p)
  <2>1. \/ proc[p].pc = "work" /\ Goto(p, "verifyIssue")
        \/ /\ proc[p].pc = "verifyIssue" /\ Goto(p, "push")
           /\ Publishable(Owner(p), proc[p].issue)
        \/ proc[p].pc = "push" /\ Goto(p, "openPr")
        \/ proc[p].pc = "openPr" /\ Goto(p, "checkpoint")
        \/ proc[p].pc = "checkpoint" /\ Goto(p, "lock")
    BY <1>2, <1>7 DEF Work, VerifyIssue, PushBranch, OpenPr, CreateCheckpoint, Advances, At
  <2>2. UNCHANGED review
    BY <1>7 DEF Work, VerifyIssue, PushBranch, OpenPr, CreateCheckpoint, Advances
  <2> QED
    BY <1>2, <2>1, <2>2
<1>8. CASE AcquireRun(p)
  BY <1>1, <1>2, <1>8, LockTo DEF AcquireRun, At
<1>9. CASE Attach(p) \/ MarkReady(p)
  <2>1. \/ proc[p].pc = "attach" /\ Goto(p, "review")
        \/ proc[p].pc = "review" /\ Goto(p, "record")
    BY <1>2, <1>9 DEF Attach, MarkReady, At
  <2>2. UNCHANGED review
    BY <1>9 DEF Attach, MarkReady
  <2> QED
    BY <1>2, <2>1, <2>2 DEF LockedPcs
<1>10. CASE Record(p) \/ Advance(p) \/ Cleanup(p)
  BY <1>2, <1>10 DEF Record, Advance, Cleanup, Advances, WorkPcs, RowPcs, LockedPcs
<1> QED
  BY <1>3, <1>4, <1>5, <1>6, <1>7, <1>8, <1>9, <1>10 DEF ProcStep, LoopStep

LEMMA LocksKept == ASSUME Inv, [Next]_vars, NEW p \in Procs, ProcStep(p) PROVE LocksHeld'
<1> SUFFICES ASSUME NEW q \in Procs, proc'[q].pc \in LockedPcs
             PROVE  /\ proc'[q].issue \in proc'[q].locked
                    /\ review'[Owner(q)][proc'[q].issue] = NoReview
  BY DEF LocksHeld
<1>1. /\ TypeOK /\ Owner(q) \in Owners /\ proc[q].issue \in Issues
      /\ review \in [Owners -> [Issues -> Review]]
  BY RunTypes DEF Inv, IInv, TypeOK
<1>2. CASE q = p
  <2>1. proc'[p].issue = proc[p].issue /\ UNCHANGED review /\ proc'[p].pc \in WorkPcs
    BY <1>2, WorkSteps DEF WorkPcs
  <2>2. CASE /\ RunLockFree(Owner(p), proc[p].issue)
             /\ proc'[p].locked = proc[p].locked \cup {proc[p].issue}
    <3>1. ReviewFits(Owner(p), proc[p].issue)
      BY <1>1, <1>2 DEF Inv, RunInv, ReviewsFit
    <3> QED
      BY <1>2, <2>1, <2>2, <3>1 DEF RunLockFree, ReviewFits
  <2>3. CASE proc[p].pc \in LockedPcs /\ proc'[p].locked = proc[p].locked
    BY <1>2, <2>1, <2>3 DEF Inv, RunInv, LocksHeld
  <2> QED
    BY <1>2, <2>1, <2>2, <2>3, WorkSteps DEF LockedPcs
<1>3. CASE q # p
  <2>1. /\ proc'[q] = proc[q] /\ proc[q].issue \in proc[q].locked
        /\ review[Owner(q)][proc[q].issue] = NoReview
    BY <1>3, OthersStay DEF Inv, RunInv, LocksHeld
  <2>2. CASE UNCHANGED review
    BY <2>1, <2>2
  <2>3. CASE InspectRow(p)
    <3>1. Owner(q) # Batch
      BY <1>3, <2>1, <2>3, InspectStarts, OthersRest, OwnerType DEF LockedPcs, Inv
    <3> QED
      BY <1>1, <2>1, <2>3, <3>1, InspectStarts DEF Owners
  <2> QED
    BY <2>2, <2>3, ProcReview
<1> QED
  BY <1>2, <1>3

LEMMA RowsWorkedKept == ASSUME Inv, [Next]_vars, NEW p \in Procs, ProcStep(p) PROVE RowsWorked'
<1> SUFFICES ASSUME NEW q \in BatchProcs, proc'[q].pc \in RowPcs
             PROVE  /\ batch' # NoBatch /\ proc'[q].issue = batch'.cursor + 1
                    /\ batch'.rows[proc'[q].issue].status = "active"
                    /\ ~batch'.rows[proc'[q].issue].child
  BY DEF RowsWorked, AtRow
<1>1. q \in Procs /\ proc'[q].pc \in WorkPcs
  BY DEF Procs, WorkPcs
<1>2. CASE q = p
  <2>1. /\ proc'[q].issue = proc[q].issue
        /\ proc[q].pc \in ClaimPcs \/ (proc[q].pc \in RowPcs /\ proc[q].pc # "attach")
    BY <1>1, <1>2, WorkSteps DEF Recheck, At, ClaimPcs, RowPcs, LockedPcs
  <2>2. AtRow(proc[q].issue, "active")
    BY <2>1 DEF Inv, BailInv, ClaimedRows, RunInv, RowsWorked
  <2>3. UNCHANGED batch
    BY <2>1, BatchStays DEF Inv, Holds, ClaimPcs, RowPcs
  <2> QED
    BY <2>1, <2>2, <2>3 DEF AtRow
<1>3. CASE q # p
  <2>1. proc'[q] = proc[q]
    BY <1>1, <1>3, OthersStay DEF Inv
  <2>2. AtRow(proc[q].issue, "active")
    BY <2>1 DEF Inv, RunInv, RowsWorked
  <2>3. UNCHANGED batch
    <3>1. Holds(q) /\ batch # NoBatch
      BY <2>1, <2>2 DEF Holds, RowPcs, AtRow
    <3>2. ~Writes(p)
      BY <1>3, <3>1, WritesRow DEF Inv, IInv, OneHolder
    <3>3. ~CreateBatch(p)
      BY <3>1 DEF CreateBatch
    <3> QED
      BY <3>2, <3>3
         DEF ProcStep, Writes, ResumeBatch, StartQueue, LoopStep, Die, AcquireBatch, InspectRow,
             SelectInBatch, SelectInQueue, AddAssignee, VerifyClaim, Recheck, Rollback,
             Advances, Work, VerifyIssue, PushBranch, OpenPr, CreateCheckpoint, AcquireRun,
             MarkReady, Record, Cleanup
  <2> QED
    BY <2>1, <2>2, <2>3 DEF AtRow
<1> QED
  BY <1>2, <1>3

(* A row that is not touched, or that a write settles, says no more of its *)
(* run than before.                                                        *)
LEMMA UpdateFits ==
    ASSUME Inv, [Next]_vars, ChildrenKept, batch \in Batches, RowsFit, NEW i \in Issues,
           NEW s \in {"active", "finalized", "bailed"}, NEW a \in BOOLEAN,
           a => runs[Batch][i].child # "none",
           batch' = UpdateBatch(batch, i, s, a),
           \A j \in Issues \ {i} : batch.rows[j].status = "pending" => runs'[Batch][j] = NoRun
    PROVE  RowsFit'
<1>1. batch # NoBatch /\ Batch \in Owners
  BY NoBatchAssumption DEF Owners
<1>2. \A j \in Issues : Keeps(runs[Batch][j], runs'[Batch][j]) /\ RowFits(j)
  BY <1>1 DEF ChildrenKept, RowsFit
<1>3. ASSUME NEW j \in Issues \ {i}
      PROVE  batch'.rows[j] = batch.rows[j]
  BY <1>3 DEF UpdateBatch, Batches
<1>4. batch'.rows[i].status = s /\ (batch'.rows[i].child => batch.rows[i].child \/ a)
  BY DEF UpdateBatch, Batches
<1>5. ASSUME NEW j \in Issues
      PROVE  /\ batch'.rows[j].status = "pending" => runs'[Batch][j] = NoRun
             /\ batch'.rows[j].child => runs'[Batch][j].child # "none"
  <2>1. CASE j = i
    BY <1>2, <1>4, <2>1 DEF RowFits, Keeps
  <2>2. CASE j # i
    BY <1>2, <1>3, <2>2 DEF RowFits, Keeps
  <2> QED
    BY <2>1, <2>2
<1> QED
  BY <1>5 DEF RowsFit, RowFits

LEMMA RowsFitKept == ASSUME Inv, [Next]_vars, NEW p \in Procs, ProcStep(p) PROVE RowsFit'
<1>1. /\ TypeOK /\ OwnRun(p) /\ ChildrenKept /\ RowsFit /\ Batch \in Owners
      /\ Owner(p) \in Owners /\ proc[p].issue \in Issues
      /\ batch # NoBatch => batch \in Batches
  BY OwnRunKept, ProcKeepsChildren, RunTypes DEF Inv, IInv, TypeOK, RunInv, Owners
<1>2. CASE CreateBatch(p)
  <2>1. batch = NoBatch /\ batch' = NewBatch /\ UNCHANGED runs
    BY <1>2 DEF CreateBatch
  <2>2. \A i \in Issues : runs[Batch][i] = NoRun
    BY <2>1 DEF Inv, IInv, IssuesReached, Reached
  <2> QED
    BY <2>1, <2>2 DEF RowsFit, RowFits, NewBatch
<1>3. CASE Writes(p)
  <2>1. UNCHANGED runs /\ p \in BatchProcs /\ batch # NoBatch
    BY <1>3, WritesRow DEF Inv, Writes, RecordChild, Activate, Attach, Advance
  <2>2. CASE UNCHANGED batch
    BY <1>1, <2>1, <2>2 DEF RowsFit, RowFits
  <2>3. CASE batch' # batch
    <3>1. PICK s \in {"active", "finalized", "bailed"}, a \in BOOLEAN :
            /\ batch' = UpdateBatch(batch, proc[p].issue, s, a)
            /\ a => proc[p].pc = "attach"
      BY <1>3, <2>3 DEF Writes, RecordChild, Activate, Attach, Advance, At
    <3>2. a => runs[Batch][proc[p].issue].child # "none"
      BY <2>1, <3>1, OwnerType DEF Inv, RunInv, RunsFit, RunFits, RunOf
    <3>3. \A j \in Issues : batch.rows[j].status = "pending" => runs'[Batch][j] = NoRun
      BY <1>1, <2>1 DEF RowsFit, RowFits
    <3> QED
      BY <1>1, <2>1, <3>1, <3>2, <3>3, UpdateFits
  <2> QED
    BY <2>2, <2>3
<1>4. CASE UNCHANGED batch
  <2> SUFFICES ASSUME batch # NoBatch, NEW i \in Issues
               PROVE  /\ batch.rows[i].status = "pending" => runs'[Batch][i] = NoRun
                      /\ batch.rows[i].child => runs'[Batch][i].child # "none"
    BY <1>4 DEF RowsFit, RowFits
  <2>1. RowFits(i) /\ Keeps(runs[Batch][i], runs'[Batch][i])
    BY <1>1 DEF RowsFit, ChildrenKept
  <2>2. ASSUME batch.rows[i].status = "pending", runs'[Batch][i] # NoRun PROVE FALSE
    <3>1. runs[Batch][i] = NoRun
      BY <2>1, <2>2 DEF RowFits
    <3>2. proc[p].pc \in WritePcs /\ Owner(p) = Batch /\ proc[p].issue = i
      BY <1>1, <2>2, <3>1, Changed DEF OwnRun, Extends
    <3>3. p \in BatchProcs /\ RunOf(p) = NoRun /\ RunFits(proc[p].pc, RunOf(p))
      BY <3>1, <3>2, OwnerType DEF RunOf, Inv, RunInv, RunsFit
    <3>4. proc[p].pc = "work"
      BY <3>2, <3>3 DEF RunFits, NoRun, WritePcs
    <3> QED
      BY <2>2, <3>2, <3>3, <3>4 DEF Inv, RunInv, RowsWorked, RowPcs, AtRow
  <2> QED
    BY <2>1, <2>2 DEF RowFits, Keeps
<1>5. UNCHANGED batch \/ CreateBatch(p) \/ Writes(p)
  BY DEF ProcStep, Writes, ResumeBatch, StartQueue, LoopStep, Die, AcquireBatch, InspectRow,
         SelectInBatch, SelectInQueue, AddAssignee, VerifyClaim, Recheck, Rollback,
         Advances, Work, VerifyIssue, PushBranch, OpenPr, CreateCheckpoint, AcquireRun,
         MarkReady, Record, Cleanup
<1> QED
  BY <1>2, <1>3, <1>4, <1>5

(* How a loop over the ready queue moves.                                  *)
LEMMA QueueSteps ==
    ASSUME Inv, NEW p \in QueueProcs, ProcStep(p)
    PROVE  \/ proc'[p].pc = "ended"
           \/ /\ proc[p].pc # "ended" /\ proc'[p].pc # "idle"
              /\ proc[p].processed \subseteq proc'[p].processed
              /\ \/ proc'[p].pc = "select"
                 \/ proc'[p].issue \in proc'[p].processed
<1>1. TypeOK /\ p \in Procs /\ proc[p] \in Proc /\ p \notin BatchProcs
  BY IssueLoopAssumption DEF Inv, IInv, TypeOK, Procs
<1>2. /\ End(p) => proc'[p].pc = "ended"
      /\ NextIssue(p) => proc'[p].pc = "select" /\ proc'[p].processed = proc[p].processed
      /\ \A pc : Goto(p, pc) => /\ proc'[p].pc = pc /\ proc'[p].issue = proc[p].issue
                                /\ proc'[p].processed = proc[p].processed
  BY <1>1, EndTo, NextIssueTo, GotoTo
<1>3. proc[p].pc \notin {"idle", "select", "ended"} => proc[p].issue \in proc[p].processed
  BY DEF Inv, RunInv, QueuesFit, QueueFits
<1>4. proc[p].pc \notin BatchPcs
  BY DEF Inv, IInv, BatchKnown
<1>5. CASE StartQueue(p) \/ Die(p)
  BY <1>2, <1>5 DEF StartQueue, Die, At
<1>6. CASE SelectInQueue(p)
  BY <1>1, <1>2, <1>6, ChooseTo DEF SelectInQueue, At
<1>7. CASE AddAssignee(p) \/ VerifyClaim(p) \/ Recheck(p) \/ Rollback(p)
  <2>1. proc[p].pc \in ClaimPcs
    BY <1>7 DEF AddAssignee, VerifyClaim, Recheck, Rollback, At, ClaimPcs
  <2>2. \/ End(p) \/ NextIssue(p) \/ \E pc \in ClaimPcs \cup {"work"} : Goto(p, pc)
        \/ \E pc \in {"unclaim", "unready"} :
             proc' = [proc EXCEPT ![p].pc = pc, ![p].exit = TRUE]
    BY <1>7 DEF AddAssignee, VerifyClaim, Recheck, Rollback, GiveUp, ClaimPcs
  <2>3. ASSUME NEW pc \in {"unclaim", "unready"},
               proc' = [proc EXCEPT ![p].pc = pc, ![p].exit = TRUE]
        PROVE  /\ proc'[p].pc = pc /\ proc'[p].issue = proc[p].issue
               /\ proc'[p].processed = proc[p].processed
    BY <1>1, <2>3, ExitTo
  <2> QED
    BY <1>2, <1>3, <2>1, <2>2, <2>3 DEF ClaimPcs
<1>8. CASE \/ Work(p) \/ VerifyIssue(p) \/ PushBranch(p) \/ OpenPr(p) \/ CreateCheckpoint(p)
           \/ MarkReady(p) \/ Record(p) \/ Cleanup(p)
  <2>1. proc[p].pc \notin {"idle", "select", "ended"}
    BY <1>8 DEF Work, VerifyIssue, PushBranch, OpenPr, CreateCheckpoint, MarkReady, Record,
                Cleanup, Advances, At
  <2>2. \/ End(p) \/ NextIssue(p)
        \/ \E pc \in {"verifyIssue", "push", "openPr", "checkpoint", "lock", "record",
                      "advance", "cleanup"} : Goto(p, pc)
    BY <1>8 DEF Work, VerifyIssue, PushBranch, OpenPr, CreateCheckpoint, MarkReady, Record,
                Cleanup, Advances
  <2> QED
    BY <1>2, <1>3, <2>1, <2>2
<1>9. CASE AcquireRun(p)
  BY <1>1, <1>2, <1>3, <1>9, LockTo DEF AcquireRun, At
<1>10. ~(\/ CreateBatch(p) \/ ResumeBatch(p) \/ AcquireBatch(p) \/ InspectRow(p)
         \/ RecordChild(p) \/ SelectInBatch(p) \/ Activate(p) \/ Attach(p) \/ Advance(p))
  BY <1>1, <1>4 DEF CreateBatch, ResumeBatch, AcquireBatch, InspectRow, RecordChild,
                    SelectInBatch, Activate, Attach, Advance, At, BatchPcs
<1> QED
  BY <1>5, <1>6, <1>7, <1>8, <1>9, <1>10 DEF ProcStep, LoopStep

LEMMA QueuesKept == ASSUME Inv, [Next]_vars, NEW p \in Procs, ProcStep(p) PROVE QueuesFit'
<1> SUFFICES ASSUME NEW q \in QueueProcs
             PROVE  /\ proc'[q].pc \notin {"idle", "select", "ended"} =>
                          proc'[q].issue \in proc'[q].processed
                    /\ \A i \in Issues : runs'[q][i] # NoRun =>
                          \/ proc'[q].pc = "ended"
                          \/ proc'[q].pc # "idle" /\ i \in proc'[q].processed
  BY DEF QueuesFit, QueueFits
<1>1. /\ TypeOK /\ OwnRun(p) /\ q \in Procs /\ q \in Owners /\ q # Batch /\ Owner(q) = q
      /\ Owner(p) \in Owners /\ proc[p].issue \in Issues /\ QueueFits(q)
  BY OwnRunKept, RunTypes, IssueLoopAssumption
     DEF Inv, IInv, RunInv, QueuesFit, Procs, Owners, Owner
<1>2. Owner(p) = q => p = q
  BY <1>1 DEF Owner
<1>3. CASE q # p
  <2>1. proc'[q] = proc[q] /\ \A i \in Issues : runs'[q][i] = runs[q][i]
    BY <1>1, <1>2, <1>3, OthersStay, Changed DEF OwnRun, Extends, Inv
  <2> QED
    BY <1>1, <2>1 DEF QueueFits
<1>4. CASE q = p
  <2>1. ASSUME NEW i \in Issues, runs'[q][i] # runs[q][i] PROVE i \in proc[q].processed
    BY <1>1, <1>4, <2>1, Changed DEF OwnRun, Extends, QueueFits, WritePcs
  <2> QED
    BY <1>1, <1>4, <2>1, QueueSteps DEF QueueFits
<1> QED
  BY <1>3, <1>4

(* What a resumed review does to the run it is about.                      *)
LEMMA ReviewOwn ==
    ASSUME Inv, NEW o \in Owners, NEW i \in Issues, ReviewProcStep(o, i)
    PROVE  /\ runs[o][i].child # "none" /\ UNCHANGED <<batch, assignees>>
           /\ review[o][i].pc # "none" \/ RunLockFree(o, i)
           /\ \/ UNCHANGED runs
              \/ \E run : /\ Change(o, i, run) /\ RunSound(run) /\ Keeps(runs[o][i], run)
                         /\ StageMoves(runs[o][i], run) /\ (Opened(run) => Opened(runs[o][i]))
           /\ ReviewFits(o, i)'
           /\ \A a \in Owners, j \in Issues : a # o \/ j # i => review'[a][j] = review[a][j]
           /\ \/ UNCHANGED proc
              \/ \E ok : Exit(o, i, ok) /\ (ok => runs'[o][i].child = "finalized")
<1> DEFINE r == runs[o][i]
<1>1. /\ TypeOK /\ ReviewFits(o, i) /\ RunSound(r) /\ r \in Run /\ review[o][i] \in Review
      /\ review \in [Owners -> [Issues -> Review]] /\ Batch \in Owners
  BY RunTypes DEF Inv, IInv, TypeOK, RunInv, ReviewsFit, RunsSound, Owners
<1>2. ASSUME NEW pc, review' = [review EXCEPT ![o][i].pc = pc]
      PROVE  /\ review'[o][i].pc = pc /\ review'[o][i].parent = review[o][i].parent
             /\ \A a \in Owners, j \in Issues : a # o \/ j # i => review'[a][j] = review[a][j]
  BY <1>1, <1>2 DEF Review
<1>3. ASSUME NEW new \in Review, review' = [review EXCEPT ![o][i] = new]
      PROVE  /\ review'[o][i] = new
             /\ \A a \in Owners, j \in Issues : a # o \/ j # i => review'[a][j] = review[a][j]
  BY <1>1, <1>3
<1>4. NoReview \in Review /\ [pc |-> "start", parent |-> FALSE] \in Review
  BY DEF NoReview, Review
<1>5. CASE ResumeRun(o, i)
  BY <1>1, <1>3, <1>4, <1>5 DEF ResumeRun, ReviewFits, hostVars
<1>6. ASSUME NEW ok, Exit(o, i, ok)
      PROVE  /\ ReviewFits(o, i)'
             /\ \A a \in Owners, j \in Issues : a # o \/ j # i => review'[a][j] = review[a][j]
  <2>1. /\ review'[o][i] = NoReview
        /\ \A a \in Owners, j \in Issues : a # o \/ j # i => review'[a][j] = review[a][j]
    BY <1>3, <1>4, <1>6 DEF Exit
  <2> QED
    BY <2>1 DEF ReviewFits, NoReview
<1>7. CASE ResumeStart(o, i)
  <2>1. r.child # "none" /\ UNCHANGED <<runs, batch, assignees>> /\ review[o][i].pc # "none"
    BY <1>1, <1>7 DEF ResumeStart, Reviewing, ReviewFits, hostVars
  <2>2. \/ Exit(o, i, FALSE)
        \/ ReviewGoto(o, i, "review")
        \/ r.child = "finalized" /\ ReviewGoto(o, i, "cleanup")
    BY <1>1, <1>7, <2>1 DEF ResumeStart, Run
  <2>3. ASSUME NEW pc \in {"review", "cleanup"}, pc = "cleanup" => r.child = "finalized",
               ReviewGoto(o, i, pc)
        PROVE  /\ ReviewFits(o, i)' /\ UNCHANGED proc
               /\ \A a \in Owners, j \in Issues : a # o \/ j # i => review'[a][j] = review[a][j]
    BY <1>1, <1>2, <2>1, <2>3 DEF ReviewGoto, ReviewFits
  <2> QED
    BY <1>6, <2>1, <2>2, <2>3
<1>8. CASE ResumeReady(o, i)
  <2>1. r.child # "none" /\ UNCHANGED <<batch, assignees>> /\ review[o][i].pc # "none"
    BY <1>1, <1>8 DEF ResumeReady, Reviewing, ReviewFits, hostVars
  <2>2. \/ Change(o, i, [r EXCEPT !.pr = "ready"]) /\ ReviewGoto(o, i, "record")
        \/ Change(o, i, [r EXCEPT !.pr = "draft"]) /\ Exit(o, i, FALSE)
    BY <1>8 DEF ResumeReady
  <2>3. ASSUME NEW pr \in {"ready", "draft"}, Change(o, i, [r EXCEPT !.pr = pr])
        PROVE  /\ RunSound([r EXCEPT !.pr = pr]) /\ Keeps(r, [r EXCEPT !.pr = pr])
               /\ runs'[o][i].child = r.child /\ StageMoves(r, [r EXCEPT !.pr = pr])
               /\ Opened(r)
    BY <1>1, <2>1, <2>3, Changed DEF Run, RunSound, Keeps, StageMoves, Stage, Opened
  <2>4. CASE Change(o, i, [r EXCEPT !.pr = "ready"]) /\ ReviewGoto(o, i, "record")
    BY <1>1, <1>2, <2>1, <2>3, <2>4 DEF ReviewGoto, ReviewFits
  <2>5. CASE Change(o, i, [r EXCEPT !.pr = "draft"]) /\ Exit(o, i, FALSE)
    BY <1>6, <2>1, <2>3, <2>5
  <2> QED
    BY <2>2, <2>4, <2>5
<1>9. CASE ResumeRecord(o, i)
  <2>1. r.child # "none" /\ UNCHANGED <<batch, assignees>> /\ review[o][i].pc # "none"
    BY <1>1, <1>9 DEF ResumeRecord, Reviewing, ReviewFits, hostVars
  <2>2. Change(o, i, [r EXCEPT !.child = "finalized"]) /\ ReviewGoto(o, i, "cleanup")
    BY <1>9 DEF ResumeRecord
  <2>3. /\ RunSound([r EXCEPT !.child = "finalized"]) /\ Keeps(r, [r EXCEPT !.child = "finalized"])
        /\ runs'[o][i].child = "finalized" /\ StageMoves(r, [r EXCEPT !.child = "finalized"])
        /\ Opened(r)
    BY <1>1, <2>1, <2>2, Changed DEF Run, RunSound, Keeps, StageMoves, Stage, Opened
  <2> QED
    BY <1>1, <1>2, <2>1, <2>2, <2>3 DEF ReviewGoto, ReviewFits
<1>10. CASE ResumeCleanup(o, i)
  <2> DEFINE kept == r.worktree /\ review[o][i].parent
             run == [r EXCEPT !.worktree = kept]
  <2>1. r.child = "finalized" /\ UNCHANGED <<batch, assignees>> /\ review[o][i].pc # "none"
    BY <1>1, <1>10 DEF ResumeCleanup, Reviewing, ReviewFits, hostVars
  <2>2. Change(o, i, run) /\ Exit(o, i, TRUE)
    BY <1>10 DEF ResumeCleanup
  <2> HIDE DEF kept
  <2>3. /\ RunSound(run) /\ Keeps(r, run) /\ runs'[o][i].child = "finalized"
        /\ StageMoves(r, run) /\ Opened(r)
    BY <1>1, <2>1, <2>2, Changed DEF Run, RunSound, Keeps, StageMoves, Stage, Opened
  <2> QED
    BY <1>6, <2>1, <2>2, <2>3
<1>11. CASE ReviewDies(o, i)
  BY <1>1, <1>6, <1>11 DEF ReviewDies, Reviewing, ReviewFits, hostVars
<1> QED
  BY <1>5, <1>7, <1>8, <1>9, <1>10, <1>11 DEF ReviewProcStep, ReviewStep

LEMMA ReviewKeepsRuns ==
    ASSUME Inv, [Next]_vars, NEW o \in Owners, NEW i \in Issues, ReviewProcStep(o, i)
    PROVE  RunInv'
<1>1. /\ TypeOK /\ RunsFit /\ RunsSound /\ ReviewsFit /\ LocksHeld /\ RowsWorked /\ RowsFit
      /\ QueuesFit /\ Batch \in Owners
  BY DEF Inv, IInv, RunInv, Owners
<1>2. /\ runs[o][i].child # "none" /\ UNCHANGED batch
      /\ review[o][i].pc # "none" \/ RunLockFree(o, i)
      /\ ReviewFits(o, i)'
      /\ \A a \in Owners, j \in Issues : a # o \/ j # i => review'[a][j] = review[a][j]
  BY ReviewOwn
<1>3. /\ \A a \in Owners, j \in Issues :
           /\ runs'[a][j] # runs[a][j] => a = o /\ j = i
           /\ RunSound(runs'[a][j]) /\ Keeps(runs[a][j], runs'[a][j])
  BY <1>1, ReviewOwn, Changed DEF RunsSound, Keeps
<1>4. ASSUME NEW p \in Procs
      PROVE  /\ Owner(p) \in Owners /\ proc[p].issue \in Issues /\ proc[p] \in Proc
             /\ RunFits(proc[p].pc, runs[Owner(p)][proc[p].issue])
  BY <1>1, RunTypes DEF RunsFit, RunOf
<1>5. ASSUME NEW p \in Procs
      PROVE  \/ proc'[p] = proc[p]
             \/ p \in BatchProcs /\ proc'[p].pc = "idle"
             \/ /\ p \in BatchProcs /\ proc'[p].pc = "childDone"
                /\ runs'[Owner(p)][proc'[p].issue].child = "finalized"
  <2>1. ASSUME NEW ok, Exit(o, i, ok), ok => runs'[o][i].child = "finalized",
               proc'[p] # proc[p]
        PROVE  \/ p \in BatchProcs /\ proc'[p].pc = "idle"
               \/ /\ p \in BatchProcs /\ proc'[p].pc = "childDone"
                  /\ runs'[Owner(p)][proc'[p].issue].child = "finalized"
    <3>1. /\ p \in BatchProcs /\ review[o][i].parent /\ proc[p].issue = i
          /\ proc'[p] = IF ok THEN [proc[p] EXCEPT !.pc = "childDone"] ELSE Ended(p)
      BY <2>1 DEF Exit
    <3>2. Owner(p) = o
      BY <1>1, <3>1, OwnerType DEF ReviewsFit, ReviewFits
    <3> QED
      BY <1>4, <2>1, <3>1, <3>2 DEF Ended, NewProc, Proc
  <2> QED
    BY <2>1, ReviewOwn
<1>6. RunsFit'
  <2> SUFFICES ASSUME NEW p \in Procs
               PROVE  RunFits(proc'[p].pc, runs'[Owner(p)][proc'[p].issue])
    BY DEF RunsFit, RunOf
  <2>1. CASE proc'[p] = proc[p]
    <3>1. CASE runs'[Owner(p)][proc[p].issue] = runs[Owner(p)][proc[p].issue]
      BY <1>4, <2>1, <3>1
    <3>2. CASE Owner(p) = o /\ proc[p].issue = i
      BY <1>2, <1>3, <1>4, <2>1, <3>2 DEF RunFits, Keeps, NoRun
    <3> QED
      BY <1>3, <1>4, <3>1, <3>2
  <2>2. CASE proc'[p].pc = "idle"
    BY <2>2, RestFits
  <2>3. CASE proc'[p].pc = "childDone" /\ runs'[Owner(p)][proc'[p].issue].child = "finalized"
    BY <2>3 DEF RunFits, ClaimPcs
  <2> QED
    BY <1>5, <2>1, <2>2, <2>3
<1>7. RunsSound'
  BY <1>3 DEF RunsSound
<1>8. ReviewsFit'
  <2> SUFFICES ASSUME NEW a \in Owners, NEW j \in Issues PROVE ReviewFits(a, j)'
    BY DEF ReviewsFit
  <2>1. CASE a = o /\ j = i
    BY <1>2, <2>1
  <2>2. CASE a # o \/ j # i
    BY <1>1, <1>2, <1>3, <2>2 DEF ReviewsFit, ReviewFits
  <2> QED
    BY <2>1, <2>2
<1>9. LocksHeld'
  <2> SUFFICES ASSUME NEW p \in Procs, proc'[p].pc \in LockedPcs
               PROVE  /\ proc'[p].issue \in proc'[p].locked
                      /\ review'[Owner(p)][proc'[p].issue] = NoReview
    BY DEF LocksHeld
  <2>1. proc'[p] = proc[p]
    BY <1>5 DEF LockedPcs
  <2>2. proc[p].issue \in proc[p].locked /\ review[Owner(p)][proc[p].issue] = NoReview
    BY <1>1, <2>1 DEF LocksHeld
  <2>3. ~(Owner(p) = o /\ proc[p].issue = i)
    BY <1>2, <2>2 DEF RunLockFree, NoReview
  <2> QED
    BY <1>2, <1>4, <2>1, <2>2, <2>3
<1>10. RowsWorked'
  <2>1. \A p \in BatchProcs : proc'[p].pc \in RowPcs => proc'[p] = proc[p]
    BY <1>5 DEF RowPcs, Procs
  <2> QED
    BY <1>1, <1>2, <2>1 DEF RowsWorked, AtRow
<1>11. RowsFit'
  <2> SUFFICES ASSUME batch # NoBatch, NEW j \in Issues
               PROVE  /\ batch.rows[j].status = "pending" => runs'[Batch][j] = NoRun
                      /\ batch.rows[j].child => runs'[Batch][j].child # "none"
    BY <1>2 DEF RowsFit, RowFits
  <2> QED
    BY <1>1, <1>2, <1>3 DEF RowsFit, RowFits, Keeps, NoRun
<1>12. QueuesFit'
  <2> SUFFICES ASSUME NEW q \in QueueProcs
               PROVE  /\ proc'[q].pc \notin {"idle", "select", "ended"} =>
                            proc'[q].issue \in proc'[q].processed
                      /\ \A j \in Issues : runs'[q][j] # NoRun =>
                            \/ proc'[q].pc = "ended"
                            \/ proc'[q].pc # "idle" /\ j \in proc'[q].processed
    BY DEF QueuesFit, QueueFits
  <2>1. q \in Procs /\ q \notin BatchProcs /\ q \in Owners
    BY IssueLoopAssumption DEF Procs, Owners
  <2>2. proc'[q] = proc[q] /\ QueueFits(q)
    BY <1>1, <1>5, <2>1 DEF QueuesFit
  <2>3. \A j \in Issues : runs'[q][j] # NoRun => runs[q][j] # NoRun
    BY <1>2, <1>3, <2>1 DEF NoRun
  <2> QED
    BY <2>2, <2>3 DEF QueueFits
<1> QED
  BY <1>6, <1>7, <1>8, <1>9, <1>10, <1>11, <1>12 DEF RunInv

LEMMA OperatorKeepsRuns ==
    ASSUME Inv, [Next]_vars, OperatorStep PROVE RunInv'
<1>1. UNCHANGED <<proc, runs, review>>
  BY DEF OperatorStep, Bail, ChangeIssue, ChangeAssignee
<1>2. /\ RunsFit /\ RunsSound /\ ReviewsFit /\ LocksHeld /\ RowsWorked /\ RowsFit /\ QueuesFit
  BY DEF Inv, RunInv
<1>3. RunsFit' /\ RunsSound' /\ ReviewsFit' /\ LocksHeld' /\ QueuesFit'
  BY <1>1, <1>2 DEF RunsFit, RunOf, RunsSound, ReviewsFit, ReviewFits, LocksHeld, QueuesFit,
                    QueueFits
<1>4. CASE UNCHANGED batch
  <2>1. RowsWorked' /\ RowsFit'
    BY <1>1, <1>2, <1>4 DEF RowsWorked, AtRow, RowsFit, RowFits
  <2> QED
    BY <1>3, <2>1 DEF RunInv
<1>5. ASSUME NEW i \in Issues, NEW e \in {"pending", "active"}, Bail(i, e)
      PROVE  RowsWorked' /\ RowsFit'
  <2>1. batch # NoBatch /\ batch \in Batches /\ batch' = UpdateBatch(batch, i, "bailed", FALSE)
    BY <1>5, BailRow DEF Inv
  <2>2. \A p \in BatchProcs : proc[p].pc \in {"idle", "acquire"}
    BY <1>5 DEF Bail, BatchLockFree
  <2>3. RowsWorked'
    BY <1>1, <2>2 DEF RowsWorked, RowPcs
  <2>4. ChildrenKept
    BY <1>1 DEF ChildrenKept, Keeps
  <2>5. \A j \in Issues : batch.rows[j].status = "pending" => runs'[Batch][j] = NoRun
    BY <1>1, <1>2, <2>1 DEF RowsFit, RowFits
  <2>6. RowsFit'
    BY <1>2, <2>1, <2>4, <2>5, UpdateFits
  <2> QED
    BY <2>3, <2>6
<1>6. UNCHANGED batch \/ \E i \in Issues, e \in {"pending", "active"} : Bail(i, e)
  BY DEF OperatorStep, ChangeIssue, ChangeAssignee
<1> QED
  BY <1>3, <1>4, <1>5, <1>6 DEF RunInv

LEMMA RunInvKept == ASSUME Inv, [Next]_vars PROVE RunInv'
<1>1. ASSUME NEW p \in Procs, ProcStep(p) PROVE RunInv'
  BY <1>1, RunsKept, ReviewsKept, LocksKept, RowsWorkedKept, RowsFitKept, QueuesKept DEF RunInv
<1>2. CASE UNCHANGED vars
  BY <1>2 DEF vars, Inv, RunInv, RunsFit, RunOf, RunsSound, ReviewsFit, ReviewFits, LocksHeld,
              RowsWorked, AtRow, RowsFit, RowFits, QueuesFit, QueueFits
<1> QED
  BY <1>1, <1>2, ByActor, ReviewKeepsRuns, OperatorKeepsRuns

LEMMA InitRuns == Init => RunInv
<1> SUFFICES ASSUME Init PROVE RunInv
  OBVIOUS
<1>1. \A p \in Procs : proc[p].pc = "idle"
  BY DEF Init, NewProc
<1>2. \A o \in Owners, i \in Issues : runs[o][i] = NoRun /\ review[o][i] = NoReview
  BY DEF Init
<1>3. RunsFit /\ LocksHeld /\ RowsWorked
  BY <1>1 DEF RunsFit, RunFits, ClaimPcs, LocksHeld, LockedPcs, RowsWorked, RowPcs, Procs
<1>4. RunsSound /\ ReviewsFit /\ RowsFit
  BY <1>2 DEF Init, RunsSound, RunSound, ReviewsFit, ReviewFits, NoRun, NoReview, RowsFit
<1>5. QueuesFit
  BY <1>1, <1>2 DEF QueuesFit, QueueFits, Procs, Owners
<1> QED
  BY <1>3, <1>4, <1>5 DEF RunInv

LEMMA InvKept == Inv /\ [Next]_vars => Inv'
  BY NextInv, ChildRowsKept, ClaimedRowsKept, OffersQuietKept, RunInvKept DEF Inv, BailInv

(* What every wrapper, row and review knows of the runs they are about.    *)
THEOREM RunInvariance == Spec => []Inv
<1>1. Init => Inv
  BY InitInv, InitBail, InitRuns DEF Inv
<1> QED
  BY <1>1, InvKept, PTL DEF Spec

(* A review is started under a batch by the batch only.                    *)
LEMMA ReviewParent ==
    ASSUME Inv, NEW o \in Owners, NEW i \in Issues, ReviewProcStep(o, i)
    PROVE  review'[o][i].parent => review[o][i].parent
<1>1. review \in [Owners -> [Issues -> Review]]
  BY DEF Inv, IInv, TypeOK
<1>2. ASSUME NEW ok, Exit(o, i, ok) PROVE review'[o][i] = NoReview
  BY <1>1, <1>2 DEF Exit
<1>3. ASSUME NEW pc, ReviewGoto(o, i, pc) PROVE review'[o][i].parent = review[o][i].parent
  BY <1>1, <1>3 DEF ReviewGoto, Review
<1>4. CASE ResumeRun(o, i)
  BY <1>1, <1>4 DEF ResumeRun
<1>5. CASE ReviewStep(o, i) \/ ReviewDies(o, i)
  <2>1. (\E ok : Exit(o, i, ok)) \/ \E pc : ReviewGoto(o, i, pc)
    BY <1>5 DEF ReviewStep, ReviewDies, ResumeStart, ResumeReady, ResumeRecord, ResumeCleanup
  <2>2. CASE \E ok : Exit(o, i, ok)
    <3>1. review'[o][i] = NoReview
      BY <1>2, <2>2
    <3> QED
      BY <3>1 DEF NoReview
  <2>3. CASE \E pc : ReviewGoto(o, i, pc)
    BY <1>3, <2>3
  <2> QED
    BY <2>1, <2>2, <2>3
<1> QED
  BY <1>4, <1>5 DEF ReviewProcStep

(* The review that a batch started keeps the batch lock: it is the only    *)
(* one, and whoever drives the batch waits for it.                         *)
ChildHeld ==
    \A i \in Issues : review[Batch][i].parent =>
        /\ \A p \in BatchProcs : Holds(p) => proc[p].pc = "child" /\ proc[p].issue = i
        /\ \A j \in Issues : review[Batch][j].parent => j = i

(* While a review of the batch runs, no process gets to drive the batch,   *)
(* and the one that does only waits or is killed.                          *)
LEMMA ChildKeepsLock ==
    ASSUME Inv, ChildHeld, [Next]_vars, NEW p \in BatchProcs, ProcStep(p),
           NEW i \in Issues, review[Batch][i].parent
    PROVE  ~Holds(p)'
<1>1. /\ ~BatchLockFree /\ proc[p].pc \in {"idle", "acquire", "child"}
      /\ TypeOK /\ p \in Procs /\ p \notin QueueProcs
  BY IssueLoopAssumption
  DEF BatchLockFree, Inv, IInv, RunInv, ReviewsFit, ReviewFits, NoReview, Owners, Procs,
      ChildHeld, Holds
<1>2. End(p) => proc'[p].pc = "idle"
  BY <1>1, EndMoves
<1>3. CASE AcquireBatch(p)
  BY <1>1, <1>2, <1>3 DEF AcquireBatch, Holds
<1>4. CASE CreateBatch(p)
  BY <1>1, <1>4, GotoTo DEF CreateBatch, Holds, Pcs
<1>5. CASE ResumeBatch(p) \/ StartQueue(p)
  BY <1>1, <1>5 DEF ResumeBatch, StartQueue
<1>6. CASE Die(p)
  BY <1>2, <1>6 DEF Die, Holds
<1>7. CASE LoopStep(p) /\ ~AcquireBatch(p)
  BY <1>1, <1>7
  DEF LoopStep, At, InspectRow, RecordChild, SelectInBatch, SelectInQueue, Activate,
      AddAssignee, VerifyClaim, Recheck, Rollback, Advances, Work, VerifyIssue, PushBranch,
      OpenPr, CreateCheckpoint, AcquireRun, Attach, MarkReady, Record, Advance, Cleanup
<1> QED
  BY <1>3, <1>4, <1>5, <1>6, <1>7 DEF ProcStep

LEMMA ChildHeldKept == ASSUME Inv, ChildHeld, [Next]_vars PROVE ChildHeld'
<1>1. /\ TypeOK /\ ReviewsFit /\ OneHolder /\ OneHolder' /\ Batch \in Owners
      /\ review \in [Owners -> [Issues -> Review]]
  BY NextInv DEF Inv, IInv, TypeOK, RunInv, Owners
<1>2. ASSUME NEW p \in Procs, ProcStep(p), UNCHANGED review PROVE ChildHeld'
  <2> SUFFICES ASSUME NEW i \in Issues, review[Batch][i].parent, NEW q \in BatchProcs, Holds(q)'
               PROVE  proc'[q].pc = "child" /\ proc'[q].issue = i
    BY <1>2 DEF ChildHeld
  <2>1. q # p /\ q \in Procs
    BY <1>2, ChildKeepsLock DEF Procs
  <2>2. proc'[q] = proc[q]
    BY <1>2, <2>1, OthersStay DEF Inv
  <2> QED
    BY <2>2 DEF ChildHeld, Holds
<1>3. ASSUME NEW p \in Procs, InspectRow(p), ~UNCHANGED review PROVE ChildHeld'
  <2> DEFINE i == batch.cursor + 1
  <2>1. p \in BatchProcs /\ Holds(p) /\ proc[p].pc = "resume"
    BY <1>3, InspectStarts DEF InspectRow, At
  <2>2. \A j \in Issues : ~review[Batch][j].parent
    BY <2>1 DEF ChildHeld
  <2>3. /\ review' = [review EXCEPT ![Batch][i] = [pc |-> "start", parent |-> TRUE]]
        /\ proc' = [proc EXCEPT ![p].pc = "child", ![p].issue = i]
    BY <1>3 DEF InspectRow
  <2>4. proc'[p].pc = "child" /\ proc'[p].issue = i
    BY <1>1, <2>1, <2>3 DEF TypeOK, Proc, Procs
  <2>5. \A j \in Issues : review'[Batch][j].parent => j = i
    BY <1>1, <2>2, <2>3
  <2>6. \A q \in BatchProcs : Holds(q)' => q = p
    BY <1>1, <2>1, <2>4 DEF OneHolder, Holds
  <2> QED
    BY <2>4, <2>5, <2>6 DEF ChildHeld
<1>4. ASSUME NEW o \in Owners, NEW i \in Issues, ReviewProcStep(o, i) PROVE ChildHeld'
  <2>1. /\ \A a \in Owners, j \in Issues : a # o \/ j # i => review'[a][j] = review[a][j]
        /\ UNCHANGED proc \/ \E ok : Exit(o, i, ok)
    BY <1>4, ReviewOwn
  <2>2. CASE \E ok : Exit(o, i, ok)
    <3>1. review'[o][i] = NoReview
      BY <1>1, <2>2 DEF Exit
    <3>2. ASSUME NEW j \in Issues, review'[Batch][j].parent
          PROVE  review[Batch][j].parent /\ ~review[o][i].parent
      BY <1>1, <2>1, <3>1, <3>2 DEF ChildHeld, ReviewsFit, ReviewFits, NoReview
    <3>3. ~review[o][i].parent => UNCHANGED proc
      BY <1>1, <2>2 DEF Exit, TypeOK
    <3> QED
      BY <3>2, <3>3 DEF ChildHeld, Holds
  <2>3. CASE UNCHANGED proc
    <3>1. review'[o][i].parent => review[o][i].parent
      BY <1>4, ReviewParent
    <3> QED
      BY <1>1, <2>1, <2>3, <3>1 DEF ChildHeld, Holds
  <2> QED
    BY <2>1, <2>2, <2>3
<1>5. CASE OperatorStep \/ UNCHANGED vars
  BY <1>5 DEF OperatorStep, Bail, ChangeIssue, ChangeAssignee, vars, ChildHeld, Holds
<1> QED
  BY <1>2, <1>3, <1>4, <1>5, ByActor, ProcReview

(* However many processes start, resume and are killed: one of them drives *)
(* the batch, and as long as a review that a batch started is alive, after *)
(* its driver was killed too, no process drives the batch but the one that *)
(* waits for that review.                                                  *)
THEOREM BatchIsHeldOnce == Spec => []OneBatchProcess
<1>1. Init => ChildHeld
  BY DEF Init, ChildHeld, NoReview, Owners
<1>2. Inv /\ ChildHeld => OneBatchProcess
  <2> SUFFICES ASSUME Inv, ChildHeld PROVE OneBatchProcess
    OBVIOUS
  <2> DEFINE holders == {p \in BatchProcs : proc[p].pc \notin {"idle", "acquire"}}
             children == {i \in Issues : review[Batch][i].parent}
  <2>1. holders = {} \/ \E p \in BatchProcs : holders = {p}
    BY DEF Inv, IInv, OneHolder, Holds
  <2>2. children = {} \/ \E i \in Issues : children = {i}
    BY DEF ChildHeld
  <2>3. Cardinality({}) = 0 /\ \A p : Cardinality({p}) = 1
    BY FS_EmptySet, FS_Singleton, Zenon
  <2> HIDE DEF holders, children
  <2>4. Cardinality(holders) = 0 \/ Cardinality(holders) = 1
    BY <2>1, <2>3, Zenon
  <2>5. Cardinality(children) = 0 \/ Cardinality(children) = 1
    BY <2>2, <2>3, Zenon
  <2>6. \A p \in holders, i \in children : At(p, "child") /\ proc[p].issue = i
    BY DEF ChildHeld, Holds, At, holders, children
  <2> QED
    BY <2>4, <2>5, <2>6 DEF OneBatchProcess, holders, children
<1> QED
  BY <1>1, <1>2, RunInvariance, ChildHeldKept, PTL DEF Spec

(* A run that has a branch or a PR keeps its worktree until its checkpoint *)
(* is finalized, whoever resumes it and whatever is killed.                *)
THEOREM WorktreesOutlive == Spec => []WorktreeOutlivesRun
<1>1. Inv => WorktreeOutlivesRun
  BY DEF Inv, RunInv, RunsSound, RunSound, WorktreeOutlivesRun
<1> QED
  BY <1>1, RunInvariance, PTL

(* One process drives the review of a run, for any number of processes     *)
(* that start, resume and are killed.                                      *)
THEOREM OneReviewer == Spec => []OneReviewPerRun
<1>1. Inv => OneReviewPerRun
  <2> SUFFICES ASSUME Inv, NEW o \in Owners, NEW i \in Issues
               PROVE  LET wrappers == {p \in Procs :
                                         /\ Owner(p) = o /\ proc[p].issue = i
                                         /\ \E pc \in {"attach", "review", "record"} : At(p, pc)}
                      IN /\ Cardinality(wrappers) <= 1
                         /\ wrappers # {} => review[o][i] = NoReview
    BY DEF OneReviewPerRun
  <2> DEFINE wrappers == {p \in Procs :
                            /\ Owner(p) = o /\ proc[p].issue = i
                            /\ \E pc \in {"attach", "review", "record"} : At(p, pc)}
  <2>1. ASSUME NEW p \in wrappers, NEW q \in wrappers PROVE p = q
    <3>1. p \in Procs /\ q \in Procs /\ Owner(p) = Owner(q) /\ Holds(p) /\ Holds(q)
      BY DEF At, Holds
    <3> QED
      BY <3>1, OthersRest DEF Inv, Holds
  <2>2. wrappers = {} \/ \E p : wrappers = {p}
    BY <2>1
  <2>3. Cardinality({}) = 0 /\ \A p : Cardinality({p}) = 1
    BY FS_EmptySet, FS_Singleton, Zenon
  <2>4. wrappers # {} => review[o][i] = NoReview
    BY DEF At, Inv, RunInv, LocksHeld, LockedPcs
  <2> HIDE DEF wrappers
  <2>5. Cardinality(wrappers) <= 1
    BY <2>2, <2>3
  <2> QED
    BY <2>4, <2>5 DEF wrappers
<1> QED
  BY <1>1, RunInvariance, PTL

-----------------------------------------------------------------------------
(* The batch implements the ordered queue.                                 *)

(* The abstract state.                                                     *)
Settled == IF batch = NoBatch THEN <<>>
           ELSE [i \in 1..batch.cursor |-> batch.rows[i].status]
CursorStage == IF batch = NoBatch \/ batch.cursor = N THEN "untouched"
               ELSE Stage(runs[Batch][batch.cursor + 1])

LEMMA QueueInit == Init => Queue!Init
  BY DEF Init, Queue!Init

(* Writing the run of an issue moves the stage of that issue only.         *)
LEMMA StageSteps ==
    ASSUME Inv, [Next]_vars, NEW i \in Issues
    PROVE  StageMoves(runs[Batch][i], runs'[Batch][i])
<1>1. TypeOK /\ Batch \in Owners
  BY DEF Inv, IInv, Owners
<1>2. runs'[Batch][i] = runs[Batch][i] => StageMoves(runs[Batch][i], runs'[Batch][i])
  BY DEF StageMoves
<1>3. ASSUME NEW p \in Procs, ProcStep(p)
      PROVE  StageMoves(runs[Batch][i], runs'[Batch][i])
  <2>1. OwnRun(p) /\ Owner(p) \in Owners /\ proc[p].issue \in Issues
    BY <1>1, <1>3, OwnRunKept, RunTypes
  <2> QED
    BY <1>1, <1>2, <2>1, Changed DEF OwnRun, Extends, RunOf
<1>4. ASSUME NEW o \in Owners, NEW j \in Issues, ReviewProcStep(o, j)
      PROVE  StageMoves(runs[Batch][i], runs'[Batch][i])
  BY <1>1, <1>2, <1>4, ReviewOwn, Changed
<1>5. CASE OperatorStep \/ UNCHANGED vars
  BY <1>2, <1>5 DEF OperatorStep, Bail, ChangeIssue, ChangeAssignee, vars
<1> QED
  BY <1>3, <1>4, <1>5, ByActor

(* A write of the batch leaves the runs alone.                             *)
LEMMA WritesKeepRuns ==
    ASSUME Inv, [Next]_vars, batch' # batch
    PROVE  /\ UNCHANGED runs
           /\ \/ batch = NoBatch /\ batch' = NewBatch
              \/ /\ batch \in Batches /\ batch # NoBatch
                 /\ \E s \in {"active", "finalized", "bailed"}, a \in BOOLEAN :
                      /\ batch' = UpdateBatch(batch, batch.cursor + 1, s, a)
                      /\ batch.cursor < N
                      /\ s = "finalized" => runs[Batch][batch.cursor + 1].child = "finalized"
<1>1. CASE \E p \in Procs : CreateBatch(p)
  BY <1>1 DEF CreateBatch
<1>2. ASSUME NEW p \in Procs, Writes(p)
      PROVE  /\ UNCHANGED runs /\ batch \in Batches /\ batch # NoBatch
             /\ \E s \in {"active", "finalized", "bailed"}, a \in BOOLEAN :
                  /\ batch' = UpdateBatch(batch, batch.cursor + 1, s, a)
                  /\ batch.cursor < N
                  /\ s = "finalized" => runs[Batch][batch.cursor + 1].child = "finalized"
  <2> DEFINE i == proc[p].issue
  <2>1. UNCHANGED runs /\ p \in BatchProcs /\ batch # NoBatch /\ batch \in Batches
    BY <1>2, WritesRow DEF Inv, Writes, RecordChild, Activate, Attach, Advance
  <2>2. PICK e \in RowStatuses, s \in {"active", "finalized", "bailed"}, a \in BOOLEAN :
          /\ CanUpdate(batch, i, e, s, a) /\ batch' = UpdateBatch(batch, i, s, a)
          /\ s = "finalized" => proc[p].pc \in {"childDone", "advance"}
    BY <1>2 DEF Writes, RecordChild, Activate, Attach, Advance, At, RowStatuses
  <2>3. batch.cursor < N /\ i = batch.cursor + 1
    BY <2>2 DEF CanUpdate, AtCursor
  <2>4. s = "finalized" => runs[Batch][i].child = "finalized"
    BY <2>1, <2>2, OwnerType DEF Inv, RunInv, RunsFit, RunFits, RunOf, Procs
  <2> QED
    BY <2>1, <2>2, <2>3, <2>4
<1>3. ASSUME NEW i \in Issues, NEW e \in {"pending", "active"}, Bail(i, e)
      PROVE  /\ UNCHANGED runs /\ batch \in Batches /\ batch # NoBatch /\ batch.cursor < N
             /\ batch' = UpdateBatch(batch, batch.cursor + 1, "bailed", FALSE)
  BY <1>3, BailRow DEF Inv, Bail, CanUpdate, AtCursor
<1> QED
  BY <1>1, <1>2, <1>3, Writers

(* Passing the cursor appends to what is settled.                          *)
LEMMA SettledGrows ==
    ASSUME batch \in Batches, batch # NoBatch, batch.cursor < N, NEW s \in SettledStatuses,
           NEW a, batch' = UpdateBatch(batch, batch.cursor + 1, s, a), batch' # NoBatch
    PROVE  Settled' = Append(Settled, s) /\ Len(Settled) = batch.cursor
<1> DEFINE c == batch.cursor
<1>1. c \in Nat /\ c \in 0..N /\ batch.rows \in [Issues -> [status : RowStatuses, child : BOOLEAN]]
  BY NAssumption DEF Batches
<1>2. Settled = [j \in 1..c |-> batch.rows[j].status]
  BY DEF Settled
<1>3. Settled \in Seq(RowStatuses) /\ Len(Settled) = c
  <2>1. \A j \in 1..c : batch.rows[j].status \in RowStatuses
    BY <1>1, NAssumption DEF Issues
  <2> QED
    BY <1>1, <1>2, <2>1
<1>4. /\ batch'.cursor = c + 1 /\ batch'.rows[c + 1].status = s
      /\ \A j \in 1..c : batch'.rows[j] = batch.rows[j]
  BY <1>1, NAssumption DEF UpdateBatch, Issues
<1>5. Settled' = [j \in 1..(c + 1) |-> batch'.rows[j].status]
  BY <1>4 DEF Settled
<1>6. /\ Append(Settled, s) \in Seq(RowStatuses) /\ Len(Append(Settled, s)) = c + 1
      /\ \A j \in 1..c : Append(Settled, s)[j] = Settled[j]
      /\ Append(Settled, s)[c + 1] = s
  <2>1. s \in RowStatuses
    BY DEF SettledStatuses, RowStatuses
  <2> QED
    BY <1>3, <2>1, AppendProperties
<1>7. ASSUME NEW j \in 1..(c + 1) PROVE batch'.rows[j].status = Append(Settled, s)[j]
  <2>1. CASE j \in 1..c
    <3>1. Settled[j] = batch.rows[j].status
      BY <1>2, <2>1
    <3> QED
      BY <1>4, <1>6, <2>1, <3>1
  <2>2. CASE j = c + 1
    BY <1>4, <1>6, <2>2
  <2>3. j \in 1..c \/ j = c + 1
    <3>1. ASSUME NEW n \in Nat, NEW k \in 1..(n + 1) PROVE k \in 1..n \/ k = n + 1
      BY <3>1
    <3> QED
      BY <1>1, <3>1, Zenon
  <2> QED
    BY <2>1, <2>2, <2>3
<1>8. Settled' \in Seq(RowStatuses) /\ Len(Settled') = c + 1
  <2>1. \A j \in 1..(c + 1) : batch'.rows[j].status \in RowStatuses
    BY <1>1, <1>4, NAssumption DEF Issues, SettledStatuses, RowStatuses
  <2> QED
    BY <1>1, <1>5, <2>1
<1>9. \A j \in 1..Len(Settled') : Settled'[j] = Append(Settled, s)[j]
  BY <1>5, <1>7, <1>8
<1>10. Settled' = Append(Settled, s)
  BY <1>6, <1>8, <1>9, SeqEqual
<1> QED
  BY <1>3, <1>10

(* The steps of the ordered queue, in terms of the two.                    *)
QueueMoves ==
    \/ Settled' = Settled /\ CursorStage' = CursorStage
    \/ /\ Settled' = Settled
       /\ \/ Len(Settled) < N /\ CursorStage = "untouched" /\ CursorStage' = "published"
          \/ CursorStage = "published" /\ CursorStage' = "complete"
    \/ /\ CursorStage' = "untouched"
       /\ \/ CursorStage = "complete" /\ Settled' = Append(Settled, "finalized")
          \/ Len(Settled) < N /\ Settled' = Append(Settled, "bailed")

LEMMA QueueMovesStep == QueueMoves => [Queue!Next]_(Queue!queueVars)
  BY DEF QueueMoves, Settled, CursorStage, Queue!Next, Queue!Publish, Queue!Complete,
         Queue!Finalize, Queue!Settle, Queue!Bail, Queue!queueVars

LEMMA QueueStep == ASSUME Inv, Inv', [Next]_vars PROVE QueueMoves
<1>1. /\ batch # NoBatch => batch \in Batches
      /\ \A i \in Issues : runs[Batch][i] # NoRun => Reached(i)
      /\ \A i \in Issues : runs'[Batch][i] # NoRun => Reached(i)'
  BY DEF Inv, IInv, TypeOK, IssuesReached
<1>2. CASE UNCHANGED batch
  <2>1. Settled' = Settled
    BY <1>2 DEF Settled
  <2>2. CASE batch = NoBatch \/ batch.cursor = N
    BY <1>2, <2>1, <2>2 DEF QueueMoves, CursorStage
  <2>3. CASE batch # NoBatch /\ batch.cursor # N
    <3> DEFINE i == batch.cursor + 1
    <3>1. i \in Issues /\ batch.cursor < N /\ batch.cursor \in Nat
      BY <1>1, <2>3, NAssumption DEF Batches, Issues
    <3>2. Len(Settled) = batch.cursor
      BY <2>3, <3>1 DEF Settled
    <3>3. CursorStage = Stage(runs[Batch][i]) /\ CursorStage' = Stage(runs'[Batch][i])
      BY <1>2, <2>3 DEF CursorStage
    <3> QED
      BY <2>1, <3>1, <3>2, <3>3, StageSteps DEF QueueMoves, StageMoves
  <2> QED
    BY <2>2, <2>3
<1>3. CASE batch = NoBatch /\ batch' = NewBatch /\ UNCHANGED runs
  <2>1. Settled = <<>> /\ CursorStage = "untouched"
    BY <1>3 DEF Settled, CursorStage
  <2>2. batch' # NoBatch /\ batch'.cursor = 0 /\ 1 \in Issues /\ N # 0
    BY <1>3, NewBatchValid, FirstIssue, NAssumption DEF NewBatch
  <2>3. Settled' = <<>>
    BY <2>2 DEF Settled
  <2>4. runs'[Batch][1] = NoRun
    BY <1>1, <1>3, <2>2 DEF Reached
  <2>5. CursorStage' = "untouched"
    BY <2>2, <2>4 DEF CursorStage, Stage, NoRun
  <2> QED
    BY <2>1, <2>3, <2>5 DEF QueueMoves
<1>4. ASSUME batch \in Batches, batch # NoBatch, batch.cursor < N, UNCHANGED runs, batch' # NoBatch,
             NEW s \in {"active", "finalized", "bailed"}, NEW a \in BOOLEAN,
             batch' = UpdateBatch(batch, batch.cursor + 1, s, a),
             s = "finalized" => runs[Batch][batch.cursor + 1].child = "finalized"
      PROVE  QueueMoves
  <2> DEFINE i == batch.cursor + 1
  <2>1. i \in Issues /\ batch.cursor \in Nat
    BY <1>4, NAssumption DEF Batches, Issues
  <2>2. CASE s = "active"
    <3>1. /\ batch'.cursor = batch.cursor
          /\ \A j \in 1..batch.cursor : batch'.rows[j] = batch.rows[j]
      BY <1>4, <2>1, <2>2, NAssumption DEF UpdateBatch, SettledStatuses, Batches, Issues
    <3>2. Settled' = Settled
      BY <1>4, <3>1 DEF Settled
    <3>3. CursorStage' = CursorStage
      BY <1>4, <3>1 DEF CursorStage
    <3> QED
      BY <3>2, <3>3 DEF QueueMoves
  <2>3. CASE s \in SettledStatuses
    <3>1. Settled' = Append(Settled, s) /\ Len(Settled) = batch.cursor
      BY <1>4, <2>3, SettledGrows
    <3>2. batch'.cursor = i
      BY <1>4, <2>3 DEF UpdateBatch
    <3>3. CursorStage' = "untouched"
      <4>1. CASE i = N
        BY <3>2, <4>1 DEF CursorStage
      <4>2. CASE i # N
        <5>1. i + 1 \in Issues /\ ~Reached(i + 1)
          BY <1>4, <2>1, <4>2, NAssumption DEF Issues, Reached
        <5>2. runs'[Batch][i + 1] = NoRun
          BY <1>1, <1>4, <5>1
        <5> QED
          BY <3>2, <5>2 DEF CursorStage, Stage, NoRun
      <4> QED
        BY <4>1, <4>2
    <3>4. s = "finalized" => CursorStage = "complete"
      BY <1>4, <2>1, NAssumption DEF CursorStage, Stage
    <3> QED
      BY <1>4, <2>3, <3>1, <3>3, <3>4 DEF QueueMoves, SettledStatuses
  <2> QED
    BY <1>4, <2>2, <2>3 DEF SettledStatuses
<1> QED
  BY <1>2, <1>3, <1>4, WritesKeepRuns, BatchSteps DEF Inv, IInv, TypeOK

(* The batch is an ordered queue: whatever is killed, resumed or bailed,   *)
(* the cursor passes an issue as finalized only when its review recorded a *)
(* finalized checkpoint, and no later issue has a PR before that.          *)
THEOREM BatchIsOrderedQueue == Spec => ImplementsOrderedQueue
<1>1. Inv /\ Inv' /\ [Next]_vars => [Queue!Next]_(Queue!queueVars)
  BY QueueStep, QueueMovesStep
<1> QED
  BY <1>1, QueueInit, RunInvariance, PTL DEF Spec, ImplementsOrderedQueue, Queue!Spec

-----------------------------------------------------------------------------
(* What a claim is worth, when every loop has a login of its own.          *)
LoginsDiffer == \A a, b \in Owners : Login[a] = Login[b] => a = b

(* A wrapper that has verified its claim, until its review is over.        *)
ClaimedPcs == {"recheck"} \cup WorkPcs

ClaimsHeld ==
    \A p \in Procs : proc[p].pc \in ClaimedPcs => Login[Owner(p)] \in assignees[proc[p].issue]

OneClaimant ==
    \A p, q \in Procs :
        /\ proc[p].pc \in ClaimedPcs /\ proc[q].pc \in ClaimedPcs
        /\ proc[p].issue = proc[q].issue
        => p = q

(* Nobody else has a PR for an issue between the recheck and the own PR.   *)
FieldClear ==
    \A p \in Procs : proc[p].pc \in {"work", "verifyIssue", "push", "openPr"} =>
        \A o \in Owners \ {Owner(p)} : ~HasPr(o, proc[p].issue)

ClaimInv == ClaimsHeld /\ OneClaimant /\ FieldClear /\ OnePrPerIssue

LEMMA ClaimantsDiffer ==
    ASSUME Inv, NEW p \in Procs, NEW q \in Procs, q # p,
           proc[p].pc \in ClaimedPcs, proc[q].pc \in ClaimedPcs
    PROVE  Owner(p) # Owner(q)
  BY OthersRest DEF Inv, Holds, ClaimedPcs, WorkPcs, RowPcs, LockedPcs

(* How a wrapper comes to have a claim.                                    *)
LEMMA ClaimedSteps ==
    ASSUME Inv, NEW p \in Procs, ProcStep(p), proc'[p].pc \in ClaimedPcs
    PROVE  /\ proc'[p].issue = proc[p].issue /\ UNCHANGED assignees
           /\ \/ proc[p].pc \in ClaimedPcs
              \/ proc[p].pc = "verify" /\ assignees[proc[p].issue] = {Login[Owner(p)]}
<1>1. TypeOK /\ proc[p] \in Proc
  BY DEF Inv, IInv, TypeOK
<1>2. CASE proc'[p].pc \in WorkPcs
  <2>1. proc'[p].issue = proc[p].issue /\ proc[p].pc \in ClaimedPcs
    BY <1>2, WorkSteps DEF Recheck, At, ClaimedPcs, WorkPcs, RowPcs, LockedPcs
  <2>2. ~AddAssignee(p) /\ ~Rollback(p)
    BY <2>1 DEF AddAssignee, Rollback, At, ClaimedPcs, WorkPcs, RowPcs, LockedPcs
  <2>3. UNCHANGED assignees
    BY <2>2 DEF ProcStep, CreateBatch, ResumeBatch, StartQueue, Die, LoopStep, AcquireBatch,
                InspectRow, RecordChild, SelectInBatch, SelectInQueue, Activate, VerifyClaim,
                Recheck, Advances, Work, VerifyIssue, PushBranch, OpenPr, CreateCheckpoint,
                AcquireRun, Attach, MarkReady, Record, Advance, Cleanup, hostVars
  <2> QED
    BY <2>1, <2>3
<1>3. CASE proc'[p].pc = "recheck"
  <2>1. /\ ~End(p) /\ ~NextIssue(p) /\ ~GiveUp(p) /\ ~ \E i : Choose(p, i)
        /\ \A pc : Goto(p, pc) => pc = "recheck" /\ proc'[p].issue = proc[p].issue
    BY <1>1, <1>3, EndTo, NextIssueTo, ChooseTo, GotoTo DEF GiveUp
  <2>2. CASE VerifyClaim(p)
    <3>1. ~(proc' = [proc EXCEPT ![p].pc = "unclaim", ![p].exit = TRUE])
      BY <1>1, <1>3, ExitTo
    <3>2. Goto(p, "recheck") /\ assignees[proc[p].issue] = {Login[Owner(p)]}
      BY <2>1, <2>2, <3>1 DEF VerifyClaim
    <3> QED
      BY <2>1, <2>2, <3>2 DEF VerifyClaim, At, hostVars
  <2>3. CASE InspectRow(p)
    <3>1. ~(proc' = [proc EXCEPT ![p].pc = "child", ![p].issue = batch.cursor + 1])
      BY <1>1, <1>3 DEF TypeOK, Proc
    <3> QED
      BY <2>1, <2>3, <3>1 DEF InspectRow
  <2>4. ~AcquireRun(p) /\ ~Recheck(p)
    BY <1>1, <1>3, <2>1, LockTo, ExitTo DEF AcquireRun, Recheck
  <2>5. \A pc : pc # "recheck" => ~Goto(p, pc)
    BY <2>1
  <2>6. /\ ~CreateBatch(p) /\ ~ResumeBatch(p) /\ ~StartQueue(p) /\ ~Die(p) /\ ~AcquireBatch(p)
        /\ ~RecordChild(p) /\ ~Activate(p)
    BY <2>1, <2>5 DEF CreateBatch, ResumeBatch, StartQueue, Die, AcquireBatch, RecordChild,
                      Activate
  <2>7. ~SelectInBatch(p) /\ ~SelectInQueue(p)
    BY <2>1 DEF SelectInBatch, SelectInQueue
  <2>8. ~AddAssignee(p) /\ ~Rollback(p)
    BY <2>1, <2>5 DEF AddAssignee, Rollback
  <2>9. /\ ~Work(p) /\ ~VerifyIssue(p) /\ ~PushBranch(p) /\ ~OpenPr(p) /\ ~CreateCheckpoint(p)
        /\ ~Attach(p) /\ ~MarkReady(p) /\ ~Advance(p) /\ ~Cleanup(p)
    BY <2>1, <2>5 DEF Work, VerifyIssue, PushBranch, OpenPr, CreateCheckpoint, Attach, MarkReady,
                      Advance, Cleanup, Advances
  <2>10. ~Record(p)
    <3>1. (IF p \in BatchProcs THEN "advance" ELSE "cleanup") # "recheck"
      OBVIOUS
    <3> QED
      BY <2>5, <3>1 DEF Record, Advances
  <2> QED
    BY <2>2, <2>3, <2>4, <2>6, <2>7, <2>8, <2>9, <2>10 DEF ProcStep, LoopStep
<1> QED
  BY <1>2, <1>3 DEF ClaimedPcs

(* Who takes an assignee away.                                             *)
LEMMA AssigneesLost ==
    ASSUME Inv, [Next]_vars, NEW i \in Issues, NEW l, l \in assignees[i], l \notin assignees'[i]
    PROVE  \/ \E p \in Procs : /\ Rollback(p) /\ proc[p].issue = i /\ Login[Owner(p)] = l
                               /\ proc[p].pc \in {"unclaim", "unready"}
           \/ \A o \in Owners : Login[o] = l => ~Busy(o, i)
<1>1. assignees \in [Issues -> SUBSET (Logins \cup {Human})]
  BY DEF Inv, IInv, TypeOK
<1>2. ASSUME NEW p \in Procs, ProcStep(p), assignees' # assignees
      PROVE  AddAssignee(p) \/ Rollback(p)
  BY <1>2 DEF ProcStep, CreateBatch, ResumeBatch, StartQueue, Die, LoopStep, AcquireBatch,
              InspectRow, RecordChild, SelectInBatch, SelectInQueue, Activate, VerifyClaim,
              Recheck, Advances, Work, VerifyIssue, PushBranch, OpenPr, CreateCheckpoint,
              AcquireRun, Attach, MarkReady, Record, Advance, Cleanup, hostVars
<1>3. ASSUME NEW p \in Procs, AddAssignee(p) PROVE FALSE
  <2>1. \/ assignees' = assignees
        \/ assignees' = [assignees EXCEPT ![proc[p].issue] = @ \cup {Login[Owner(p)]}]
    BY <1>3 DEF AddAssignee
  <2> QED
    BY <1>1, <2>1
<1>4. ASSUME NEW p \in Procs, Rollback(p)
      PROVE  /\ proc[p].issue = i /\ Login[Owner(p)] = l
             /\ proc[p].pc \in {"unclaim", "unready"}
  <2>1. \/ assignees' = assignees
        \/ assignees' = [assignees EXCEPT ![proc[p].issue] = @ \ {Login[Owner(p)]}]
    BY <1>4 DEF Rollback
  <2> QED
    BY <1>1, <1>4, <2>1 DEF Rollback, At
<1>5. ASSUME NEW o \in Owners, NEW j \in Issues, ReviewProcStep(o, j) PROVE UNCHANGED assignees
  BY <1>5, ReviewOwn
<1>6. ASSUME NEW j \in Issues, ChangeAssignee(j)
      PROVE  \A o \in Owners : Login[o] = l => ~Busy(o, i)
  <2>1. CASE \E k \in Logins \cup {Human} : assignees' = [assignees EXCEPT ![j] = @ \cup {k}]
    BY <1>1, <2>1
  <2>2. CASE \E k \in assignees[j] :
               /\ \A o \in Owners : Login[o] = k => ~Busy(o, j)
               /\ assignees' = [assignees EXCEPT ![j] = @ \ {k}]
    BY <1>1, <2>2
  <2> QED
    BY <1>6, <2>1, <2>2 DEF ChangeAssignee
<1>7. OperatorStep \/ UNCHANGED vars =>
        UNCHANGED assignees \/ \E j \in Issues : ChangeAssignee(j)
  BY DEF OperatorStep, Bail, ChangeIssue, vars, hostVars
<1> QED
  BY <1>2, <1>3, <1>4, <1>5, <1>6, <1>7, ByActor

(* A wrapper with a claim got it by this step, or stands as it stood.      *)
LEMMA ClaimedOrigin ==
    ASSUME Inv, [Next]_vars, NEW p \in Procs, proc'[p].pc \in ClaimedPcs
    PROVE  /\ proc'[p].issue = proc[p].issue
           /\ \/ proc[p].pc \in ClaimedPcs
              \/ /\ UNCHANGED assignees /\ proc[p].pc = "verify"
                 /\ assignees[proc[p].issue] = {Login[Owner(p)]}
           /\ proc'[p] = proc[p] \/ (ProcStep(p) /\ UNCHANGED assignees)
<1>1. ASSUME NEW q \in Procs, ProcStep(q)
      PROVE  proc'[p] = proc[p] \/ q = p
  BY <1>1, OthersStay DEF Inv
<1>2. ASSUME NEW o \in Owners, NEW i \in Issues, ReviewProcStep(o, i)
      PROVE  proc'[p] = proc[p]
  <2>1. UNCHANGED proc \/ \E ok : Exit(o, i, ok)
    BY <1>2, ReviewOwn
  <2>2. UNCHANGED proc \/ Settles
    BY <2>1, ExitSettles DEF Inv, IInv
  <2> QED
    BY <2>2 DEF Settles, ClaimedPcs, WorkPcs, RowPcs, LockedPcs
<1>3. OperatorStep \/ UNCHANGED vars => proc'[p] = proc[p]
  BY DEF OperatorStep, Bail, ChangeIssue, ChangeAssignee, vars
<1> QED
  BY <1>1, <1>2, <1>3, ByActor, ClaimedSteps

LEMMA ClaimsKept == ASSUME LoginsDiffer, Inv, ClaimInv, [Next]_vars PROVE ClaimsHeld'
<1> SUFFICES ASSUME NEW p \in Procs, proc'[p].pc \in ClaimedPcs
             PROVE  Login[Owner(p)] \in assignees'[proc'[p].issue]
  BY DEF ClaimsHeld
<1> DEFINE i == proc[p].issue
           l == Login[Owner(p)]
<1>1. proc'[p].issue = i /\ i \in Issues /\ Owner(p) \in Owners
  BY ClaimedOrigin, RunTypes DEF Inv, IInv
<1>2. CASE UNCHANGED assignees /\ assignees[i] = {l}
  BY <1>1, <1>2
<1>3. CASE proc[p].pc \in ClaimedPcs
  <2>1. l \in assignees[i]
    BY <1>3 DEF ClaimInv, ClaimsHeld
  <2>2. CASE UNCHANGED assignees
    BY <1>1, <2>1, <2>2
  <2>3. CASE proc'[p] = proc[p] /\ l \notin assignees'[i]
    <3>1. Busy(Owner(p), i)
      BY <1>3 DEF Busy, ClaimedPcs, WorkPcs, RowPcs, LockedPcs, LoopPcs, BatchPcs
    <3>2. PICK q \in Procs : /\ Rollback(q) /\ proc[q].issue = i /\ Login[Owner(q)] = l
                             /\ proc[q].pc \in {"unclaim", "unready"}
      BY <1>1, <2>1, <2>3, <3>1, AssigneesLost
    <3>3. Owner(q) = Owner(p) /\ q # p
      BY <1>1, <1>3, <3>2, OwnerType DEF LoginsDiffer, ClaimedPcs, WorkPcs, RowPcs, LockedPcs
    <3>4. proc[p].pc \in {"idle", "acquire"}
      BY <3>2, <3>3, OthersRest DEF Inv, Holds
    <3> QED
      BY <1>3, <3>4 DEF ClaimedPcs, WorkPcs, RowPcs, LockedPcs
  <2> QED
    BY <1>1, <2>2, <2>3, ClaimedOrigin
<1> QED
  BY <1>2, <1>3, ClaimedOrigin

LEMMA ClaimantKept == ASSUME LoginsDiffer, Inv, ClaimInv, [Next]_vars PROVE OneClaimant'
<1> SUFFICES ASSUME NEW p \in Procs, NEW q \in Procs, proc'[p].pc \in ClaimedPcs,
                    proc'[q].pc \in ClaimedPcs, proc'[p].issue = proc'[q].issue, p # q
             PROVE  FALSE
  BY DEF OneClaimant
<1>1. proc[p].issue = proc[q].issue
  BY ClaimedOrigin
<1>2. ASSUME NEW a \in Procs, NEW b \in Procs, a # b, proc[a].pc \in ClaimedPcs,
             assignees[proc[a].issue] = {Login[Owner(b)]}
      PROVE  Owner(a) = Owner(b)
  BY <1>2, OwnerType DEF ClaimInv, ClaimsHeld, LoginsDiffer
<1>3. CASE proc[p].pc \in ClaimedPcs /\ proc[q].pc \in ClaimedPcs
  BY <1>1, <1>3 DEF ClaimInv, OneClaimant
<1>4. CASE proc[p].pc \notin ClaimedPcs /\ proc[q].pc \notin ClaimedPcs
  <2>1. proc'[p] # proc[p] /\ proc'[q] # proc[q]
    BY <1>4
  <2> QED
    BY <2>1, ClaimedOrigin, OthersStay DEF Inv
<1>5. ASSUME NEW a \in Procs, NEW b \in Procs, a # b, proc[a].pc \in ClaimedPcs,
             proc[b].pc \notin ClaimedPcs, proc'[b].pc \in ClaimedPcs,
             proc[a].issue = proc[b].issue
      PROVE  FALSE
  <2>1. proc'[b] # proc[b] /\ assignees[proc[a].issue] = {Login[Owner(b)]}
    BY <1>5, ClaimedOrigin
  <2>2. ProcStep(b) /\ Owner(a) = Owner(b)
    BY <1>2, <1>5, <2>1, ClaimedOrigin
  <2>3. proc[b].pc = "verify"
    BY <1>5, ClaimedOrigin
  <2> QED
    BY <1>5, <2>2, <2>3, OthersRest DEF Inv, Holds, ClaimedPcs, WorkPcs, RowPcs, LockedPcs
<1> QED
  BY <1>1, <1>3, <1>4, <1>5

(* A PR that was not there is opened by a wrapper at that place.           *)
LEMMA PrOpened ==
    ASSUME Inv, [Next]_vars, NEW o \in Owners, NEW i \in Issues, HasPr(o, i)', ~HasPr(o, i)
    PROVE  /\ \E p \in Procs : /\ ProcStep(p) /\ Owner(p) = o /\ proc[p].issue = i
                               /\ proc[p].pc = "openPr"
           /\ \A a \in Owners \ {o} : runs'[a][i] = runs[a][i]
<1>1. TypeOK /\ Opened(runs'[o][i]) /\ ~Opened(runs[o][i]) /\ runs' # runs
  BY DEF Inv, IInv, HasPr, Opened
<1>2. CASE \E p \in Procs : ProcStep(p)
  <2> PICK p \in Procs : ProcStep(p)
    BY <1>2
  <2>1. PICK run : Extends(p, run)
    BY <1>1, OwnRunKept DEF OwnRun
  <2>2. Owner(p) \in Owners /\ proc[p].issue \in Issues
    BY <1>1, RunTypes
  <2>3. /\ runs'[Owner(p)][proc[p].issue] = run
        /\ \A a \in Owners, j \in Issues :
             a # Owner(p) \/ j # proc[p].issue => runs'[a][j] = runs[a][j]
    BY <1>1, <2>1, <2>2, Changed DEF Extends
  <2>4. Owner(p) = o /\ proc[p].issue = i
    BY <1>1, <2>3
  <2> QED
    BY <1>1, <2>1, <2>3, <2>4 DEF Extends, RunOf
<1>3. CASE \E a \in Owners, j \in Issues : ReviewProcStep(a, j)
  <2> PICK a \in Owners, j \in Issues : ReviewProcStep(a, j)
    BY <1>3
  <2>1. PICK run : Change(a, j, run) /\ (Opened(run) => Opened(runs[a][j]))
    BY <1>1, ReviewOwn
  <2> QED
    BY <1>1, <2>1, Changed
<1>4. OperatorStep \/ UNCHANGED vars => UNCHANGED runs
  BY DEF OperatorStep, Bail, ChangeIssue, ChangeAssignee, vars
<1> QED
  BY <1>1, <1>2, <1>3, <1>4, ByActor

LEMMA FieldKept == ASSUME Inv, ClaimInv, [Next]_vars PROVE FieldClear'
<1> DEFINE OpenPcs == {"work", "verifyIssue", "push", "openPr"}
<1> SUFFICES ASSUME NEW p \in Procs, proc'[p].pc \in OpenPcs, NEW o \in Owners \ {Owner(p)},
                    runs'[o][proc'[p].issue].pr \in {"draft", "ready"}
             PROVE  FALSE
  BY DEF FieldClear, HasPr
<1> DEFINE i == proc[p].issue
<1>1. /\ proc'[p].issue = i /\ i \in Issues
      /\ proc'[p] = proc[p] \/ ProcStep(p)
  BY ClaimedOrigin, RunTypes DEF Inv, IInv, ClaimedPcs, WorkPcs, RowPcs
<1>2. \/ proc[p].pc \in OpenPcs
      \/ Recheck(p) /\ Ready(Owner(p), i)
  <2>1. CASE proc'[p] = proc[p]
    BY <2>1
  <2>2. CASE ProcStep(p)
    <3>1. proc'[p].pc \in WorkPcs
      BY DEF WorkPcs, RowPcs
    <3> QED
      BY <2>2, <3>1, WorkSteps DEF LockedPcs
  <2> QED
    BY <1>1, <2>1, <2>2
<1>3. ~HasPr(o, i)
  BY <1>2 DEF ClaimInv, FieldClear, Ready
<1>4. HasPr(o, i)'
  BY <1>1 DEF HasPr
<1>5. PICK q \in Procs : /\ ProcStep(q) /\ Owner(q) = o /\ proc[q].issue = i
                         /\ proc[q].pc = "openPr"
  BY <1>1, <1>3, <1>4, PrOpened
<1>6. q # p /\ proc'[p] = proc[p]
  BY <1>5, OthersStay DEF Inv
<1> QED
  BY <1>5, <1>6 DEF ClaimInv, OneClaimant, ClaimedPcs, WorkPcs, RowPcs

LEMMA OnePrKept == ASSUME Inv, ClaimInv, [Next]_vars PROVE OnePrPerIssue'
<1> SUFFICES ASSUME NEW i \in Issues, NEW a \in Owners, NEW b \in Owners, a # b,
                    HasPr(a, i)', HasPr(b, i)'
             PROVE  FALSE
  BY DEF OnePrPerIssue
<1>1. ASSUME NEW o \in Owners, NEW other \in Owners, o # other, HasPr(o, i)', HasPr(other, i)',
             ~HasPr(o, i)
      PROVE  FALSE
  <2>1. PICK p \in Procs : Owner(p) = o /\ proc[p].issue = i /\ proc[p].pc = "openPr"
    BY <1>1, PrOpened
  <2>2. ~HasPr(other, i)
    BY <1>1, <2>1 DEF ClaimInv, FieldClear
  <2>3. runs'[other][i] = runs[other][i]
    BY <1>1, PrOpened
  <2> QED
    BY <1>1, <2>2, <2>3 DEF HasPr
<1>2. HasPr(a, i) /\ HasPr(b, i)
  BY <1>1
<1> QED
  BY <1>2 DEF ClaimInv, OnePrPerIssue

LEMMA InitClaims == Init => ClaimInv
  BY OwnerType DEF Init, ClaimInv, ClaimsHeld, OneClaimant, FieldClear, OnePrPerIssue, HasPr,
     NewProc, NoRun, ClaimedPcs, WorkPcs, RowPcs, LockedPcs

(* A verified claim is the only one and lasts as long as the work under   *)
(* it, if no two owners share a login.                                     *)
THEOREM ClaimInvariance == ASSUME LoginsDiffer PROVE Spec => []ClaimInv
<1>1. Inv /\ ClaimInv /\ [Next]_vars => ClaimInv'
  <2> SUFFICES ASSUME Inv, ClaimInv, [Next]_vars PROVE ClaimInv'
    OBVIOUS
  <2> QED
    BY ClaimsKept, ClaimantKept, FieldKept, OnePrKept DEF ClaimInv
<1> QED
  BY <1>1, InitClaims, RunInvariance, PTL DEF Spec

(* A loop keeps its claim while it works, whatever others roll back.       *)
THEOREM WorkStaysClaimed == ASSUME LoginsDiffer PROVE Spec => []WorkIsClaimed
<1>1. ClaimInv => WorkIsClaimed
  BY DEF ClaimInv, ClaimsHeld, WorkIsClaimed, ClaimedPcs, WorkPcs, RowPcs, LockedPcs
<1> QED
  BY <1>1, ClaimInvariance, PTL

(* An issue has PRs from one owner at most.                                *)
THEOREM OnePr == ASSUME LoginsDiffer PROVE Spec => []OnePrPerIssue
<1>1. ClaimInv => OnePrPerIssue
  BY DEF ClaimInv
<1> QED
  BY <1>1, ClaimInvariance, PTL

(* No two loops are in a worktree or on a PR for the same issue, and no    *)
(* loop beside a resumed review of another.                                *)
THEOREM OneLoop == ASSUME LoginsDiffer PROVE Spec => []OneLoopPerIssue
<1>1. ASSUME Inv, ClaimInv PROVE OneLoopPerIssue
  <2> SUFFICES ASSUME NEW i \in Issues, NEW a \in Owners, NEW b \in Owners,
                      Works(a, i), Works(b, i)
               PROVE  a = b
    BY DEF OneLoopPerIssue
  <2> DEFINE Wraps(o) == \E p \in Procs : /\ Owner(p) = o /\ proc[p].issue = i
                                          /\ proc[p].pc \in WorkPcs
             Resumes(o) == review[o][i].pc \in {"review", "record"}
  <2>1. \A o \in Owners : Works(o, i) => Wraps(o) \/ Resumes(o)
    BY DEF Works, At, WorkPcs, RowPcs, LockedPcs
  <2>2. ASSUME NEW o \in Owners, runs[o][i].child # "none" PROVE HasPr(o, i)
    BY <2>2, <1>1 DEF Inv, RunInv, RunsSound, RunSound, HasPr
  <2>3. ASSUME NEW o \in Owners, Resumes(o) PROVE HasPr(o, i)
    BY <2>2, <2>3, <1>1 DEF Inv, RunInv, ReviewsFit, ReviewFits
  <2>4. ASSUME NEW o \in Owners, Wraps(o)
        PROVE  HasPr(o, i) \/ \A other \in Owners \ {o} : ~HasPr(other, i)
    <3> PICK p \in Procs : Owner(p) = o /\ proc[p].issue = i /\ proc[p].pc \in WorkPcs
      BY <2>4
    <3>1. RunFits(proc[p].pc, runs[o][i])
      BY <1>1 DEF Inv, RunInv, RunsFit, RunOf
    <3>2. CASE proc[p].pc \in {"work", "verifyIssue", "push", "openPr"}
      BY <1>1, <3>2 DEF ClaimInv, FieldClear
    <3>3. CASE proc[p].pc = "checkpoint"
      BY <3>1, <3>3 DEF RunFits, HasPr
    <3>4. CASE proc[p].pc \in {"lock", "attach", "review", "record"}
      BY <2>2, <3>1, <3>4 DEF RunFits
    <3> QED
      BY <3>2, <3>3, <3>4 DEF WorkPcs, RowPcs, LockedPcs
  <2>5. CASE Wraps(a) /\ Wraps(b)
    BY <1>1, <2>5 DEF ClaimInv, OneClaimant, ClaimedPcs
  <2>6. HasPr(a, i) /\ HasPr(b, i) => a = b
    BY <1>1 DEF ClaimInv, OnePrPerIssue
  <2> HIDE DEF Wraps, Resumes
  <2> QED
    BY <2>1, <2>3, <2>4, <2>5, <2>6
<1>2. Inv /\ ClaimInv => OneLoopPerIssue
  BY <1>1
<1> QED
  BY <1>2, ClaimInvariance, RunInvariance, PTL
=============================================================================
