--------------------------- MODULE ReviewLoopProofs ---------------------------
(***************************************************************************)
(* What holds of the review of one issue for every number of rounds,       *)
(* commits, base moves and disturbances of every kind.                     *)
(***************************************************************************)
EXTENDS ReviewLoopProperties, TLAPS

(* The wrapper inside a round, and between convergence and the end.        *)
RoundPcs == {"merge", "validateMerge", "publish", "attestMerge", "leg", "recoverClaude",
             "pass", "open", "hook", "inspect", "attest", "validate", "toClaude",
             "moved", "decide"}
LegPcs == {"pass", "open", "hook", "inspect", "attest", "validate"}
DraftPcs == RoundPcs \cup {"start", "round", "rebase", "finalize", "checkpoint"}
CheckpointedPcs == {"ready", "verifyReady", "record", "rollback", "rollbackRecord", "unrecord"}
LatePcs == CheckpointedPcs \cup {"recovered", "final", "finalize", "checkpoint"}
ReadyPcs == {"boundary", "recovered", "final", "record", "rollback", "rollbackRecord",
             "unrecord", "cleanup", "done"}

(* A process that may publish has a journal.                               *)
HooksJournaled == \A i \in HookIds : hooks[i] # NoHook => JournalOf(i) # None

(* The outcome signatures the wrapper holds.                               *)
SignaturesHeld ==
    /\ pc \in {"toClaude", "recoverClaude", "decide"} => ctl.sig["codex"] # None
    /\ pc \in LegPcs /\ ctl.leg = "claude" => ctl.sig["codex"] # None
    /\ pc \in {"attest", "validate"} => ctl.sig[ctl.leg] # None
    /\ pc = "decide" => ctl.sig["claude"] # None

(* The wrapper's round against the cap and against the checkpoint's.       *)
RoundsAgree ==
    /\ pc \in RoundPcs => ctl.round <= MaxRounds
    /\ runState.phase \in LatePhases => runState.round <= MaxRounds
    /\ pc = "start" => runState.round = 1
    /\ pc \in RoundPcs \cup {"round", "boundary", "rebase"} => runState.round <= ctl.round
    /\ pc \in LatePcs => runState.phase \in LatePhases
    /\ pc \in LatePcs \cup {"boundary", "rebase"} /\ runState.phase \in LatePhases
         => ctl.round = runState.round

(* Where the PR is a draft for certain, and where the checkpoint says that *)
(* it may not be.                                                          *)
DraftKnown ==
    /\ pc \in DraftPcs => prDraft
    /\ pc \in {"recovered", "final"} /\ ~ctl.ready => prDraft
    /\ pc \in CheckpointedPcs => runState.phase \in {"finalizing", "finalized"}
    /\ ctl.ready => pc \in ReadyPcs /\ runState.phase \in {"finalizing", "finalized"}

Control == RunStateValid /\ SignaturesHeld /\ RoundsAgree /\ DraftKnown /\ ReadyOnlyAtCheckpoint

IInv == TypeOK /\ HooksJournaled /\ Control

-----------------------------------------------------------------------------
LEMMA NoCtlType == NoCtl \in Ctl
  BY MaxRoundsAssumption DEF NoCtl, Ctl, NoSig, Rounds, Bases, Engines, Heads

LEMMA ResumedCtlType ==
    ASSUME NEW cap \in 1..MaxRounds, NEW r \in Rounds, NEW e \in Engines \cup {"complete"},
           NEW d \in BOOLEAN, NEW l \in Passes \cup {None}
    PROVE  [NoCtl EXCEPT !.cap = cap, !.round = r, !.rec = e, !.ready = d, !.lock = l] \in Ctl
  BY NoCtlType DEF Ctl

LEMMA RecoveredFields ==
    TypeOK => RecoveredCtl.round = ctl.round /\ RecoveredCtl.ready = ctl.ready
  BY DEF TypeOK, RecoveredCtl, Ctl

LEMMA CreateType == ASSUME NEW b \in Bases, NEW h \in Heads
                    PROVE  CreateRunState(b, h) \in RunStates
  BY MaxRoundsAssumption DEF CreateRunState, RunStates, Phases, Rounds

LEMMA InitInv == Init => IInv
<1> SUFFICES ASSUME Init PROVE IInv
  OBVIOUS
<1>1. TypeOK
  <2>1. PassTypeOK
    <3>1. journal \in [Engines -> [Rounds -> Journals \cup {None}]]
      BY DEF Init, PassInit
    <3>2. results \in [Engines -> [Rounds -> Results \cup {None}]]
      BY DEF Init, PassInit
    <3>3. hooks \in [HookIds -> HookStates \cup {NoHook}]
      BY DEF Init, PassInit
    <3>4. local \in Heads /\ remote \in Heads /\ base \in Bases
      BY DEF Init, PassInit, Heads, Bases
    <3>5. validated \subseteq Heads
      BY DEF Init, PassInit, Heads
    <3>6. expired \in BOOLEAN
      BY DEF Init, PassInit
    <3> QED
      BY <3>1, <3>2, <3>3, <3>4, <3>5, <3>6 DEF PassTypeOK
  <2>2. runState \in RunStates
    BY CreateType DEF Init, Heads, Bases
  <2> QED
    BY <2>1, <2>2, NoCtlType DEF Init, TypeOK, Pcs, RunningPcs, Bases
<1>2. HooksJournaled
  BY DEF Init, PassInit, HooksJournaled
<1>3. Control
  BY MaxRoundsAssumption DEF Init, NoCtl, CreateRunState, Control, RunStateValid, ValidRunState, SignaturesHeld,
         RoundsAgree, DraftKnown, ReadyOnlyAtCheckpoint, LatePhases, RoundPcs, LegPcs, DraftPcs,
         CheckpointedPcs, LatePcs, ReadyPcs
<1> QED
  BY <1>1, <1>2, <1>3 DEF IInv
-----------------------------------------------------------------------------
(* Which actions write what.                                               *)

Checkpoint ==
    \/ StartReview \/ CheckpointCodex \/ CheckpointClaude \/ BaseMoved \/ Decide
    \/ CheckpointFinalizing \/ RecordFinalized \/ RecordFails \/ Unrecord
    \/ ResumeBoundary \/ Rebase

DraftChange ==
    \/ MarkReady \/ MarkReadyFails \/ RestoreDraft \/ RestoreFails \/ RestoreDrifted
    \/ ResumeBoundary

Validation ==
    \/ ValidateMerge \/ RecoverCodex \/ RecoverClaude \/ ValidatePass \/ FinalChecks
    \/ ResumeFinalized

PassChange ==
    \/ MergeBase \/ PublishMerge \/ ClearPass \/ OpenPass \/ Validation \/ Resume
    \/ Crash \/ MoveBase \/ PushForeign \/ OperatorCommit \/ ChangeResult \/ Expire

(* Only the checkpoints write run-state.json.                              *)
LEMMA CheckpointWrites == [Next]_vars => UNCHANGED runState \/ Checkpoint
<1> SUFFICES ASSUME [Next]_vars, ~Checkpoint PROVE UNCHANGED runState
  OBVIOUS
<1> USE DEF Refuse, Stop, Goto, RecoverLeg, Checkpoint, vars
<1>1. CASE Wrapper
  BY <1>1 DEF Wrapper, BeginRound, MergeBase, MergeConflict, ValidateMerge, PublishMerge,
              AttestMerge, RecoverCodex, RecoverClaude, ClearPass, OpenPass, InspectPass,
              AttestPass, ValidatePass, FinalChecks, FinalizeChecks, MarkReady,
              MarkReadyFails, VerifyReady, RestoreDraft, RestoreFails, Cleanup,
              RestoreDrifted, RecoverConverged
<1>2. ASSUME NEW i \in HookIds, Hook(i) \/ HookExit(i) PROVE UNCHANGED runState
  BY <1>2 DEF Hook, HookExit
<1>3. CASE Resume \/ ResumeFinalized
  BY <1>3 DEF Resume, ResumeFinalized
<1>4. CASE Environment
  BY <1>4 DEF Environment, Fail, Crash, Kill, MoveBase, PushForeign, OperatorCommit,
              ChangeLedger, ChangeIssue, ChangeResult, Expire
<1>5. CASE UNCHANGED vars
  BY <1>5
<1> QED
  BY <1>1, <1>2, <1>3, <1>4, <1>5 DEF Next

(* Only the wrapper marks the PR ready or turns it back into a draft.      *)
LEMMA DraftWrites == [Next]_vars => UNCHANGED prDraft \/ DraftChange
<1> SUFFICES ASSUME [Next]_vars, ~DraftChange PROVE UNCHANGED prDraft
  OBVIOUS
<1> USE DEF Refuse, Stop, Goto, NextRound, RecoverLeg, DraftChange, vars, hostVars
<1>1. CASE Wrapper
  BY <1>1 DEF Wrapper, StartReview, BeginRound, MergeBase, MergeConflict, ValidateMerge,
              PublishMerge, AttestMerge, CheckpointCodex, RecoverCodex, RecoverClaude,
              CheckpointClaude, ClearPass, OpenPass, InspectPass, AttestPass, ValidatePass,
              BaseMoved, Decide, FinalChecks, FinalizeChecks, CheckpointFinalizing,
              VerifyReady, RecordFinalized, RecordFails, Unrecord, Cleanup, Rebase,
              RecoverConverged
<1>2. ASSUME NEW i \in HookIds, Hook(i) \/ HookExit(i) PROVE UNCHANGED prDraft
  BY <1>2 DEF Hook, HookExit
<1>3. CASE Resume \/ ResumeFinalized
  BY <1>3 DEF Resume, ResumeFinalized
<1>4. CASE Environment
  BY <1>4 DEF Environment, Fail, Crash, Kill, MoveBase, PushForeign, OperatorCommit,
              ChangeLedger, ChangeIssue, ChangeResult, Expire
<1>5. CASE UNCHANGED vars
  BY <1>5
<1> QED
  BY <1>1, <1>2, <1>3, <1>4, <1>5 DEF Next

(* The worktree, the journals, the results and the hooks.                  *)
LEMMA PassWrites ==
    [Next]_vars => \/ UNCHANGED passVars
                   \/ PassChange
                   \/ \E i \in HookIds : HookStep(i, ctl.lock) \/ HookExit(i)
<1> SUFFICES ASSUME [Next]_vars, ~PassChange,
                    ~\E i \in HookIds : HookStep(i, ctl.lock) \/ HookExit(i)
             PROVE  UNCHANGED passVars
  OBVIOUS
<1> USE DEF Refuse, Stop, Goto, NextRound, PassChange, Validation, vars
<1>1. CASE Wrapper
  BY <1>1 DEF Wrapper, StartReview, BeginRound, MergeConflict, AttestMerge, CheckpointCodex,
              CheckpointClaude, InspectPass, AttestPass, BaseMoved, Decide, FinalizeChecks,
              CheckpointFinalizing, MarkReady, MarkReadyFails, VerifyReady, RecordFinalized,
              RecordFails, RestoreDraft, RestoreFails, Unrecord, Cleanup, RestoreDrifted,
              ResumeBoundary, Rebase, RecoverConverged
<1>2. ~\E i \in HookIds : Hook(i) \/ HookExit(i)
  BY DEF Hook
<1>3. CASE Environment
  BY <1>3 DEF Environment, Fail, Kill, ChangeLedger, ChangeIssue
<1>4. CASE UNCHANGED vars
  BY <1>4
<1> QED
  BY <1>1, <1>2, <1>3, <1>4 DEF Next

(* Nobody else moves the wrapper.                                          *)
LEMMA ControlFrame ==
    ASSUME Control, UNCHANGED <<pc, ctl, runState, prDraft>>
    PROVE  Control'
  BY DEF Control, RunStateValid, SignaturesHeld, RoundsAgree, DraftKnown,
         ReadyOnlyAtCheckpoint

-----------------------------------------------------------------------------
(* Type correctness.                                                       *)

LEMMA ResultType ==
    ASSUME TypeOK, NEW h \in HookStates, NEW s \in Statuses
    PROVE  ResultOf(h, s) \in Results
  BY DEF TypeOK, PassTypeOK, ResultOf, HookStates, Results

LEMMA HookStepType ==
    ASSUME TypeOK, HooksJournaled, NEW i \in HookIds, HookStep(i, ctl.lock)
    PROVE  PassTypeOK'
<1>1. hooks[i] \in HookStates \cup {NoHook}
  BY DEF TypeOK, PassTypeOK
<1>2. hooks[i] \in HookStates
  BY <1>1 DEF HookStep, HookCommit, PublishValidate, PublishPush, PublishRecord,
         PublishRecover, PublishAbort, HookRecord, HookBlock, At, NoHook
<1>3. JournalOf(i) \in Journals
  BY <1>2 DEF HooksJournaled, TypeOK, PassTypeOK, JournalOf, HookStates, NoHook, HookSteps
<1> USE DEF TypeOK, PassTypeOK, Move, SetJournal, JournalOf
<1>4. CASE HookCommit(i)
  BY <1>2, <1>4 DEF HookCommit, HookStates, HookSteps, Heads
<1>5. CASE PublishValidate(i, ctl.lock)
  BY <1>2, <1>3, <1>5 DEF PublishValidate, HookStates, HookSteps, Journals, Heads
<1>6. CASE PublishPush(i)
  BY <1>2, <1>6 DEF PublishPush, HookStates, HookSteps
<1>7. CASE PublishRecord(i)
  BY <1>2, <1>3, <1>7 DEF PublishRecord, HookStates, HookSteps, Journals
<1>8. CASE PublishRecover(i, ctl.lock)
  BY <1>2, <1>3, <1>8 DEF PublishRecover, HookStates, HookSteps, Journals
<1>9. CASE PublishAbort(i)
  BY <1>2, <1>9 DEF PublishAbort, HookStates, HookSteps
<1>10. CASE HookRecord(i)
  <2>1. PICK s \in Statuses :
          results' = [results EXCEPT ![hooks[i].engine][hooks[i].round] = ResultOf(hooks[i], s)]
    BY <1>10 DEF HookRecord
  <2>2. results' \in [Engines -> [Rounds -> Results \cup {None}]]
    BY <1>2, <2>1, ResultType DEF HookStates
  <2>3. hooks' \in [HookIds -> HookStates \cup {NoHook}]
    BY <1>2, <1>10 DEF HookRecord, HookStates, HookSteps
  <2> QED
    BY <1>10, <2>2, <2>3 DEF HookRecord
<1>11. CASE HookBlock(i)
  <2>1. ResultOf(hooks[i], "blocked") \in Results
    BY <1>2, ResultType DEF Statuses
  <2>2. results' \in [Engines -> [Rounds -> Results \cup {None}]]
    BY <1>2, <1>11, <2>1 DEF HookBlock, HookStates
  <2>3. hooks' \in [HookIds -> HookStates \cup {NoHook}]
    BY <1>2, <1>11 DEF HookBlock, HookStates, HookSteps
  <2> QED
    BY <1>11, <2>2, <2>3 DEF HookBlock
<1> QED
  BY <1>4, <1>5, <1>6, <1>7, <1>8, <1>9, <1>10, <1>11 DEF HookStep

LEMMA JournalUpdate ==
    ASSUME TypeOK, NEW e, NEW r \in Rounds, NEW j \in Journals \cup {None},
           journal' = [journal EXCEPT ![e][r] = j]
    PROVE  journal' \in [Engines -> [Rounds -> Journals \cup {None}]]
  BY DEF TypeOK, PassTypeOK

LEMMA ResultsUpdate ==
    ASSUME TypeOK, NEW e, NEW r \in Rounds, NEW res \in Results \cup {None},
           results' = [results EXCEPT ![e][r] = res]
    PROVE  results' \in [Engines -> [Rounds -> Results \cup {None}]]
  BY DEF TypeOK, PassTypeOK

LEMMA PassStep == ASSUME TypeOK, HooksJournaled, [Next]_vars PROVE PassTypeOK'
<1>1. CASE UNCHANGED passVars
  BY <1>1 DEF TypeOK, PassTypeOK, passVars
<1>2. ASSUME NEW i \in HookIds, HookStep(i, ctl.lock) PROVE PassTypeOK'
  BY <1>2, HookStepType
<1>3. ASSUME NEW i \in HookIds, HookExit(i) PROVE PassTypeOK'
  BY <1>3 DEF HookExit, TypeOK, PassTypeOK, world
<1>4. CASE PassChange
  <2> USE DEF Refuse, Stop, Goto, world, hostVars, passVars, Disturb, TypeOK, PassTypeOK
  <2>1. CASE MergeBase
    BY <2>1 DEF MergeBase, Heads
  <2>2. CASE PublishMerge
    BY <2>2 DEF PublishMerge
  <2>3. CASE ClearPass
    <3>1. ctl.leg \in Engines /\ ctl.round \in Rounds
      BY DEF Ctl
    <3>2. results' \in [Engines -> [Rounds -> Results \cup {None}]]
      BY <2>3, <3>1, ResultsUpdate DEF ClearPass
    <3> QED
      BY <2>3, <3>2 DEF ClearPass
  <2>4. CASE OpenPass
    <3> DEFINE j == journal[ctl.leg][ctl.round]
    <3>0. ctl.leg \in Engines /\ ctl.round \in Rounds
      BY DEF Ctl
    <3>1. \/ UNCHANGED passVars
          \/ \E i \in HookIds :
               /\ hooks' = [hooks EXCEPT
                      ![i] = NewHook(ctl.leg, ctl.round, ctl.base, ctl.head, ctl.lock)]
               /\ journal' = [journal EXCEPT ![ctl.leg][ctl.round] =
                      IF j = None THEN NewJournal(ctl.head) ELSE j]
               /\ UNCHANGED <<local, remote, base, expired, results, validated>>
      BY <2>4 DEF OpenPass
    <3>2. NewHook(ctl.leg, ctl.round, ctl.base, ctl.head, ctl.lock) \in HookStates
      BY DEF NewHook, HookStates, HookSteps, Ctl
    <3>3. NewJournal(ctl.head) \in Journals
      BY DEF NewJournal, Journals, Ctl
    <3>4. (IF j = None THEN NewJournal(ctl.head) ELSE j) \in Journals \cup {None}
      BY <3>0, <3>3
    <3> HIDE DEF j
    <3>5. \/ journal' = journal
          \/ journal' = [journal EXCEPT ![ctl.leg][ctl.round] =
                             IF j = None THEN NewJournal(ctl.head) ELSE j]
      BY <3>1 DEF j
    <3>6. journal' \in [Engines -> [Rounds -> Journals \cup {None}]]
      BY <3>0, <3>4, <3>5, JournalUpdate
    <3> QED
      BY <3>1, <3>2, <3>6
  <2>5. CASE Validation
    BY <2>5 DEF Validation, ValidateMerge, RecoverCodex, RecoverClaude, RecoverLeg,
                ValidatePass, FinalChecks, ResumeFinalized
  <2>6. CASE Resume
    <3>1. NewJournal(local) \in Journals
      BY DEF NewJournal, Journals
    <3>2. runState.round \in Rounds
      BY DEF RunStates
    <3>3. \/ journal' = journal
          \/ journal' = [journal EXCEPT ![runState.engine][runState.round] = NewJournal(local)]
      BY <2>6 DEF Resume
    <3>4. journal' \in [Engines -> [Rounds -> Journals \cup {None}]]
      BY <3>1, <3>2, <3>3, JournalUpdate
    <3> QED
      BY <2>6, <3>4 DEF Resume
  <2>7. CASE Crash
    BY <2>7 DEF Crash
  <2>8. CASE MoveBase
    BY <2>8, LoopAssumption DEF MoveBase, Bases
  <2>9. CASE PushForeign
    BY <2>9 DEF PushForeign
  <2>10. CASE OperatorCommit
    BY <2>10 DEF OperatorCommit, Heads
  <2>11. CASE ChangeResult
    BY <2>11, NoneAssumption DEF ChangeResult, Results
  <2>12. CASE Expire
    BY <2>12 DEF Expire
  <2> QED
    BY <1>4, <2>1, <2>2, <2>3, <2>4, <2>5, <2>6, <2>7, <2>8, <2>9, <2>10, <2>11, <2>12
       DEF PassChange
<1> QED
  BY <1>1, <1>2, <1>3, <1>4, PassWrites

(* No journal is ever discarded, and a hook starts with one.               *)
LEMMA HooksStep ==
    ASSUME TypeOK, HooksJournaled, [Next]_vars
    PROVE  HooksJournaled'
<1> USE NoneAssumption, PassAssumption DEF TypeOK, PassTypeOK, HooksJournaled, JournalOf
<1>1. CASE UNCHANGED passVars
  BY <1>1 DEF passVars
<1>2. ASSUME NEW i \in HookIds, HookStep(i, ctl.lock) PROVE HooksJournaled'
  <2> SUFFICES ASSUME NEW k \in HookIds, hooks'[k] # NoHook PROVE JournalOf(k)' # None
    OBVIOUS
  <2>1. hooks[i] # NoHook
    BY <1>2 DEF HookStep, HookCommit, PublishValidate, PublishPush, PublishRecord,
           PublishRecover, PublishAbort, HookRecord, HookBlock, At, NoHook
  <2>2. JournalOf(i) \in Journals /\ hooks[i] \in HookStates
    BY <2>1 DEF HookStates
  <2>3. hooks[k] # NoHook /\ hooks[k] \in HookStates
    BY <1>2, <2>1 DEF HookStep, HookCommit, PublishValidate, PublishPush, PublishRecord,
           PublishRecover, PublishAbort, HookRecord, HookBlock, Move
  <2>4. hooks'[k].engine = hooks[k].engine /\ hooks'[k].round = hooks[k].round
    <3>1. \/ \E s : hooks' = [hooks EXCEPT ![i].step = s]
          \/ \E s, h : hooks' = [hooks EXCEPT ![i].step = s, ![i].head = h]
      BY <1>2 DEF HookStep, HookCommit, PublishValidate, PublishPush, PublishRecord,
             PublishRecover, PublishAbort, HookRecord, HookBlock, Move
    <3>2. CASE \E s : hooks' = [hooks EXCEPT ![i].step = s]
      BY <2>2, <2>3, <3>2 DEF HookStates
    <3>3. ASSUME NEW s, NEW h, hooks' = [hooks EXCEPT ![i].step = s, ![i].head = h]
          PROVE  hooks'[k].engine = hooks[k].engine /\ hooks'[k].round = hooks[k].round
      <4>1. CASE k = i
        <5>1. hooks'[k] = [hooks[k] EXCEPT !.step = s, !.head = h]
          BY <3>3, <4>1
        <5> QED
          BY <2>3, <5>1 DEF HookStates
      <4>2. CASE k # i
        BY <3>3, <4>2
      <4> QED
        BY <4>1, <4>2
    <3> QED
      BY <3>1, <3>2, <3>3
  <2>5. \/ UNCHANGED journal
        \/ \E j \in Journals : SetJournal(i, j)
    BY <1>2, <2>2 DEF HookStep, HookCommit, PublishValidate, PublishPush, PublishRecord,
           PublishRecover, PublishAbort, HookRecord, HookBlock, Journals, HookStates
  <2> QED
    BY <2>2, <2>3, <2>4, <2>5 DEF SetJournal, HookStates
<1>3. ASSUME NEW i \in HookIds, HookExit(i) PROVE HooksJournaled'
  BY <1>3 DEF HookExit
<1>4. CASE PassChange
  <2> USE DEF Refuse, Stop, Goto, world, hostVars, passVars, Disturb
  <2>1. CASE OpenPass
    <3>1. \/ UNCHANGED passVars
          \/ \E i \in HookIds :
               /\ hooks' = [hooks EXCEPT
                      ![i] = NewHook(ctl.leg, ctl.round, ctl.base, ctl.head, ctl.lock)]
               /\ journal' = [journal EXCEPT ![ctl.leg][ctl.round] =
                      IF journal[ctl.leg][ctl.round] = None
                        THEN NewJournal(ctl.head) ELSE journal[ctl.leg][ctl.round]]
      BY <2>1 DEF OpenPass
    <3>2. NewJournal(ctl.head) \in Journals /\ ctl.leg \in Engines /\ ctl.round \in Rounds
      BY DEF NewJournal, Journals, Ctl
    <3> QED
      BY <3>1, <3>2 DEF NewHook, HookStates
  <2>2. CASE Resume
    <3>1. NewJournal(local) \in Journals /\ runState.round \in Rounds
      BY DEF NewJournal, Journals, RunStates
    <3>2. UNCHANGED hooks
      BY <2>2 DEF Resume
    <3>3. \/ journal' = journal
          \/ journal' = [journal EXCEPT ![runState.engine][runState.round] = NewJournal(local)]
      BY <2>2 DEF Resume
    <3> QED
      BY <3>1, <3>2, <3>3 DEF HookStates
  <2>3. CASE Crash
    BY <2>3 DEF Crash
  <2>4. CASE ~OpenPass /\ ~Resume /\ ~Crash
    BY <1>4, <2>4 DEF PassChange, Validation, MergeBase, PublishMerge, ClearPass,
       ValidateMerge, RecoverCodex, RecoverClaude, RecoverLeg, ValidatePass, FinalChecks,
       ResumeFinalized, MoveBase, PushForeign, OperatorCommit, ChangeResult, Expire
  <2> QED
    BY <2>1, <2>2, <2>3, <2>4
<1> QED
  BY <1>1, <1>2, <1>3, <1>4, PassWrites

(* The wrapper's variables: only the round can leave its range.            *)
LEMMA SigType == NoSig \in [Engines -> Results \cup {None}]
  BY DEF NoSig

LEMMA RoundUp ==
    ASSUME TypeOK, ctl.round <= MaxRounds
    PROVE  ctl.round + 1 \in Rounds
  BY MaxRoundsAssumption DEF TypeOK, Ctl, Rounds

LEMMA LateRoundUp ==
    ASSUME TypeOK, RoundsAgree, pc \in {"boundary", "rebase"}, runState.phase \in LatePhases
    PROVE  ctl.round + 1 \in Rounds
<1>1. ctl.round <= MaxRounds
  BY DEF RoundsAgree
<1> QED
  BY <1>1, RoundUp

LEMMA RecoverLegType ==
    ASSUME TypeOK, NEW e \in Engines, NEW d, NEW rec \in Engines \cup {"complete"}, NEW q,
           RecoverLeg(e, d, rec, q)
    PROVE  ctl' \in Ctl
<1> USE DEF TypeOK
<1>1. results[e][ctl.round] \in Results \cup {None}
  BY DEF PassTypeOK, Ctl
<1>2. \/ ctl' = NoCtl
      \/ ctl' = [ctl EXCEPT !.sig[e] = results[e][ctl.round], !.rec = rec]
  BY DEF RecoverLeg, Refuse, Stop
<1>3. [ctl EXCEPT !.sig[e] = results[e][ctl.round]] \in Ctl
  BY <1>1 DEF Ctl
<1>4. [ctl EXCEPT !.sig[e] = results[e][ctl.round], !.rec = rec] \in Ctl
  BY <1>3 DEF Ctl
<1> QED
  BY <1>2, <1>4, NoCtlType

LEMMA CtlStep == ASSUME TypeOK, Control, [Next]_vars PROVE ctl' \in Ctl
<1> USE NoCtlType, SigType DEF TypeOK, Refuse, Stop, Goto
<1>1. CASE BeginRound
  BY <1>1 DEF BeginRound, PassTypeOK, Ctl
<1>2. CASE CheckpointCodex
  BY <1>2 DEF CheckpointCodex, Ctl, Engines
<1>3. CASE RecoverCodex \/ RecoverClaude
  BY <1>3, RecoverLegType DEF RecoverCodex, RecoverClaude, Engines
<1>4. CASE CheckpointClaude
  BY <1>4 DEF CheckpointClaude, Ctl, Engines
<1>5. CASE ClearPass
  BY <1>5 DEF ClearPass, PassTypeOK, Ctl
<1>6. CASE OpenPass
  BY <1>6 DEF OpenPass, Ctl
<1>7. CASE InspectPass
  <2>1. results[ctl.leg][ctl.round] \in Results \cup {None}
    BY DEF PassTypeOK, Ctl
  <2>2. \/ ctl' \in {ctl, NoCtl}
        \/ ctl' = [ctl EXCEPT !.sig[ctl.leg] = results[ctl.leg][ctl.round]]
    BY <1>7 DEF InspectPass
  <2> QED
    BY <2>1, <2>2 DEF Ctl
<1>8. CASE BaseMoved \/ Decide
  <2>1. ctl.round + 1 \in Rounds
    BY <1>8, RoundUp DEF BaseMoved, Decide, Control, RoundsAgree, RoundPcs
  <2>2. \/ ctl' \in {ctl, NoCtl}
        \/ ctl' = [ctl EXCEPT !.round = @ + 1, !.sig = NoSig]
    BY <1>8 DEF BaseMoved, Decide, NextRound
  <2> QED
    BY <2>1, <2>2 DEF Ctl
<1>9. CASE FinalizeChecks
  BY <1>9 DEF FinalizeChecks, PassTypeOK, Ctl
<1>10. CASE RestoreDrifted
  BY <1>10 DEF RestoreDrifted, Ctl
<1>11. CASE ResumeBoundary
  <2>1. \/ ctl' \in {ctl, NoCtl}
        \/ ctl' = [ctl EXCEPT !.ready = FALSE]
        \/ Drifted /\ ctl' = [ctl EXCEPT !.round = @ + 1]
    BY <1>11 DEF ResumeBoundary
  <2>2. Drifted => ctl.round + 1 \in Rounds
    BY <1>11, LateRoundUp DEF ResumeBoundary, Drifted, Control
  <2> QED
    BY <2>1, <2>2 DEF Ctl
<1>12. CASE Rebase
  <2> DEFINE r == IF runState.phase \in LatePhases THEN ctl.round + 1 ELSE ctl.round
  <2>1. ctl' = NoCtl \/ ctl' = [ctl EXCEPT !.round = r]
    BY <1>12 DEF Rebase
  <2>2. r \in Rounds
    BY <1>12, LateRoundUp DEF Rebase, Control, Ctl
  <2> QED
    BY <2>1, <2>2 DEF Ctl
<1>13. CASE RecoverConverged
  <2>1. [e \in Engines |-> RecordedHash(e)] \in [Engines -> Results \cup {None}]
    BY DEF RecordedHash, RunStates
  <2>2. runState.base \in Bases /\ local \in Heads
    BY DEF RunStates, PassTypeOK
  <2> QED
    BY <1>13, <2>1, <2>2 DEF RecoverConverged, RecoveredCtl, Ctl
<1>14. CASE Resume
  <2>1. PICK cap \in ResumeCaps :
          LET last == Interrupted /\ runState.round >= cap IN
          ctl' = [NoCtl EXCEPT !.cap = cap, !.round = ResumeRound(last), !.rec = RecFor(last),
                               !.ready = runState.phase = "finalizing" /\ ~prDraft,
                               !.lock = IF Replays(last) THEN StatePass ELSE None]
    BY <1>14 DEF Resume
  <2> DEFINE last == Interrupted /\ runState.round >= cap
  <2>2. cap \in 1..MaxRounds
    BY LoopAssumption
  <2>3. ResumeRound(last) \in Rounds
    BY <2>2, MaxRoundsAssumption DEF ResumeRound, Rounds, RunStates
  <2>4. last => runState.engine \in Engines
    BY DEF Interrupted, Control, RunStateValid, ValidRunState, RunStates
  <2>5. RecFor(last) \in Engines \cup {"complete"}
    BY <2>4 DEF RecFor, Engines
  <2>6. (runState.phase = "finalizing" /\ ~prDraft) \in BOOLEAN
    OBVIOUS
  <2>7. (IF Replays(last) THEN StatePass ELSE None) \in Passes \cup {None}
    BY <2>4 DEF Replays, StatePass, Passes, RunStates
  <2> QED
    BY <2>1, <2>2, <2>3, <2>5, <2>6, <2>7, ResumedCtlType
<1>15. ASSUME NEW i \in HookIds, Hook(i) \/ HookExit(i) PROVE ctl' \in Ctl
  BY <1>15 DEF Hook, HookExit, Ctl
<1>16. CASE Environment \/ ResumeFinalized
  BY <1>16 DEF Environment, Fail, Crash, Kill, MoveBase, PushForeign, OperatorCommit,
     ChangeLedger, ChangeIssue, ChangeResult, Expire, ResumeFinalized
<1>17. CASE StartReview \/ MergeBase \/ MergeConflict \/ ValidateMerge \/ PublishMerge
            \/ AttestMerge \/ AttestPass \/ ValidatePass
  BY <1>17 DEF StartReview, MergeBase, MergeConflict, ValidateMerge, PublishMerge,
     AttestMerge, AttestPass, ValidatePass
<1>18. CASE FinalChecks \/ CheckpointFinalizing \/ MarkReady \/ MarkReadyFails
            \/ VerifyReady \/ RecordFinalized \/ RecordFails \/ RestoreDraft
            \/ RestoreFails \/ Unrecord \/ Cleanup
  BY <1>18 DEF FinalChecks, CheckpointFinalizing, MarkReady, MarkReadyFails, VerifyReady,
     RecordFinalized, RecordFails, RestoreDraft, RestoreFails, Unrecord, Cleanup
<1>19. CASE UNCHANGED vars
  BY <1>19 DEF vars
<1> QED
  BY <1>1, <1>2, <1>3, <1>4, <1>5, <1>6, <1>7, <1>8, <1>9, <1>10, <1>11, <1>12, <1>13,
     <1>14, <1>15, <1>16, <1>17, <1>18, <1>19 DEF Next, Wrapper

LEMMA PcStep == ASSUME TypeOK, [Next]_vars PROVE pc' \in Pcs
<1> USE DEF TypeOK, Refuse, Stop, Goto, Pcs, RunningPcs
<1>1. CASE Wrapper
  <2>1. CASE StartReview \/ BeginRound \/ MergeBase \/ MergeConflict \/ ValidateMerge
             \/ PublishMerge \/ AttestMerge \/ CheckpointCodex \/ RecoverCodex
             \/ RecoverClaude \/ CheckpointClaude \/ ClearPass \/ OpenPass
    BY <2>1 DEF StartReview, BeginRound, MergeBase, MergeConflict, ValidateMerge,
       PublishMerge, AttestMerge, CheckpointCodex, RecoverCodex, RecoverClaude, RecoverLeg,
       CheckpointClaude, ClearPass, OpenPass
  <2>2. CASE InspectPass \/ AttestPass \/ ValidatePass \/ BaseMoved \/ Decide
             \/ FinalChecks \/ FinalizeChecks \/ CheckpointFinalizing \/ MarkReady
             \/ MarkReadyFails \/ VerifyReady \/ RecordFinalized \/ RecordFails
    BY <2>2 DEF InspectPass, AttestPass, ValidatePass, BaseMoved, Decide, NextRound,
       FinalChecks, FinalizeChecks, CheckpointFinalizing, MarkReady, MarkReadyFails,
       VerifyReady, RecordFinalized, RecordFails
  <2>3. CASE RestoreDraft \/ RestoreFails \/ Unrecord \/ Cleanup \/ RestoreDrifted
             \/ ResumeBoundary \/ Rebase \/ RecoverConverged
    BY <2>3 DEF RestoreDraft, RestoreFails, Unrecord, Cleanup, RestoreDrifted,
       ResumeBoundary, Rebase, RecoverConverged
  <2> QED
    BY <1>1, <2>1, <2>2, <2>3 DEF Wrapper
<1>2. ASSUME NEW i \in HookIds, Hook(i) \/ HookExit(i) PROVE pc' \in Pcs
  BY <1>2 DEF Hook, HookExit
<1>3. CASE Resume \/ ResumeFinalized
  BY <1>3 DEF Resume, ResumeFinalized
<1>4. CASE Environment
  BY <1>4 DEF Environment, Fail, Crash, Kill, MoveBase, PushForeign, OperatorCommit,
     ChangeLedger, ChangeIssue, ChangeResult, Expire
<1>5. CASE UNCHANGED vars
  BY <1>5 DEF vars
<1> QED
  BY <1>1, <1>2, <1>3, <1>4, <1>5 DEF Next

(* Every checkpoint is a well-typed state.                                 *)
LEMMA ReviewingType ==
    ASSUME NEW s \in RunStates, NEW r \in Rounds, NEW b \in Bases, NEW h \in Heads,
           NEW e \in Engines
    PROVE  ToReviewing(s, r, b, h, e) \in RunStates
  BY DEF ToReviewing, UpdateRunState, RunStates, Phases

LEMMA ConvergedType ==
    ASSUME NEW s \in RunStates, NEW r \in Rounds, NEW b \in Bases, NEW h \in Heads,
           NEW c \in Results \cup {None}, NEW k \in Results \cup {None}
    PROVE  ToConverged(s, r, b, h, c, k) \in RunStates
  BY DEF ToConverged, UpdateRunState, RunStates, Phases

LEMMA PhaseType ==
    ASSUME NEW s \in RunStates, NEW p \in Phases, NEW r \in Rounds, NEW b \in Bases,
           NEW h \in Heads
    PROVE  ToPhase(s, p, r, b, h) \in RunStates
  BY DEF ToPhase, UpdateRunState, RunStates, Phases

LEMMA RunStateStep == ASSUME TypeOK, Control, [Next]_vars PROVE runState' \in RunStates
<1>1. CASE UNCHANGED runState
  BY <1>1 DEF TypeOK
<1>2. CASE Checkpoint
  <2> USE ReviewingType, ConvergedType, PhaseType DEF TypeOK, PassTypeOK, CheckpointReviewing
  <2>1. ctl.round \in Rounds /\ ctl.base \in Bases /\ ctl.head \in Heads
    BY DEF Ctl
  <2>2. runState.base \in Bases /\ runState.head \in Heads
    BY DEF RunStates
  <2>3. {"codex", "claude"} \subseteq Engines /\ {"finalizing", "finalized"} \subseteq Phases
    BY DEF Engines, Phases
  <2>4. CASE StartReview
    BY <2>2, <2>3, <2>4, MaxRoundsAssumption DEF StartReview, Rounds
  <2>5. CASE CheckpointCodex \/ CheckpointClaude
    BY <2>1, <2>3, <2>5 DEF CheckpointCodex, CheckpointClaude
  <2>6. CASE BaseMoved
    <3>1. ctl.round + 1 \in Rounds
      BY <2>6, RoundUp DEF BaseMoved, Control, RoundsAgree, RoundPcs
    <3> QED
      BY <2>3, <2>6, <3>1 DEF BaseMoved, NextRound, Refuse
  <2>7. CASE Decide
    <3>1. ctl.round + 1 \in Rounds
      BY <2>7, RoundUp DEF Decide, Control, RoundsAgree, RoundPcs
    <3>2. ctl.sig["codex"] \in Results \cup {None} /\ ctl.sig["claude"] \in Results \cup {None}
      BY DEF Ctl, Engines
    <3>3. \/ UNCHANGED runState
          \/ runState' = ToReviewing(runState, ctl.round + 1, base, local, "codex")
          \/ runState' = ToConverged(runState, ctl.round, ctl.base, local,
                                    ctl.sig["codex"], ctl.sig["claude"])
      BY <2>7 DEF Decide, NextRound, Refuse
    <3>4. ToConverged(runState, ctl.round, ctl.base, local, ctl.sig["codex"], ctl.sig["claude"])
             \in RunStates
      BY <2>1, <3>2
    <3>5. ToReviewing(runState, ctl.round + 1, base, local, "codex") \in RunStates
      BY <2>3, <3>1
    <3> QED
      BY <3>3, <3>4, <3>5
  <2>8. CASE CheckpointFinalizing \/ RecordFinalized \/ RecordFails \/ Unrecord
    BY <2>1, <2>3, <2>8 DEF CheckpointFinalizing, RecordFinalized, RecordFails, Unrecord,
       Finalized
  <2>9. CASE ResumeBoundary
    <3>1. Drifted => ctl.round + 1 \in Rounds
      BY <2>9, LateRoundUp DEF ResumeBoundary, Drifted, Control
    <3>2. \/ UNCHANGED runState
          \/ Drifted /\ runState' = ToReviewing(runState, ctl.round + 1, runState.base,
                                                local, "codex")
      BY <2>9 DEF ResumeBoundary, Refuse
    <3> QED
      BY <2>2, <2>3, <3>1, <3>2
  <2>10. CASE Rebase
    <3> DEFINE r == IF runState.phase \in LatePhases THEN ctl.round + 1 ELSE ctl.round
    <3>1. r \in Rounds
      BY <2>1, <2>10, LateRoundUp DEF Rebase, Control
    <3>2. UNCHANGED runState \/ runState' = ToReviewing(runState, r, base, local, "codex")
      BY <2>10 DEF Rebase, Refuse
    <3> QED
      BY <2>3, <3>1, <3>2
  <2> QED
    BY <1>2, <2>4, <2>5, <2>6, <2>7, <2>8, <2>9, <2>10 DEF Checkpoint
<1> QED
  BY <1>1, <1>2, CheckpointWrites

LEMMA HostStep ==
    ASSUME TypeOK, Control, [Next]_vars
    PROVE  /\ merged' \subseteq Bases /\ attests' \subseteq Results
           /\ prDraft' \in BOOLEAN /\ ledgerOk' \in BOOLEAN /\ issueOk' \in BOOLEAN
           /\ faults' \in Nat
<1> USE DEF TypeOK, Refuse, Stop, Goto, NextRound, hostVars, world, Disturb
<1>1. CASE Wrapper
  <2>1. CASE StartReview \/ BeginRound \/ MergeConflict \/ ValidateMerge \/ PublishMerge
             \/ AttestMerge \/ CheckpointCodex \/ RecoverCodex \/ RecoverClaude
             \/ CheckpointClaude \/ ClearPass \/ OpenPass
    BY <2>1 DEF StartReview, BeginRound, MergeConflict, ValidateMerge, PublishMerge,
       AttestMerge, CheckpointCodex, RecoverCodex, RecoverClaude, RecoverLeg,
       CheckpointClaude, ClearPass, OpenPass
  <2>2. CASE MergeBase
    BY <2>2 DEF MergeBase, Ctl
  <2>3. CASE AttestPass
    <3>1. ctl.sig[ctl.leg] \in Results
      BY <2>3 DEF AttestPass, Control, SignaturesHeld, Ctl
    <3> QED
      BY <2>3, <3>1 DEF AttestPass
  <2>4. CASE InspectPass \/ ValidatePass \/ BaseMoved \/ Decide \/ FinalChecks
             \/ FinalizeChecks \/ CheckpointFinalizing \/ VerifyReady
    BY <2>4 DEF InspectPass, ValidatePass, BaseMoved, Decide, FinalChecks, FinalizeChecks,
       CheckpointFinalizing, VerifyReady
  <2>5. CASE RecordFinalized \/ Unrecord \/ Cleanup \/ Rebase \/ RecoverConverged
    BY <2>5 DEF RecordFinalized, Unrecord, Cleanup, Rebase, RecoverConverged
  <2>6. CASE RecordFails
    BY <2>6 DEF RecordFails
  <2>7. CASE MarkReady \/ RestoreDraft \/ RestoreDrifted
    BY <2>7 DEF UndoReady, MarkReady, RestoreDraft, RestoreDrifted
  <2>8. CASE MarkReadyFails
    BY <2>8 DEF MarkReadyFails
  <2>9. CASE RestoreFails
    BY <2>9 DEF RestoreFails
  <2>10. CASE ResumeBoundary
    <3>1. prDraft' = prDraft \/ prDraft' = TRUE
      BY <2>10 DEF ResumeBoundary, UndoReady
    <3>2. UNCHANGED <<merged, attests, ledgerOk, issueOk, faults>>
      BY <2>10 DEF ResumeBoundary
    <3> QED
      BY <3>1, <3>2
  <2> QED
    BY <1>1, <2>1, <2>2, <2>3, <2>4, <2>5, <2>6, <2>7, <2>8, <2>9, <2>10 DEF Wrapper
<1>2. ASSUME NEW i \in HookIds, Hook(i) \/ HookExit(i)
      PROVE  UNCHANGED <<merged, hostVars, faults>>
  BY <1>2 DEF Hook, HookExit
<1>3. CASE Resume \/ ResumeFinalized
  BY <1>3 DEF Resume, ResumeFinalized
<1>4. CASE Environment
  <2>1. UNCHANGED <<merged, attests, prDraft>>
    BY <1>4 DEF Environment, Fail, Crash, Kill, MoveBase, PushForeign, OperatorCommit,
       ChangeLedger, ChangeIssue, ChangeResult, Expire
  <2>2. faults' \in {faults, faults + 1}
    BY <1>4 DEF Environment, Fail, Crash, Kill, MoveBase, PushForeign, OperatorCommit,
       ChangeLedger, ChangeIssue, ChangeResult, Expire
  <2>3. ledgerOk' \in BOOLEAN /\ issueOk' \in BOOLEAN
    BY <1>4, Zenon DEF Environment, Fail, Crash, Kill, MoveBase, PushForeign, OperatorCommit,
       ChangeLedger, ChangeIssue, ChangeResult, Expire
  <2> QED
    BY <2>1, <2>2, <2>3
<1>5. CASE UNCHANGED vars
  BY <1>5 DEF vars
<1> QED
  BY <1>1, <1>2, <1>3, <1>4, <1>5 DEF Next

LEMMA TypeStep == ASSUME IInv, [Next]_vars PROVE TypeOK' /\ HooksJournaled'
<1> USE DEF IInv
<1>1. PassTypeOK'
  BY PassStep
<1>2. HooksJournaled'
  BY HooksStep
<1>3. pc' \in Pcs /\ ctl' \in Ctl
  BY PcStep, CtlStep
<1>4. runState' \in RunStates
  BY RunStateStep
<1> QED
  BY <1>1, <1>2, <1>3, <1>4, HostStep DEF TypeOK

-----------------------------------------------------------------------------
(* The control invariant.                                                  *)

(* The validator accepts every checkpoint the wrapper writes.              *)
LEMMA RunStateValidStep == ASSUME TypeOK, Control, [Next]_vars PROVE RunStateValid'
<1> USE DEF RunStateValid, ValidRunState
<1>1. CASE UNCHANGED runState
  BY <1>1 DEF Control
<1>2. ASSUME NEW r, NEW b, NEW h, NEW e \in Engines,
             runState' = ToReviewing(runState, r, b, h, e)
      PROVE  RunStateValid'
  BY <1>2, NoneAssumption DEF ToReviewing, UpdateRunState, LatePhases
<1>3. ASSUME NEW p \in {"finalizing", "finalized"}, runState.phase \in LatePhases,
             runState' = ToPhase(runState, p, ctl.round, ctl.base, ctl.head)
      PROVE  RunStateValid'
  BY <1>3 DEF ToPhase, UpdateRunState, LatePhases, Control
<1>4. {"codex", "claude"} \subseteq Engines
  BY DEF Engines
<1>5. CASE Checkpoint
  <2> USE DEF CheckpointReviewing, Refuse, Stop
  <2>1. CASE StartReview
    BY <2>1, <1>2, <1>4 DEF StartReview
  <2>2. CASE CheckpointCodex \/ CheckpointClaude
    BY <2>2, <1>2, <1>4 DEF CheckpointCodex, CheckpointClaude
  <2>3. CASE BaseMoved
    BY <2>3, <1>1, <1>2, <1>4 DEF BaseMoved, NextRound
  <2>4. CASE Decide
    <3>1. ctl.sig["codex"] # None /\ ctl.sig["claude"] # None
      BY <2>4 DEF Decide, Control, SignaturesHeld
    <3>2. \/ UNCHANGED runState
          \/ runState' = ToReviewing(runState, ctl.round + 1, base, local, "codex")
          \/ runState' = ToConverged(runState, ctl.round, ctl.base, local,
                                    ctl.sig["codex"], ctl.sig["claude"])
      BY <2>4 DEF Decide, NextRound
    <3>3. ASSUME runState' = ToConverged(runState, ctl.round, ctl.base, local,
                                         ctl.sig["codex"], ctl.sig["claude"])
          PROVE  RunStateValid'
      BY <3>1, <3>3 DEF ToConverged, UpdateRunState
    <3> QED
      BY <1>1, <1>2, <1>4, <3>2, <3>3
  <2>5. CASE CheckpointFinalizing \/ RecordFinalized \/ RecordFails \/ Unrecord
    <3>1. runState.phase \in LatePhases
      BY <2>5 DEF CheckpointFinalizing, RecordFinalized, RecordFails, Unrecord, Control,
         RoundsAgree, LatePcs, CheckpointedPcs
    <3> QED
      BY <2>5, <3>1, <1>1, <1>3 DEF CheckpointFinalizing, RecordFinalized, RecordFails,
         Unrecord, Finalized
  <2>6. CASE ResumeBoundary
    BY <2>6, <1>1, <1>2, <1>4 DEF ResumeBoundary
  <2>7. CASE Rebase
    BY <2>7, <1>1, <1>2, <1>4 DEF Rebase
  <2> QED
    BY <1>5, <2>1, <2>2, <2>3, <2>4, <2>5, <2>6, <2>7 DEF Checkpoint
<1> QED
  BY <1>1, <1>5, CheckpointWrites

(* Stopping forgets everything, so nothing is left to be wrong about.      *)
LEMMA StopControl ==
    ASSUME Control, Stop
    PROVE  /\ SignaturesHeld'
           /\ UNCHANGED runState => RoundsAgree'
           /\ DraftKnown'
<1> USE DEF Stop, NoCtl, RoundPcs, LegPcs, DraftPcs, CheckpointedPcs, LatePcs
<1>1. SignaturesHeld'
  BY DEF SignaturesHeld
<1>2. UNCHANGED runState => RoundsAgree'
  BY DEF Control, RoundsAgree
<1>3. DraftKnown'
  BY DEF DraftKnown
<1> QED
  BY <1>1, <1>2, <1>3

(* Hooks, and the world apart from interruptions, leave the wrapper alone. *)
LEMMA OthersControl ==
    ASSUME TypeOK, Control, [Next]_vars, ~Wrapper, ~Resume, ~ResumeFinalized
    PROVE  Control' \/ Stop \/ (\E i \in HookIds : HookExit(i)) \/ Fail
<1>1. ASSUME NEW i \in HookIds, Hook(i) PROVE Control'
  BY <1>1, ControlFrame DEF Hook, hostVars
<1>2. CASE Environment
  BY <1>2, ControlFrame DEF Environment, Crash, Kill, MoveBase, PushForeign, OperatorCommit,
     ChangeLedger, ChangeIssue, ChangeResult, Expire, hostVars
<1>3. CASE UNCHANGED vars
  BY <1>3, ControlFrame DEF vars, hostVars
<1> QED
  BY <1>1, <1>2, <1>3 DEF Next

LEMMA RecoverLegSignatures ==
    ASSUME TypeOK, Control, NEW e \in Engines, NEW d, NEW rec, NEW q,
           RecoverLeg(e, d, rec, q)
    PROVE  \/ Stop
           \/ /\ pc' = q
              /\ ctl'.sig[e] # None
              /\ \A f \in Engines \ {e} : ctl'.sig[f] = ctl.sig[f]
<1>1. Recovers(e, d) => results[e][ctl.round] # None
  BY DEF Recovers
<1>2. \/ Stop
      \/ /\ pc' = q /\ Recovers(e, d)
         /\ ctl' = [ctl EXCEPT !.sig[e] = results[e][ctl.round], !.rec = rec]
  BY DEF RecoverLeg, Refuse
<1>3. ctl \in Ctl
  BY DEF TypeOK
<1> QED
  BY <1>1, <1>2, <1>3 DEF Ctl

LEMMA SignaturesStep == ASSUME TypeOK, Control, [Next]_vars PROVE SignaturesHeld'
<1> USE DEF LegPcs, Refuse, Goto
<1>1. Stop => SignaturesHeld'
  BY StopControl
<1>2. CASE InspectPass
  <2> DEFINE res == results[ctl.leg][ctl.round]
  <2>1. \/ Stop
        \/ pc' = "moved" /\ UNCHANGED ctl
        \/ pc' = "attest" /\ res # None /\ ctl' = [ctl EXCEPT !.sig[ctl.leg] = res]
    BY <1>2 DEF InspectPass, ValidResult
  <2>2. pc = "inspect" /\ ctl \in Ctl
    BY <1>2 DEF InspectPass, TypeOK
  <2> QED
    BY <1>1, <2>1, <2>2 DEF Control, SignaturesHeld, Ctl, Engines
<1>3. CASE ValidatePass
  <2>1. \/ Stop
        \/ pc' = "moved" /\ UNCHANGED ctl
        \/ pc' = "toClaude" /\ ctl.leg = "codex" /\ UNCHANGED ctl
        \/ pc' = "decide" /\ ctl.leg # "codex" /\ UNCHANGED ctl
    BY <1>3 DEF ValidatePass, Boundary
  <2>2. pc = "validate" /\ ctl.leg \in Engines
    BY <1>3 DEF ValidatePass, TypeOK, Ctl
  <2> QED
    BY <1>1, <2>1, <2>2 DEF Control, SignaturesHeld, Engines
<1>4. CASE RecoverCodex
  <2>1. Stop \/ (pc' \in {"recoverClaude", "toClaude"} /\ ctl'.sig["codex"] # None)
    BY <1>4, RecoverLegSignatures DEF RecoverCodex, Engines
  <2> QED
    BY <1>1, <2>1 DEF SignaturesHeld
<1>5. CASE RecoverClaude
  <2>1. ctl.sig["codex"] # None
    BY <1>5 DEF RecoverClaude, Control, SignaturesHeld
  <2>2. \/ Stop
        \/ pc' = "decide" /\ ctl'.sig["claude"] # None /\ ctl'.sig["codex"] = ctl.sig["codex"]
    BY <1>5, RecoverLegSignatures DEF RecoverClaude, Engines
  <2> QED
    BY <1>1, <2>1, <2>2 DEF SignaturesHeld
<1>6. CASE CheckpointCodex \/ CheckpointClaude \/ ClearPass \/ OpenPass \/ AttestPass
  BY <1>1, <1>6 DEF CheckpointCodex, CheckpointClaude, ClearPass, OpenPass, AttestPass,
     Control, SignaturesHeld, TypeOK, Ctl
<1>7. CASE StartReview \/ BeginRound \/ MergeBase \/ MergeConflict \/ ValidateMerge
           \/ PublishMerge \/ AttestMerge \/ BaseMoved \/ Decide \/ FinalChecks
           \/ FinalizeChecks \/ CheckpointFinalizing \/ MarkReady \/ MarkReadyFails
  BY <1>1, <1>7 DEF StartReview, BeginRound, MergeBase, MergeConflict, ValidateMerge,
     PublishMerge, AttestMerge, BaseMoved, Decide, NextRound, FinalChecks, FinalizeChecks,
     CheckpointFinalizing, MarkReady, MarkReadyFails, SignaturesHeld
<1>8. CASE VerifyReady \/ RecordFinalized \/ RecordFails \/ RestoreDraft \/ RestoreFails
           \/ Unrecord \/ Cleanup \/ RestoreDrifted \/ ResumeBoundary \/ Rebase
           \/ RecoverConverged \/ Resume \/ ResumeFinalized \/ Fail
  BY <1>1, <1>8 DEF VerifyReady, RecordFinalized, RecordFails, RestoreDraft, RestoreFails,
     Unrecord, Cleanup, RestoreDrifted, ResumeBoundary, Rebase, RecoverConverged, Resume,
     ResumeFinalized, Fail, SignaturesHeld
<1>9. ASSUME NEW i \in HookIds, HookExit(i) PROVE SignaturesHeld'
  BY <1>1, <1>9 DEF HookExit, Control, SignaturesHeld, TypeOK, Ctl
<1> QED
  BY <1>1, <1>2, <1>3, <1>4, <1>5, <1>6, <1>7, <1>8, <1>9, OthersControl DEF Wrapper, Control

(* What a checkpoint of each kind does to the phase and the round.         *)
LEMMA ReviewingFields ==
    ASSUME NEW s, NEW r, NEW b, NEW h, NEW e
    PROVE  /\ ToReviewing(s, r, b, h, e).phase = "reviewing"
           /\ ToReviewing(s, r, b, h, e).round = r
  BY DEF ToReviewing, UpdateRunState

LEMMA ConvergedFields ==
    ASSUME NEW s, NEW r, NEW b, NEW h, NEW c, NEW k
    PROVE  /\ ToConverged(s, r, b, h, c, k).phase = "converged"
           /\ ToConverged(s, r, b, h, c, k).round = r
  BY DEF ToConverged, UpdateRunState

LEMMA PhaseFields ==
    ASSUME NEW s, NEW p, NEW r, NEW b, NEW h
    PROVE  /\ ToPhase(s, p, r, b, h).phase = p
           /\ ToPhase(s, p, r, b, h).round = r
  BY DEF ToPhase, UpdateRunState

LEMMA NextRoundFields ==
    ASSUME TypeOK, NEW b, NextRound(b)
    PROVE  /\ pc' = "round" /\ ctl'.round = ctl.round + 1 /\ ctl'.ready = ctl.ready
           /\ runState'.phase = "reviewing" /\ runState'.round = ctl.round + 1
           /\ UNCHANGED prDraft
  BY ReviewingFields DEF NextRound, CheckpointReviewing, TypeOK, Ctl, hostVars

LEMMA RoundsStep == ASSUME TypeOK, Control, [Next]_vars PROVE RoundsAgree'
<1> USE DEF Refuse, Goto, RoundPcs, LatePcs, CheckpointedPcs, LatePhases
<1>1. Stop /\ UNCHANGED runState => RoundsAgree'
  BY StopControl
<1>2. ctl \in Ctl /\ ctl.round \in Int /\ runState.round \in Int /\ ctl.cap \in 1..MaxRounds
  BY MaxRoundsAssumption DEF TypeOK, Ctl, RunStates, Rounds
<1>3. CASE StartReview
  <2>1. /\ pc' = "round" /\ UNCHANGED ctl
        /\ runState'.phase = "reviewing" /\ runState'.round = 1
    BY <1>3, ReviewingFields DEF StartReview
  <2>2. 1 <= ctl.round
    BY <1>2 DEF Ctl, Rounds
  <2> QED
    BY <2>1, <2>2 DEF RoundsAgree
<1>4. CASE BeginRound
  <2>1. \/ Stop /\ UNCHANGED runState
        \/ /\ pc' \in {"leg", "merge"} /\ UNCHANGED runState
           /\ ctl'.round = ctl.round /\ ctl.round <= ctl.cap
    BY <1>2, <1>4 DEF BeginRound, BudgetSpent, Ctl
  <2> QED
    BY <1>1, <1>2, <1>4, <2>1, MaxRoundsAssumption DEF BeginRound, Control, RoundsAgree
<1>5. CASE MergeBase \/ MergeConflict \/ ValidateMerge \/ PublishMerge \/ AttestMerge
           \/ AttestPass \/ ValidatePass
  BY <1>1, <1>5 DEF MergeBase, MergeConflict, ValidateMerge, PublishMerge, AttestMerge,
     AttestPass, ValidatePass, Boundary, Control, RoundsAgree
<1>6. CASE CheckpointCodex \/ CheckpointClaude
  <2>1. pc' = "pass" /\ ctl'.round = ctl.round
    BY <1>2, <1>6 DEF CheckpointCodex, CheckpointClaude, Ctl
  <2>2. PICK e : runState' = ToReviewing(runState, ctl.round, ctl.base, local, e)
    BY <1>6 DEF CheckpointCodex, CheckpointClaude, CheckpointReviewing
  <2>3. runState'.phase = "reviewing" /\ runState'.round = ctl.round
    BY <2>2, ReviewingFields
  <2>4. ctl.round <= MaxRounds
    BY <1>6 DEF CheckpointCodex, CheckpointClaude, Control, RoundsAgree
  <2> QED
    BY <1>2, <2>1, <2>3, <2>4 DEF RoundsAgree
<1>7. CASE RecoverCodex \/ RecoverClaude \/ ClearPass \/ OpenPass \/ InspectPass
  <2>1. \/ Stop /\ UNCHANGED runState
        \/ pc \in RoundPcs /\ pc' \in RoundPcs /\ ctl'.round = ctl.round /\ UNCHANGED runState
    BY <1>2, <1>7 DEF RecoverCodex, RecoverClaude, RecoverLeg, ClearPass, OpenPass,
       InspectPass, Ctl
  <2> QED
    BY <1>1, <2>1 DEF Control, RoundsAgree
<1>8. CASE BaseMoved
  BY <1>1, <1>2, <1>8, NextRoundFields DEF BaseMoved, RoundsAgree
<1>9. CASE Decide
  <2>1. \/ Stop /\ UNCHANGED runState
        \/ NextRound(base)
        \/ /\ pc' = "final" /\ UNCHANGED ctl
           /\ runState'.phase = "converged" /\ runState'.round = ctl.round
    BY <1>9, ConvergedFields DEF Decide
  <2>2. ctl.round <= MaxRounds
    BY <1>9 DEF Decide, Control, RoundsAgree
  <2> QED
    BY <1>1, <1>2, <2>1, <2>2, NextRoundFields DEF RoundsAgree
<1>10. CASE FinalChecks \/ FinalizeChecks \/ MarkReady \/ MarkReadyFails \/ VerifyReady
            \/ RestoreDraft \/ RestoreFails \/ Cleanup
  BY <1>1, <1>2, <1>10 DEF FinalChecks, FinalizeChecks, MarkReady, MarkReadyFails,
     VerifyReady, RestoreDraft, RestoreFails, Cleanup, Ctl, Control, RoundsAgree
<1>11. CASE CheckpointFinalizing \/ RecordFinalized \/ RecordFails
  BY <1>11, PhaseFields DEF CheckpointFinalizing, RecordFinalized, RecordFails, Finalized,
     Control, RoundsAgree
<1>12. CASE Unrecord
  BY <1>12, PhaseFields DEF Unrecord, Stop, Control, RoundsAgree
<1>13. CASE RestoreDrifted
  BY <1>2, <1>13 DEF RestoreDrifted, Ctl, Control, RoundsAgree
<1>14. CASE ResumeBoundary
  <2>1. CASE Boundary(runState.base, ~ctl.ready) = "ok" /\ Drifted
    BY <1>2, <1>14, <2>1, ReviewingFields DEF ResumeBoundary, CheckpointReviewing, Ctl, RoundsAgree
  <2>2. CASE ~(Boundary(runState.base, ~ctl.ready) = "ok" /\ Drifted)
    <3>1. \/ Stop /\ UNCHANGED runState
          \/ pc' = "rebase" /\ ctl'.round = ctl.round /\ UNCHANGED runState
          \/ pc' = "rollback" /\ ctl.ready /\ UNCHANGED <<ctl, runState>>
          \/ pc' = "recovered" /\ runState.phase \in LatePhases /\ UNCHANGED <<ctl, runState>>
          \/ pc' = "round" /\ runState.phase \notin LatePhases /\ UNCHANGED <<ctl, runState>>
      BY <1>2, <1>14, <2>2 DEF ResumeBoundary, Ctl
    <3> QED
      BY <1>1, <1>14, <3>1 DEF ResumeBoundary, Control, RoundsAgree, DraftKnown
  <2> QED
    BY <2>1, <2>2
<1>15. CASE Rebase
  <2>1. \/ Stop /\ UNCHANGED runState
        \/ /\ pc' = "round" /\ ctl'.round = runState'.round
           /\ runState'.phase = "reviewing"
    BY <1>2, <1>15, ReviewingFields DEF Rebase, CheckpointReviewing, Ctl
  <2>2. ctl'.round \in Int
    BY CtlStep, MaxRoundsAssumption DEF Ctl, Rounds
  <2> QED
    BY <1>1, <2>1, <2>2 DEF RoundsAgree
<1>16. CASE RecoverConverged
  <2>1. /\ UNCHANGED runState
        /\ \/ pc' = "final" /\ ctl'.round = ctl.round
           \/ pc' = "rollback" /\ ctl' = ctl
           \/ pc' = "stopped"
    <3>1. /\ UNCHANGED runState
          /\ \/ pc' = "final" /\ ctl' = RecoveredCtl
             \/ pc' = "rollback" /\ ctl' = ctl
             \/ pc' = "stopped"
      BY <1>2, <1>16 DEF RecoverConverged, Stop
    <3> QED
      BY <3>1, RecoveredFields
  <2> QED
    BY <1>16, <2>1 DEF RecoverConverged, Control, RoundsAgree
<1>17. CASE Resume
  <2>1. PICK last \in BOOLEAN :
          /\ ctl'.round = ResumeRound(last)
          /\ pc' = "boundary" /\ UNCHANGED runState
    BY <1>17 DEF Resume, NoCtl
  <2>2. runState.phase \in LatePhases => ctl'.round = runState.round
    BY <2>1 DEF ResumeRound, Interrupted
  <2>3. runState.round <= ctl'.round
    BY <1>2, <2>1 DEF ResumeRound
  <2> QED
    BY <2>1, <2>2, <2>3 DEF Control, RoundsAgree
<1>18. CASE ResumeFinalized
  BY <1>18 DEF ResumeFinalized, Control, RoundsAgree
<1>19. CASE Fail
  BY <1>1, <1>19 DEF Fail, Control, RoundsAgree, DraftKnown
<1>20. ASSUME NEW i \in HookIds, HookExit(i) PROVE RoundsAgree'
  BY <1>1, <1>2, <1>20 DEF HookExit, Ctl, Control, RoundsAgree
<1>21. CASE UNCHANGED runState /\ Stop
  BY <1>1, <1>21
<1> QED
  BY <1>3, <1>4, <1>5, <1>6, <1>7, <1>8, <1>9, <1>10, <1>11, <1>12, <1>13, <1>14, <1>15,
     <1>16, <1>17, <1>18, <1>19, <1>20, <1>21, OthersControl, CheckpointWrites
     DEF Wrapper, Control, Checkpoint

(* A boundary that was attested, or found moved, has the PR's draft state. *)
LEMMA BoundaryDraft ==
    ASSUME TypeOK, NEW b, Boundary(b, ~ctl.ready) # "bad"
    PROVE  ~ctl.ready => prDraft
<1>1. prDraft = ~ctl.ready
  <2>1. CASE remote # local \/ prDraft # ~ctl.ready
    BY <2>1 DEF Boundary
  <2> QED
    BY <2>1
<1>2. prDraft \in BOOLEAN
  BY DEF TypeOK
<1> QED
  BY <1>1, <1>2

LEMMA DraftStep == ASSUME TypeOK, Control, [Next]_vars PROVE DraftKnown'
<1> USE DEF Refuse, Goto, RoundPcs, DraftPcs, CheckpointedPcs, ReadyPcs
<1>1. Stop => DraftKnown'
  BY StopControl
<1>2. ctl \in Ctl /\ ctl.ready \in BOOLEAN
  BY DEF TypeOK, Ctl
<1>3. ASSUME pc' \in DraftPcs, pc \in DraftPcs,
             UNCHANGED prDraft, ctl'.ready = ctl.ready
      PROVE  DraftKnown'
  BY <1>3 DEF Control, DraftKnown
<1>4. CASE StartReview \/ MergeBase \/ MergeConflict \/ ValidateMerge \/ PublishMerge
           \/ AttestMerge
  BY <1>1, <1>3, <1>4 DEF StartReview, MergeBase, MergeConflict, ValidateMerge,
     PublishMerge, AttestMerge, hostVars, world
<1>5. CASE BeginRound \/ CheckpointCodex \/ CheckpointClaude
  BY <1>1, <1>2, <1>3, <1>5 DEF BeginRound, CheckpointCodex, CheckpointClaude, Ctl, hostVars
<1>6. CASE RecoverCodex \/ RecoverClaude
  BY <1>1, <1>2, <1>3, <1>6 DEF RecoverCodex, RecoverClaude, RecoverLeg, Ctl
<1>7. CASE ClearPass \/ OpenPass \/ InspectPass
  BY <1>1, <1>2, <1>3, <1>7 DEF ClearPass, OpenPass, InspectPass, Ctl, hostVars
<1>8. CASE AttestPass \/ ValidatePass
  <2>1. Stop \/ (pc' \in {"validate", "moved", "toClaude", "decide"} /\ UNCHANGED <<ctl, prDraft>>)
    BY <1>8 DEF AttestPass, ValidatePass
  <2> QED
    BY <1>1, <1>3, <1>8, <2>1 DEF AttestPass, ValidatePass
<1>9. CASE BaseMoved
  BY <1>1, <1>3, <1>9, NextRoundFields DEF BaseMoved
<1>10. CASE Decide
  <2>1. Stop \/ NextRound(base) \/ (pc' = "final" /\ UNCHANGED <<ctl, prDraft>>)
    BY <1>10 DEF Decide, hostVars
  <2>2. prDraft /\ ~ctl.ready
    BY <1>10 DEF Decide, Control, DraftKnown
  <2> QED
    BY <1>1, <1>3, <1>10, <2>1, <2>2, NextRoundFields DEF Decide, DraftKnown
<1>11. CASE FinalChecks
  <2>1. \/ Stop
        \/ pc' = "rollback" /\ ctl.ready
        \/ pc' = "record" /\ ctl.ready
        \/ pc' = "finalize" /\ ~ctl.ready
    BY <1>1, <1>11 DEF FinalChecks
  <2>2. UNCHANGED <<runState, prDraft>> /\ (Stop \/ UNCHANGED ctl)
    BY <1>11 DEF FinalChecks, hostVars
  <2> QED
    BY <1>1, <1>11, <2>1, <2>2 DEF FinalChecks, Control, DraftKnown
<1>12. CASE FinalizeChecks
  BY <1>1, <1>2, <1>3, <1>12 DEF FinalizeChecks, Ctl, hostVars
<1>13. CASE CheckpointFinalizing
  BY <1>13, PhaseFields DEF CheckpointFinalizing, Control, DraftKnown, hostVars
<1>14. CASE MarkReady \/ MarkReadyFails \/ VerifyReady
  <2>1. Stop \/ (pc' \in {"verifyReady", "record", "rollback"} /\ UNCHANGED <<ctl, runState>>)
    BY <1>14 DEF MarkReady, MarkReadyFails, VerifyReady
  <2> QED
    BY <1>1, <1>14, <2>1 DEF MarkReady, MarkReadyFails, VerifyReady, Control, DraftKnown
<1>15. CASE RecordFinalized \/ RecordFails
  <2>1. runState'.phase \in {"finalizing", "finalized"}
    BY <1>15, PhaseFields DEF RecordFinalized, RecordFails, Finalized, Control, DraftKnown
  <2>2. pc' \in {"cleanup", "rollbackRecord"} /\ UNCHANGED ctl
    BY <1>15 DEF RecordFinalized, RecordFails
  <2> QED
    BY <2>1, <2>2 DEF Control, DraftKnown
<1>16. CASE RestoreDraft
  <2>1. Stop \/ (pc' = "unrecord" /\ prDraft' = TRUE /\ UNCHANGED <<ctl, runState>>)
    BY <1>16 DEF RestoreDraft, UndoReady
  <2> QED
    BY <1>1, <1>16, <2>1 DEF RestoreDraft, Control, DraftKnown
<1>17. CASE RestoreFails \/ Unrecord
  BY <1>1, <1>17 DEF RestoreFails, Unrecord
<1>18. CASE Cleanup
  BY <1>18 DEF Cleanup, Control, DraftKnown
<1>19. CASE RestoreDrifted
  <2>1. pc' = "boundary" /\ ctl'.ready = FALSE
    BY <1>2, <1>19 DEF RestoreDrifted, Ctl
  <2> QED
    BY <2>1 DEF DraftKnown
<1>20. CASE ResumeBoundary
  <2> DEFINE b == Boundary(runState.base, ~ctl.ready)
  <2>1. ctl.ready => runState.phase \in {"finalizing", "finalized"}
    BY DEF Control, DraftKnown
  <2>2. CASE b = "moved"
    <3>1. pc' = "rebase" /\ ctl'.ready = FALSE
      BY <1>2, <1>20, <2>2 DEF ResumeBoundary, Ctl
    <3>2. ctl.ready \/ prDraft
      BY <2>2, BoundaryDraft
    <3>3. IF ctl.ready THEN prDraft' = TRUE ELSE UNCHANGED prDraft
      BY <1>20, <2>2 DEF ResumeBoundary, UndoReady
    <3>4. prDraft'
      BY <1>2, <3>2, <3>3
    <3> QED
      BY <3>1, <3>4 DEF DraftKnown
  <2>3. CASE b = "bad"
    BY <1>1, <1>20, <2>1, <2>3 DEF ResumeBoundary, DraftKnown
  <2>4. CASE b = "ok" /\ Drifted
    <3>1. pc' = "round" /\ ~ctl.ready /\ ctl'.ready = ctl.ready /\ UNCHANGED prDraft
      BY <1>2, <1>20, <2>4 DEF ResumeBoundary, Ctl, hostVars
    <3>2. prDraft
      BY <2>4, <3>1, BoundaryDraft
    <3> QED
      BY <3>1, <3>2 DEF DraftKnown
  <2>5. CASE b = "ok" /\ ~Drifted
    <3>1. /\ pc' = IF runState.phase \in LatePhases THEN "recovered" ELSE "round"
          /\ UNCHANGED <<ctl, runState, prDraft>>
      BY <1>20, <2>5 DEF ResumeBoundary, hostVars
    <3>2. ~ctl.ready => prDraft
      BY <2>5, BoundaryDraft
    <3> QED
      BY <2>1, <3>1, <3>2 DEF DraftKnown, LatePhases
  <2>6. b \in {"moved", "bad", "ok"}
    BY DEF Boundary
  <2> QED
    BY <2>2, <2>3, <2>4, <2>5, <2>6
<1>21. CASE Rebase
  BY <1>1, <1>2, <1>3, <1>21 DEF Rebase, Ctl, hostVars
<1>22. CASE RecoverConverged
  <2>1. /\ UNCHANGED <<runState, prDraft>>
        /\ \/ pc' = "final" /\ ctl'.ready = ctl.ready
           \/ pc' = "rollback" /\ ctl' = ctl /\ ctl.ready
           \/ pc' = "stopped" /\ ctl' = NoCtl
    <3>1. /\ UNCHANGED <<runState, prDraft>>
          /\ \/ pc' = "final" /\ ctl' = RecoveredCtl
             \/ pc' = "rollback" /\ ctl' = ctl /\ ctl.ready
             \/ pc' = "stopped" /\ ctl' = NoCtl
      BY <1>2, <1>22 DEF RecoverConverged, Stop, hostVars
    <3> QED
      BY <3>1, RecoveredFields
  <2> QED
    BY <1>22, <2>1 DEF RecoverConverged, Control, DraftKnown, NoCtl
<1>23. CASE Resume
  <2>1. /\ pc' = "boundary" /\ UNCHANGED runState
        /\ ctl'.ready => runState.phase = "finalizing"
    BY <1>23 DEF Resume, NoCtl
  <2> QED
    BY <2>1 DEF DraftKnown
<1>24. CASE ResumeFinalized
  BY <1>24 DEF ResumeFinalized, Control, DraftKnown
<1>25. CASE Fail
  BY <1>1, <1>25 DEF Fail, Control, DraftKnown
<1>26. ASSUME NEW i \in HookIds, HookExit(i) PROVE DraftKnown'
  <2>1. CASE pc = "hook" /\ ctl.hook = i
    BY <1>1, <1>2, <1>3, <1>26, <2>1 DEF HookExit, Ctl
  <2>2. CASE ~(pc = "hook" /\ ctl.hook = i)
    BY <1>26, <2>2 DEF HookExit, Control, DraftKnown
  <2> QED
    BY <2>1, <2>2
<1> QED
  BY <1>1, <1>4, <1>5, <1>6, <1>7, <1>8, <1>9, <1>10, <1>11, <1>12, <1>13, <1>14, <1>15,
     <1>16, <1>17, <1>18, <1>19, <1>20, <1>21, <1>22, <1>23, <1>24, <1>25, <1>26,
     OthersControl DEF Wrapper, Control

(* The PR is never out of draft behind the back of its checkpoint.         *)
LEMMA ReadyStep ==
    ASSUME TypeOK, Control, [Next]_vars
    PROVE  ReadyOnlyAtCheckpoint'
<1> USE DEF ReadyOnlyAtCheckpoint, Control
<1>1. CASE UNCHANGED <<runState, prDraft>>
  BY <1>1
<1>2. CASE prDraft'
  BY <1>2
<1>3. CASE Checkpoint /\ ~prDraft'
  <2>1. CASE ~ResumeBoundary
    <3>1. runState'.phase \in {"finalizing", "finalized"} \/ (prDraft /\ UNCHANGED prDraft)
             \/ UNCHANGED <<runState, prDraft>>
      BY <1>3, <2>1, PhaseFields DEF Checkpoint, StartReview, CheckpointCodex,
         CheckpointClaude, BaseMoved, Decide, NextRound, Refuse, CheckpointFinalizing,
         RecordFinalized, RecordFails, Finalized, Unrecord, Rebase, hostVars, DraftKnown,
         DraftPcs, RoundPcs, CheckpointedPcs
    <3> QED
      BY <1>1, <1>3, <3>1
  <2>2. CASE ResumeBoundary
    <3>1. \/ UNCHANGED <<runState, prDraft>>
          \/ UNCHANGED runState /\ prDraft'
          \/ /\ UNCHANGED prDraft /\ ~ctl.ready
             /\ Boundary(runState.base, ~ctl.ready) = "ok"
      BY <2>2 DEF ResumeBoundary, Refuse, UndoReady, hostVars
    <3>2. ASSUME ~ctl.ready, Boundary(runState.base, ~ctl.ready) = "ok" PROVE prDraft
      BY <3>2, BoundaryDraft
    <3> QED
      BY <1>1, <1>2, <1>3, <3>1, <3>2
  <2> QED
    BY <2>1, <2>2
<1>4. CASE DraftChange /\ ~Checkpoint /\ ~prDraft'
  <2>1. UNCHANGED runState
    BY <1>4, CheckpointWrites
  <2>2. pc \in CheckpointedPcs
    BY <1>4 DEF DraftChange, Checkpoint, MarkReady, MarkReadyFails, RestoreDraft,
       RestoreFails, RestoreDrifted, UndoReady, CheckpointedPcs
  <2> QED
    BY <2>1, <2>2 DEF DraftKnown
<1> QED
  BY <1>1, <1>2, <1>3, <1>4, CheckpointWrites, DraftWrites

LEMMA ControlStep == ASSUME IInv, [Next]_vars PROVE Control'
  BY RunStateValidStep, SignaturesStep, RoundsStep, DraftStep, ReadyStep DEF IInv, Control

(* No checkpoint records an earlier round than the one before it.          *)
LEMMA RoundGrows == ASSUME IInv, [Next]_vars PROVE runState'.round >= runState.round
<1> USE DEF IInv, Control, RoundsAgree
<1>1. runState.round \in Int /\ ctl.round \in Int
  BY MaxRoundsAssumption DEF TypeOK, Ctl, RunStates, Rounds
<1>2. CASE StartReview
  BY <1>1, <1>2, ReviewingFields DEF StartReview
<1>3. CASE CheckpointCodex \/ CheckpointClaude
  <2>1. PICK e : runState' = ToReviewing(runState, ctl.round, ctl.base, local, e)
    BY <1>3 DEF CheckpointCodex, CheckpointClaude, CheckpointReviewing
  <2>2. runState.round <= ctl.round
    BY <1>3 DEF CheckpointCodex, CheckpointClaude, RoundPcs
  <2> QED
    BY <1>1, <2>1, <2>2, ReviewingFields
<1>4. CASE BaseMoved \/ Decide
  <2>1. runState.round <= ctl.round
    BY <1>4 DEF BaseMoved, Decide, RoundPcs
  <2>2. runState'.round \in {runState.round, ctl.round, ctl.round + 1}
    BY <1>4, NextRoundFields, ConvergedFields DEF BaseMoved, Decide, Refuse
  <2> QED
    BY <1>1, <2>1, <2>2
<1>5. CASE CheckpointFinalizing \/ RecordFinalized \/ RecordFails \/ Unrecord
  <2>1. runState.round = ctl.round
    BY <1>5 DEF CheckpointFinalizing, RecordFinalized, RecordFails, Unrecord, LatePcs,
       CheckpointedPcs
  <2>2. runState'.round \in {runState.round, ctl.round}
    BY <1>5, PhaseFields DEF CheckpointFinalizing, RecordFinalized, RecordFails, Unrecord,
       Finalized
  <2> QED
    BY <1>1, <2>1, <2>2
<1>6. CASE ResumeBoundary \/ Rebase
  <2>1. runState.round <= ctl.round
    BY <1>6 DEF ResumeBoundary, Rebase
  <2>2. runState'.round \in {runState.round, ctl.round, ctl.round + 1}
    BY <1>6, ReviewingFields DEF ResumeBoundary, Rebase, CheckpointReviewing, Refuse
  <2> QED
    BY <1>1, <2>1, <2>2
<1> QED
  BY <1>1, <1>2, <1>3, <1>4, <1>5, <1>6, CheckpointWrites DEF Checkpoint

-----------------------------------------------------------------------------
(* The results.                                                            *)

(* The inductive invariant: types, a journal behind every review process,  *)
(* and what the wrapper's program counter says of its own memory, of the   *)
(* checkpoint and of the PR's draft flag.                                  *)
THEOREM Invariance == Spec => []IInv
<1>1. IInv /\ [Next]_vars => IInv'
  BY TypeStep, ControlStep DEF IInv
<1> QED
  BY InitInv, <1>1, PTL DEF Spec

(* Every variable stays within its type: in particular no run ever counts  *)
(* a round beyond the one after the cap, attests a result that does not    *)
(* exist, or publishes without a journal.                                  *)
THEOREM TypeCorrect == Spec => []TypeOK
<1>1. IInv => TypeOK
  BY DEF IInv
<1> QED
  BY <1>1, Invariance, PTL

(* The validator of agent-loop-state.py accepts every checkpoint: the      *)
(* wrapper never needs a write that the helper would refuse.               *)
THEOREM CheckpointsValid == Spec => []RunStateValid
<1>1. IInv => RunStateValid
  BY DEF IInv, Control
<1> QED
  BY <1>1, Invariance, PTL

(* Whatever fails, the PR is out of draft only under a checkpoint that     *)
(* says so.                                                                *)
THEOREM ReadyIsCheckpointed == Spec => []ReadyOnlyAtCheckpoint
<1>1. IInv => ReadyOnlyAtCheckpoint
  BY DEF IInv, Control
<1> QED
  BY <1>1, Invariance, PTL

(* The recorded round only grows, over every interruption and resume.      *)
THEOREM RoundsOnlyGrow == Spec => RoundNeverRegresses
<1>1. IInv /\ [Next]_vars => runState'.round >= runState.round
  BY RoundGrows
<1> QED
  BY Invariance, <1>1, PTL DEF Spec, RoundNeverRegresses

(* A ready PR never loses the checkpoint that says why it is ready: the    *)
(* review is reopened only while the PR is a draft.                        *)
THEOREM ReadyRecordIsKept == Spec => ReadyRecordKept
<1>1. ASSUME IInv, [Next]_vars, runState.phase \in {"finalizing", "finalized"},
             runState'.phase = "reviewing"
      PROVE  prDraft /\ prDraft'
  <2>1. prDraft \in BOOLEAN /\ prDraft' \in BOOLEAN
    BY <1>1, HostStep DEF IInv, TypeOK
  <2>2. prDraft'
    BY <1>1, <2>1, ReadyStep DEF IInv, ReadyOnlyAtCheckpoint
  <2>3. prDraft
    <3>1. Checkpoint
      BY <1>1, CheckpointWrites
    <3>2. CASE pc \in DraftPcs
      BY <1>1, <3>2 DEF IInv, Control, DraftKnown
    <3>3. CASE pc \in CheckpointedPcs
      BY <1>1, <3>1, <3>3, PhaseFields DEF Checkpoint, CheckpointedPcs, StartReview,
         CheckpointCodex, CheckpointClaude, BaseMoved, Decide, CheckpointFinalizing,
         RecordFinalized, RecordFails, Finalized, Unrecord, ResumeBoundary, Rebase
    <3>4. CASE ResumeBoundary
      <4>1. Boundary(runState.base, ~ctl.ready) = "ok" /\ ~ctl.ready
        BY <1>1, <3>4 DEF ResumeBoundary, Refuse
      <4> QED
        BY <1>1, <4>1, BoundaryDraft DEF IInv
    <3> QED
      BY <3>1, <3>2, <3>3, <3>4 DEF Checkpoint, StartReview, CheckpointCodex,
         CheckpointClaude, BaseMoved, Decide, CheckpointFinalizing, RecordFinalized,
         RecordFails, Unrecord, Rebase, DraftPcs, RoundPcs, CheckpointedPcs
  <2> QED
    BY <2>2, <2>3
<1> QED
  BY Invariance, <1>1, PTL DEF Spec, ReadyRecordKept

-----------------------------------------------------------------------------
(* One publication per pass.  A helper between its validation and its last *)
(* write holds the pass's lock and has its journal open.                   *)
Publishing(i) == hooks[i].step \in {"validated", "pushed"}

JournalsOpen ==
    /\ \A i \in HookIds : Publishing(i) => JournalOf(i).published = None
    /\ \A i, k \in HookIds : Publishing(i) /\ Publishing(k) /\ PassOf(i) = PassOf(k) => i = k

(* What a review process does to its journal.                              *)
LEMMA HookMoves ==
    ASSUME TypeOK, HooksJournaled, NEW i \in HookIds, HookStep(i, ctl.lock)
    PROVE  /\ hooks[i] \in HookStates /\ JournalOf(i) \in Journals
           /\ \A k \in HookIds \ {i} : hooks'[k] = hooks[k]
           /\ hooks'[i].engine = hooks[i].engine /\ hooks'[i].round = hooks[i].round
           /\ \/ UNCHANGED journal /\ (Publishing(i)' => Publishing(i))
              \/ /\ JournalFree(i, ctl.lock) /\ JournalOf(i).published = None
                 /\ \E j \in Journals : SetJournal(i, j) /\ j.start = JournalOf(i).start /\ j.published = None
              \/ /\ JournalFree(i, ctl.lock) /\ JournalOf(i).published = None
                 /\ ~Publishing(i)'
                 /\ \E j \in Journals : SetJournal(i, j) /\ j.start = JournalOf(i).start
              \/ /\ Publishing(i) /\ ~Publishing(i)'
                 /\ \E j \in Journals : SetJournal(i, j) /\ j.start = JournalOf(i).start
<1>1. hooks[i] # NoHook
  BY DEF HookStep, HookCommit, PublishValidate, PublishPush, PublishRecord,
         PublishRecover, PublishAbort, HookRecord, HookBlock, At, NoHook
<1>2. hooks[i] \in HookStates /\ hooks \in [HookIds -> HookStates \cup {NoHook}]
  BY <1>1 DEF TypeOK, PassTypeOK
<1>3. JournalOf(i) \in Journals
  BY <1>1, <1>2 DEF HooksJournaled, TypeOK, PassTypeOK, JournalOf, HookStates
<1>4. ASSUME NEW s, Move(i, s)
      PROVE  /\ \A k \in HookIds \ {i} : hooks'[k] = hooks[k]
             /\ hooks'[i].engine = hooks[i].engine /\ hooks'[i].round = hooks[i].round
             /\ hooks'[i].step = s
  BY <1>2, <1>4 DEF Move, HookStates
<1>5. CASE HookCommit(i) \/ PublishAbort(i) \/ HookRecord(i) \/ HookBlock(i) \/ PublishPush(i)
  <2>1. UNCHANGED journal
    BY <1>5 DEF HookCommit, PublishAbort, HookRecord, HookBlock, PublishPush
  <2>2. \/ Move(i, "committed") \/ Move(i, "recorded")
        \/ Publishing(i) /\ Move(i, "pushed")
    BY <1>5 DEF HookCommit, PublishAbort, HookRecord, HookBlock, PublishPush, Publishing, At
  <2> QED
    BY <1>2, <1>3, <1>4, <2>1, <2>2 DEF Publishing
<1>6. CASE PublishValidate(i, ctl.lock)
  <2> DEFINE j == [JournalOf(i) EXCEPT !.validated = local]
  <2>1. hooks' = [hooks EXCEPT ![i].step = "validated", ![i].head = local]
    BY <1>6 DEF PublishValidate
  <2>2. /\ \A k \in HookIds \ {i} : hooks'[k] = hooks[k]
        /\ hooks'[i].engine = hooks[i].engine /\ hooks'[i].round = hooks[i].round
    BY <1>2, <2>1 DEF HookStates
  <2>3. /\ JournalFree(i, ctl.lock) /\ JournalOf(i).published = None
        /\ SetJournal(i, j)
    BY <1>6 DEF PublishValidate
  <2>4. j \in Journals /\ j.start = JournalOf(i).start /\ j.published = JournalOf(i).published
    BY <1>3 DEF Journals, TypeOK, PassTypeOK
  <2> QED
    BY <1>2, <1>3, <2>2, <2>3, <2>4
<1>7. CASE PublishRecord(i)
  <2> DEFINE j == [JournalOf(i) EXCEPT !.published = hooks[i].head]
  <2>1. SetJournal(i, j) /\ j \in Journals /\ j.start = JournalOf(i).start
    BY <1>2, <1>3, <1>7 DEF PublishRecord, Journals, HookStates
  <2>2. Publishing(i) /\ Move(i, "published")
    BY <1>7 DEF PublishRecord, Publishing, At
  <2> QED
    BY <1>2, <1>3, <1>4, <2>1, <2>2 DEF Publishing
<1>8. CASE PublishRecover(i, ctl.lock)
  <2> DEFINE j == [JournalOf(i) EXCEPT !.published = local]
  <2>1. SetJournal(i, j) /\ j \in Journals /\ j.start = JournalOf(i).start
    BY <1>3, <1>8 DEF PublishRecover, Journals, TypeOK, PassTypeOK
  <2>2. JournalFree(i, ctl.lock) /\ JournalOf(i).published = None /\ Move(i, "published")
    BY <1>8 DEF PublishRecover
  <2> QED
    BY <1>2, <1>3, <1>4, <2>1, <2>2 DEF Publishing
<1> QED
  BY <1>5, <1>6, <1>7, <1>8 DEF HookStep

(* Who else writes a journal.                                              *)
LEMMA JournalWrites ==
    ASSUME TypeOK, [Next]_vars, ~ \E i \in HookIds : HookStep(i, ctl.lock)
    PROVE  \/ UNCHANGED <<journal, hooks>>
           \/ /\ UNCHANGED journal
              /\ \A k \in HookIds : hooks'[k] \in {hooks[k], NoHook}
           \/ /\ OpenPass /\ ctl.leg \in Engines /\ ctl.round \in Rounds
              /\ \E i \in HookIds :
                   /\ hooks[i] = NoHook /\ hooks'[i].step = "review"
                   /\ \A k \in HookIds \ {i} : hooks'[k] = hooks[k]
              /\ \A e \in Engines, r \in Rounds :
                   journal[e][r] # None => journal'[e][r] = journal[e][r]
           \/ /\ Resume /\ UNCHANGED hooks /\ ~HeldByHook(StatePass) /\ ResetAllowed
              /\ ~HasResult("codex") /\ ~HasResult("claude")
              /\ journal' = [journal EXCEPT ![runState.engine][runState.round] = NewJournal(local)]
<1> USE DEF TypeOK, PassTypeOK
<1>1. CASE UNCHANGED passVars
  BY <1>1 DEF passVars
<1>2. ASSUME NEW i \in HookIds, HookExit(i)
      PROVE  UNCHANGED journal /\ \A k \in HookIds : hooks'[k] \in {hooks[k], NoHook}
  BY <1>2 DEF HookExit
<1>3. CASE OpenPass
  <2> DEFINE j == journal[ctl.leg][ctl.round]
             new == IF j = None THEN NewJournal(ctl.head) ELSE j
             hook == NewHook(ctl.leg, ctl.round, ctl.base, ctl.head, ctl.lock)
  <2>1. ctl.leg \in Engines /\ ctl.round \in Rounds /\ hook.step = "review"
    BY DEF Ctl, NewHook
  <2>2. \/ UNCHANGED passVars
        \/ \E i \in HookIds :
             /\ hooks[i] = NoHook /\ hooks' = [hooks EXCEPT ![i] = hook]
             /\ journal' = [journal EXCEPT ![ctl.leg][ctl.round] = new]
    BY <1>3 DEF OpenPass, Refuse
  <2>3. j # None => new = j
    OBVIOUS
  <2> HIDE DEF new, hook
  <2>4. journal' = [journal EXCEPT ![ctl.leg][ctl.round] = new] =>
          \A e \in Engines, r \in Rounds : journal[e][r] # None => journal'[e][r] = journal[e][r]
    BY <2>1, <2>3
  <2> QED
    BY <1>3, <2>1, <2>2, <2>4 DEF passVars
<1>4. CASE Resume
  BY <1>4 DEF Resume, Replays
<1>5. CASE Crash
  BY <1>5 DEF Crash
<1>6. CASE PassChange /\ ~OpenPass /\ ~Resume /\ ~Crash
  BY <1>6 DEF PassChange, Validation, MergeBase, PublishMerge, ClearPass,
       ValidateMerge, RecoverCodex, RecoverClaude, RecoverLeg, ValidatePass, FinalChecks,
       ResumeFinalized, MoveBase, PushForeign, OperatorCommit, ChangeResult, Expire, Refuse,
       passVars
<1> QED
  BY <1>1, <1>2, <1>3, <1>4, <1>5, <1>6, PassWrites


LEMMA JournalSet ==
    ASSUME TypeOK, NEW i \in HookIds, hooks[i] \in HookStates, NEW j, SetJournal(i, j)
    PROVE  /\ journal'[hooks[i].engine][hooks[i].round] = j
           /\ \A e \in Engines, r \in Rounds :
                <<e, r>> # PassOf(i) => journal'[e][r] = journal[e][r]
  BY DEF TypeOK, PassTypeOK, SetJournal, HookStates, PassOf

LEMMA PublishingHook ==
    ASSUME TypeOK, HooksJournaled, NEW k \in HookIds, Publishing(k)
    PROVE  /\ hooks[k] \in HookStates /\ hooks[k] # NoHook
           /\ hooks[k].engine \in Engines /\ hooks[k].round \in Rounds
           /\ JournalOf(k) # None
<1>1. hooks[k] # NoHook
  BY DEF Publishing, NoHook
<1> QED
  BY <1>1 DEF TypeOK, PassTypeOK, HooksJournaled, HookStates

LEMMA JournalsStep ==
    ASSUME TypeOK, HooksJournaled, JournalsOpen, [Next]_vars
    PROVE  JournalsOpen'
<1>1. ASSUME NEW i \in HookIds, HookStep(i, ctl.lock) PROVE JournalsOpen'
  <2>1. /\ hooks[i] \in HookStates /\ hooks[i] # NoHook
        /\ \A k \in HookIds \ {i} : hooks'[k] = hooks[k]
        /\ hooks'[i].engine = hooks[i].engine /\ hooks'[i].round = hooks[i].round
    <3>1. hooks[i] # NoHook
      BY <1>1 DEF HookStep, HookCommit, PublishValidate, PublishPush, PublishRecord,
         PublishRecover, PublishAbort, HookRecord, HookBlock, At, NoHook
    <3> QED
      BY <1>1, <3>1, HookMoves
  <2>2. \A k \in HookIds : PassOf(k)' = PassOf(k)
    BY <2>1 DEF PassOf
  <2>3. \A k \in HookIds \ {i} : Publishing(k)' = Publishing(k)
    BY <2>1 DEF Publishing
  <2>4. JournalFree(i, ctl.lock) =>
          \A k \in HookIds \ {i} : Publishing(k) => PassOf(k) # PassOf(i)
    BY PublishingHook DEF JournalFree, HeldByHook, Publishing
  <2>5. Publishing(i) => \A k \in HookIds \ {i} : Publishing(k) => PassOf(k) # PassOf(i)
    BY DEF JournalsOpen
  <2>6. ASSUME UNCHANGED journal, Publishing(i)' => Publishing(i) PROVE JournalsOpen'
    <3>1. \A k \in HookIds : JournalOf(k)' = JournalOf(k) /\ (Publishing(k)' => Publishing(k))
      BY <2>1, <2>3, <2>6 DEF JournalOf
    <3> QED
      BY <2>2, <3>1 DEF JournalsOpen
  <2>7. ASSUME NEW j, SetJournal(i, j), Publishing(i)' => j.published = None,
               \A k \in HookIds \ {i} : Publishing(k) => PassOf(k) # PassOf(i)
        PROVE  JournalsOpen'
    <3>1. \A k \in HookIds \ {i} : Publishing(k) => JournalOf(k)' = JournalOf(k)
      <4> SUFFICES ASSUME NEW k \in HookIds \ {i}, Publishing(k)
                   PROVE  JournalOf(k)' = JournalOf(k)
        OBVIOUS
      <4>1. hooks[k].engine \in Engines /\ hooks[k].round \in Rounds
        BY PublishingHook
      <4>2. <<hooks[k].engine, hooks[k].round>> # PassOf(i)
        BY <2>7 DEF PassOf
      <4>3. journal'[hooks[k].engine][hooks[k].round] = journal[hooks[k].engine][hooks[k].round]
        BY <2>1, <2>7, <4>1, <4>2, JournalSet
      <4> QED
        BY <2>1, <4>3 DEF JournalOf
    <3>2. JournalOf(i)' = j
      BY <2>1, <2>7, JournalSet DEF JournalOf
    <3>3. \A k \in HookIds : Publishing(k)' => JournalOf(k)'.published = None
      BY <2>3, <2>7, <3>1, <3>2 DEF JournalsOpen
    <3>4. \A k, m \in HookIds :
            Publishing(k)' /\ Publishing(m)' /\ PassOf(k) = PassOf(m) => k = m
      BY <2>3, <2>7 DEF JournalsOpen
    <3>5. \A k, m \in HookIds :
            Publishing(k)' /\ Publishing(m)' /\ PassOf(k)' = PassOf(m)' => k = m
      BY <2>2, <3>4
    <3> QED
      BY <3>3, <3>5 DEF JournalsOpen
  <2> QED
    BY <1>1, <2>1, <2>4, <2>5, <2>6, <2>7, HookMoves
<1>2. CASE ~ \E i \in HookIds : HookStep(i, ctl.lock)
  <2>1. CASE UNCHANGED <<journal, hooks>>
    BY <2>1 DEF JournalsOpen, Publishing, JournalOf, PassOf
  <2>2. CASE UNCHANGED journal /\ \A k \in HookIds : hooks'[k] \in {hooks[k], NoHook}
    <3>1. \A k \in HookIds : Publishing(k)' =>
            Publishing(k) /\ PassOf(k)' = PassOf(k) /\ JournalOf(k)' = JournalOf(k)
      BY <2>2 DEF Publishing, PassOf, JournalOf, NoHook
    <3> QED
      BY <3>1 DEF JournalsOpen
  <2>3. ASSUME NEW i \in HookIds, hooks'[i].step = "review",
               \A k \in HookIds \ {i} : hooks'[k] = hooks[k],
               \A e \in Engines, r \in Rounds :
                 journal[e][r] # None => journal'[e][r] = journal[e][r]
        PROVE  JournalsOpen'
    <3>1. \A k \in HookIds : Publishing(k)' => Publishing(k) /\ PassOf(k)' = PassOf(k)
      BY <2>3 DEF Publishing, PassOf
    <3>2. \A k \in HookIds : Publishing(k)' => JournalOf(k)' = JournalOf(k)
      <4> SUFFICES ASSUME NEW k \in HookIds, Publishing(k)'
                   PROVE  JournalOf(k)' = JournalOf(k)
        OBVIOUS
      <4>1. Publishing(k) /\ hooks'[k] = hooks[k]
        BY <2>3 DEF Publishing
      <4>2. journal'[hooks[k].engine][hooks[k].round] = journal[hooks[k].engine][hooks[k].round]
        BY <2>3, <4>1, PublishingHook DEF JournalOf
      <4> QED
        BY <4>1, <4>2 DEF JournalOf
    <3> QED
      BY <3>1, <3>2 DEF JournalsOpen
  <2>4. CASE /\ UNCHANGED hooks /\ ~HeldByHook(StatePass)
             /\ journal' = [journal EXCEPT
                              ![runState.engine][runState.round] = NewJournal(local)]
    <3>1. \A k \in HookIds : Publishing(k)' = Publishing(k) /\ PassOf(k)' = PassOf(k)
      BY <2>4 DEF Publishing, PassOf
    <3>2. \A k \in HookIds : Publishing(k) => JournalOf(k)' = JournalOf(k)
      <4> SUFFICES ASSUME NEW k \in HookIds, Publishing(k)
                   PROVE  JournalOf(k)' = JournalOf(k)
        OBVIOUS
      <4>1. PassOf(k) # StatePass
        BY <2>4, PublishingHook DEF HeldByHook, Publishing
      <4>2. hooks[k].engine # runState.engine \/ hooks[k].round # runState.round
        BY <4>1 DEF PassOf, StatePass
      <4>3. hooks[k].engine \in Engines /\ hooks[k].round \in Rounds
        BY PublishingHook
      <4>4. journal'[hooks[k].engine][hooks[k].round] = journal[hooks[k].engine][hooks[k].round]
        BY <2>4, <4>2, <4>3 DEF TypeOK, PassTypeOK
      <4> QED
        BY <2>4, <4>4 DEF JournalOf
    <3> QED
      BY <3>1, <3>2 DEF JournalsOpen
  <2> QED
    BY <1>2, <2>1, <2>2, <2>3, <2>4, JournalWrites
<1> QED
  BY <1>1, <1>2

LEMMA JournalsInit == Init => JournalsOpen
  BY DEF Init, PassInit, JournalsOpen, Publishing, NoHook

(* A pass publishes at most one candidate, whatever is killed, crashes or  *)
(* is called again: the helper writes under the lock of a journal that is  *)
(* still open, and only a replay of the last round opens a closed one, at  *)
(* the candidate it published.                                             *)
THEOREM OnePublication == Spec => OnePublicationPerPass
<1>1. TypeOK /\ HooksJournaled /\ JournalsOpen /\ [Next]_vars => JournalsOpen'
  BY JournalsStep
<1>2. ASSUME TypeOK, HooksJournaled, JournalsOpen, [Next]_vars,
             NEW e \in Engines, NEW r \in Rounds,
             journal[e][r] # None, journal'[e][r] # journal[e][r]
      PROVE  \/ journal[e][r].published = None /\ journal'[e][r].start = journal[e][r].start
             \/ journal'[e][r] = NewJournal(journal[e][r].published)
  <2>1. ASSUME NEW i \in HookIds, HookStep(i, ctl.lock)
        PROVE  journal[e][r].published = None /\ journal'[e][r].start = journal[e][r].start
    <3>1. hooks[i] \in HookStates
      BY <1>2, <2>1, HookMoves
    <3>2. \E j \in Journals : SetJournal(i, j) /\ j.start = JournalOf(i).start
      BY <1>2, <2>1, HookMoves
    <3>3. JournalOf(i).published = None
      <4>1. Publishing(i) => JournalOf(i).published = None
        BY <1>2 DEF JournalsOpen
      <4> QED
        BY <1>2, <2>1, <4>1, HookMoves
    <3>4. <<e, r>> = PassOf(i)
      BY <1>2, <3>1, <3>2, JournalSet
    <3>5. hooks[i].engine = e /\ hooks[i].round = r
      BY <3>4 DEF PassOf
    <3>6. journal'[e][r].start = JournalOf(i).start
      BY <1>2, <3>1, <3>2, <3>5, JournalSet
    <3> QED
      BY <3>3, <3>5, <3>6 DEF JournalOf
  <2>2. CASE ~ \E i \in HookIds : HookStep(i, ctl.lock)
    <3>1. /\ ResetAllowed
          /\ journal' = [journal EXCEPT ![runState.engine][runState.round] = NewJournal(local)]
      BY <1>2, <2>2, JournalWrites
    <3>2. e = runState.engine /\ r = runState.round /\ journal'[e][r] = NewJournal(local)
      BY <1>2, <3>1 DEF TypeOK, PassTypeOK
    <3>3. journal[e][r] \in
            {NewJournal(local),
             [start |-> runState.head, validated |-> local, published |-> local]}
      BY <3>1, <3>2 DEF ResetAllowed
    <3>4. journal[e][r].published = local
      BY <1>2, <3>2, <3>3
    <3> QED
      BY <3>2, <3>4
  <2> QED
    BY <2>1, <2>2
<1>3. TypeOK /\ HooksJournaled /\ JournalsOpen /\ [Next]_vars
        => \A e \in Engines, r \in Rounds :
             LET j == journal[e][r]  k == journal'[e][r] IN
             (j # None /\ k # j) =>
                \/ j.published = None /\ k.start = j.start
                \/ k = NewJournal(j.published)
  BY <1>2
<1>4. IInv => TypeOK /\ HooksJournaled
  BY DEF IInv
<1> QED
  BY Invariance, JournalsInit, <1>1, <1>3, <1>4, PTL DEF Spec, OnePublicationPerPass


-----------------------------------------------------------------------------
(* Who moves what.                                                         *)
LEMMA HookMoving ==
    ASSUME TypeOK, NEW i \in HookIds, HookStep(i, ctl.lock)
    PROVE  /\ hooks[i] # NoHook
           /\ \A k \in HookIds \ {i} : hooks'[k] = hooks[k]
<1>1. hooks[i] # NoHook
  BY DEF HookStep, HookCommit, PublishValidate, PublishPush, PublishRecord,
         PublishRecover, PublishAbort, HookRecord, HookBlock, At, NoHook
<1> QED
  BY <1>1 DEF TypeOK, PassTypeOK, HookStep, HookCommit, PublishValidate, PublishPush,
     PublishRecord, PublishRecover, PublishAbort, HookRecord, HookBlock, Move

(* Who moves the wrapper.                                                  *)
LEMMA WrapperMoves ==
    ASSUME [Next]_vars
    PROVE  \/ Wrapper \/ Resume \/ ResumeFinalized \/ Fail \/ Crash \/ Kill
           \/ \E i \in HookIds : HookExit(i)
           \/ UNCHANGED <<pc, ctl, runState, merged, prDraft, attests>>
  BY DEF Next, Environment, Hook, MoveBase, PushForeign, OperatorCommit, ChangeLedger,
     ChangeIssue, ChangeResult, Expire, hostVars, vars

(* Who moves HEAD of the worktree: the base merge, and a review process or *)
(* the operator while the wrapper stands still.                            *)
LEMMA LocalMoves ==
    ASSUME TypeOK, [Next]_vars
    PROVE  \/ UNCHANGED local
           \/ MergeBase /\ local' = local + 1
           \/ /\ local' = local + 1 /\ UNCHANGED <<pc, ctl, base, runState, merged, attests>>
              /\ pc = "stopped" \/ \E i \in HookIds : hooks[i] # NoHook
<1> USE DEF passVars, world, Refuse, Stop, Goto, hostVars
<1>1. ASSUME NEW i \in HookIds, Hook(i), ~UNCHANGED local
      PROVE  /\ local' = local + 1 /\ hooks[i] # NoHook
             /\ UNCHANGED <<pc, ctl, base, runState, merged, attests>>
  <2>1. HookCommit(i)
    BY <1>1 DEF Hook, HookStep, HookCommit, PublishValidate, PublishPush, PublishRecord,
       PublishRecover, PublishAbort, HookRecord, HookBlock
  <2> QED
    BY <1>1, <2>1, HookMoving DEF Hook, HookCommit
<1>2. CASE OperatorCommit
  BY <1>2 DEF OperatorCommit
<1>3. CASE MergeBase
  BY <1>3 DEF MergeBase
<1>4. CASE (Wrapper /\ ~MergeBase) \/ Resume \/ ResumeFinalized
  BY <1>4 DEF Wrapper, StartReview, BeginRound, MergeConflict, ValidateMerge,
       PublishMerge, AttestMerge, CheckpointCodex, RecoverCodex, RecoverClaude, RecoverLeg,
       CheckpointClaude, ClearPass, OpenPass, InspectPass, AttestPass, ValidatePass, BaseMoved,
       NextRound, Decide, FinalChecks, FinalizeChecks, CheckpointFinalizing, MarkReady,
       MarkReadyFails, VerifyReady, RecordFinalized, RecordFails, RestoreDraft,
       RestoreFails, Unrecord, Cleanup, RestoreDrifted, ResumeBoundary, Rebase,
       RecoverConverged, Resume, ResumeFinalized
<1>5. CASE (Environment /\ ~OperatorCommit) \/ UNCHANGED vars
  BY <1>5 DEF Environment, Fail, Crash, Kill, MoveBase, PushForeign, ChangeLedger,
     ChangeIssue, ChangeResult, Expire, vars
<1>6. ASSUME NEW i \in HookIds, HookExit(i) PROVE UNCHANGED local
  BY <1>6 DEF HookExit
<1> QED
  BY <1>1, <1>2, <1>3, <1>4, <1>5, <1>6 DEF Next

LEMMA IntTypes ==
    TypeOK => /\ local \in Nat /\ local \in Int /\ base \in Int /\ base \in Bases
              /\ runState.head \in Int /\ runState.round \in Int /\ runState.base \in Bases
              /\ ctl.round \in Int /\ ctl.head \in Int /\ ctl.base \in Bases
              /\ merged \subseteq Bases
              /\ \A a \in attests : /\ a \in Results /\ a.engine \in Engines /\ a.round \in Rounds
                                    /\ a.base \in Bases /\ a.round \in Int
                                    /\ a.before \in Int /\ a.after \in Int
  BY MaxRoundsAssumption
     DEF TypeOK, PassTypeOK, Ctl, RunStates, Heads, Bases, Rounds, Results, Rewritten

LEMMA LocalGrows ==
    ASSUME TypeOK, [Next]_vars
    PROVE  local \in Int /\ local' \in Int /\ local <= local'
  BY LocalMoves, IntTypes

-----------------------------------------------------------------------------
(* One whole round.  The steps that take the wrapper into and through the  *)
(* legs of a round.                                                        *)
LegTargets == LegPcs \cup {"toClaude", "recoverClaude", "decide"}

HookEnds ==
    \E i \in HookIds : /\ HookExit(i) /\ ctl.hook = i
                       /\ pc = "hook" /\ pc' = "inspect" /\ ctl' = [ctl EXCEPT !.hook = None]

LegStep ==
    \/ CheckpointCodex \/ RecoverCodex \/ RecoverClaude \/ CheckpointClaude
    \/ ClearPass \/ OpenPass \/ HookEnds \/ InspectPass \/ AttestPass \/ ValidatePass

LEMMA LegMoves ==
    ASSUME [Next]_vars, pc' \in LegTargets
    PROVE  UNCHANGED <<pc, ctl, runState, attests>> \/ LegStep
<1> USE DEF LegTargets, LegPcs, LegStep, Stop, Goto, Refuse
<1>1. ASSUME NEW i \in HookIds, HookExit(i) PROVE UNCHANGED <<pc, ctl, runState, attests>> \/ HookEnds
  BY <1>1 DEF HookExit, HookEnds
<1>2. CASE Wrapper
  BY <1>2 DEF Wrapper, StartReview, BeginRound, MergeBase, MergeConflict, ValidateMerge,
     PublishMerge, AttestMerge, BaseMoved, NextRound, Decide, FinalChecks, FinalizeChecks,
     CheckpointFinalizing, MarkReady, MarkReadyFails, VerifyReady, RecordFinalized,
     RecordFails, RestoreDraft, RestoreFails, Unrecord, Cleanup, RestoreDrifted,
     ResumeBoundary, Rebase, RecoverConverged
<1>3. CASE Resume \/ ResumeFinalized \/ Fail \/ Crash \/ Kill
  BY <1>3 DEF Resume, ResumeFinalized, Fail, Crash, Kill
<1> QED
  BY <1>1, <1>2, <1>3, WrapperMoves

(* Only an accepted pass is attested.                                      *)
LEMMA AttestMoves ==
    ASSUME [Next]_vars
    PROVE  \/ UNCHANGED attests
           \/ /\ AttestPass /\ attests' = attests \cup {ctl.sig[ctl.leg]}
              /\ pc = "attest" /\ pc' = "validate" /\ base = ctl.base
              /\ results[ctl.leg][ctl.round] = ctl.sig[ctl.leg]
              /\ local = ctl.sig[ctl.leg].after
              /\ {a \in attests : a.engine = ctl.leg /\ a.round = ctl.round}
                    \subseteq {ctl.sig[ctl.leg]}
              /\ UNCHANGED <<passVars, ctl, runState, merged>>
<1> USE DEF Stop, Goto, Refuse, hostVars
<1>1. CASE AttestPass
  BY <1>1 DEF AttestPass
<1>2. CASE Wrapper /\ ~AttestPass
  BY <1>2 DEF Wrapper, StartReview, BeginRound, MergeBase, MergeConflict, ValidateMerge,
     PublishMerge, AttestMerge, CheckpointCodex, RecoverCodex, RecoverClaude, RecoverLeg,
     CheckpointClaude, ClearPass, OpenPass, InspectPass, ValidatePass, BaseMoved,
     NextRound, Decide, FinalChecks, FinalizeChecks, CheckpointFinalizing, MarkReady,
     MarkReadyFails, VerifyReady, RecordFinalized, RecordFails, RestoreDraft,
     RestoreFails, Unrecord, Cleanup, RestoreDrifted, ResumeBoundary, Rebase,
     RecoverConverged
<1>3. CASE Resume \/ ResumeFinalized \/ Fail \/ Crash \/ Kill
  BY <1>3 DEF Resume, ResumeFinalized, Fail, Crash, Kill
<1>4. ASSUME NEW i \in HookIds, HookExit(i) PROVE UNCHANGED attests
  BY <1>4 DEF HookExit
<1> QED
  BY <1>1, <1>2, <1>3, <1>4, WrapperMoves

(* A signature of the current round whose pass is attested.                *)
Fits(s, e) ==
    s.engine = e /\ s.round = ctl.round /\ s.base = ctl.base /\ s.status # "blocked"
Accepted(e) == Fits(ctl.sig[e], e) /\ ctl.sig[e] \in attests

(* What the wrapper knows of the signatures it holds: Codex's is attested  *)
(* and not after the head that Claude began with, and the current leg's    *)
(* describes this very pass.                                               *)
SigsKnown ==
    /\ pc \in {"toClaude", "recoverClaude", "decide"} => Accepted("codex")
    /\ pc \in LegPcs /\ ctl.leg = "claude" => Accepted("codex")
    /\ pc \in LegPcs \ {"pass"} /\ ctl.leg = "claude" => ctl.sig["codex"].after <= ctl.head
    /\ pc \in {"attest", "validate"} =>
         LET s == ctl.sig[ctl.leg] IN
         /\ Fits(s, ctl.leg)
         /\ s.before = ctl.head /\ s.before <= s.after /\ s.after <= local
         /\ s.status = "clean" <=> s.before = s.after
    /\ pc = "validate" => ctl.sig[ctl.leg] \in attests
    /\ pc = "decide" => Accepted("claude")

(* The attestations of a round: one per engine, Claude's after Codex's.    *)
OneEach == \A a, b \in attests : a.engine = b.engine /\ a.round = b.round => a = b
InOrder ==
    \A k \in attests :
        /\ k.before <= k.after /\ k.after <= local
        /\ k.engine = "claude" =>
             \E c \in attests : c.engine = "codex" /\ c.round = k.round /\ c.after <= k.before

LEMMA AttestsGrow == [Next]_vars => attests \subseteq attests'
  BY AttestMoves

LEMMA SigTypes ==
    TypeOK => /\ ctl.leg \in Engines /\ ctl.round \in Rounds /\ ctl.base \in Bases
              /\ ctl.head \in Heads /\ ctl.head \in Int /\ local \in Int
              /\ ctl.sig \in [Engines -> Results \cup {None}]
  BY DEF TypeOK, PassTypeOK, Ctl, Heads

(* While the wrapper stands still, nothing it knows is lost.               *)
LEMMA SigsKnownStill ==
    ASSUME IInv, SigsKnown, [Next]_vars, UNCHANGED <<pc, ctl>>
    PROVE  SigsKnown'
<1> USE DEF LegPcs
<1>1. attests \subseteq attests' /\ local <= local' /\ local \in Int /\ local' \in Int
  BY AttestsGrow, LocalGrows DEF IInv
<1>2. \A e \in Engines : Accepted(e) => Accepted(e)'
  BY <1>1 DEF Accepted, Fits
<1>3. Fits(ctl.sig[ctl.leg], ctl.leg) => Fits(ctl.sig[ctl.leg], ctl.leg)'
  BY DEF Fits
<1>4. pc \in {"attest", "validate"} => ctl.sig[ctl.leg].after \in Int
  BY SigTypes DEF IInv, Control, SignaturesHeld, Results, Heads
<1> QED
  BY <1>1, <1>2, <1>3, <1>4 DEF SigsKnown, Engines

(* A recovered signature is accepted and, unless Claude's comes after it,  *)
(* about HEAD.                                                             *)
LEMMA RecoverLegFields ==
    ASSUME TypeOK, NEW e \in Engines, NEW d \in BOOLEAN, NEW rec, NEW q, RecoverLeg(e, d, rec, q)
    PROVE  \/ pc' = "stopped" /\ ctl' = NoCtl
           \/ /\ pc' = q /\ UNCHANGED <<local, base, attests, runState, results, journal, merged>>
              /\ ctl' = [ctl EXCEPT !.sig[e] = results[e][ctl.round], !.rec = rec]
              /\ ctl'.leg = ctl.leg /\ ctl'.round = ctl.round /\ ctl'.base = ctl.base
              /\ ctl'.head = ctl.head /\ ctl'.rec = rec
              /\ ctl'.sig[e] = results[e][ctl.round]
              /\ \A f \in Engines \ {e} : ctl'.sig[f] = ctl.sig[f]
              /\ Fits(ctl'.sig[e], e) /\ ctl'.sig[e] \in attests
              /\ d \/ ctl'.sig[e].after = local
<1> DEFINE res == results[e][ctl.round]
<1>1. \/ pc' = "stopped" /\ ctl' = NoCtl
      \/ /\ Recovers(e, d) /\ pc' = q
         /\ ctl' = [ctl EXCEPT !.sig[e] = res, !.rec = rec]
         /\ UNCHANGED <<local, base, attests, runState, results, journal, merged>>
  BY DEF RecoverLeg, Refuse, Stop, world
<1>2. Recovers(e, d) => Fits(res, e) /\ res \in attests /\ (d \/ res.after = local)
  BY DEF Recovers, AtHead, Evidence, ValidResult, Fits
<1> HIDE DEF res
<1>3. ctl' = [ctl EXCEPT !.sig[e] = res, !.rec = rec] =>
         /\ ctl'.leg = ctl.leg /\ ctl'.round = ctl.round /\ ctl'.base = ctl.base
         /\ ctl'.head = ctl.head /\ ctl'.rec = rec
         /\ ctl'.sig[e] = res
         /\ \A f \in Engines \ {e} : ctl'.sig[f] = ctl.sig[f]
  BY DEF TypeOK, Ctl
<1> QED
  BY <1>1, <1>2, <1>3 DEF res

LEMMA CodexAcceptedThen ==
    ASSUME Accepted("codex"), attests \subseteq attests', ctl'.sig["codex"] = ctl.sig["codex"],
           ctl'.round = ctl.round, ctl'.base = ctl.base
    PROVE  Accepted("codex")'
  BY DEF Accepted, Fits

LEMMA SigsKnownStep ==
    ASSUME IInv, SigsKnown, InOrder, [Next]_vars
    PROVE  SigsKnown'
<1> USE DEF IInv
<1>1. CASE pc' \notin LegTargets
  BY <1>1 DEF SigsKnown, LegTargets, LegPcs
<1>2. CASE UNCHANGED <<pc, ctl>>
  BY <1>2, SigsKnownStill
<1> SUFFICES ASSUME pc' \in LegTargets, LegStep PROVE SigsKnown'
  BY <1>1, <1>2, LegMoves
<1>3. /\ ctl \in Ctl /\ ctl.leg \in Engines /\ attests \subseteq attests'
      /\ ctl.sig \in [Engines -> Results \cup {None}] /\ ctl.head \in Int /\ local \in Int
  BY SigTypes, AttestsGrow DEF TypeOK
<1>4. pc' # "stopped"
  BY DEF LegTargets, LegPcs
<1>5. CASE CheckpointCodex
  <2>1. pc' = "pass" /\ ctl'.leg = "codex"
    BY <1>3, <1>5 DEF CheckpointCodex, Ctl
  <2> QED
    BY <2>1 DEF SigsKnown, LegPcs
<1>6. CASE RecoverCodex
  <2>1. PICK d \in BOOLEAN, rec \in {"complete", "codex"}, q \in {"recoverClaude", "toClaude"} :
          RecoverLeg("codex", d, rec, q)
    BY <1>6 DEF RecoverCodex
  <2>2. /\ pc' \in {"recoverClaude", "toClaude"} /\ UNCHANGED attests
        /\ ctl'.round = ctl.round /\ ctl'.base = ctl.base
        /\ Fits(ctl'.sig["codex"], "codex") /\ ctl'.sig["codex"] \in attests
    BY <1>4, <2>1, RecoverLegFields DEF Engines
  <2>3. Accepted("codex")'
    BY <2>2 DEF Accepted, Fits
  <2> QED
    BY <2>2, <2>3 DEF SigsKnown, LegPcs
<1>7. CASE RecoverClaude
  <2>1. /\ pc' = "decide" /\ UNCHANGED attests
        /\ ctl'.round = ctl.round /\ ctl'.base = ctl.base
        /\ ctl'.sig["codex"] = ctl.sig["codex"]
        /\ Fits(ctl'.sig["claude"], "claude") /\ ctl'.sig["claude"] \in attests
    BY <1>4, <1>7, RecoverLegFields DEF RecoverClaude, Engines
  <2>2. Accepted("codex")
    BY <1>7 DEF RecoverClaude, SigsKnown
  <2>3. Accepted("codex")' /\ Accepted("claude")'
    BY <1>3, <2>1, <2>2, CodexAcceptedThen DEF Accepted, Fits
  <2> QED
    BY <2>1, <2>3 DEF SigsKnown, LegPcs
<1>8. CASE CheckpointClaude
  <2>1. /\ pc' = "pass"
        /\ ctl'.leg = "claude" /\ ctl'.round = ctl.round /\ ctl'.base = ctl.base
        /\ ctl'.sig = ctl.sig
    BY <1>3, <1>8 DEF CheckpointClaude, Ctl
  <2>2. Accepted("codex")
    BY <1>8 DEF CheckpointClaude, SigsKnown
  <2> QED
    BY <1>3, <2>1, <2>2, CodexAcceptedThen DEF SigsKnown, LegPcs
<1>9. CASE ClearPass
  <2>1. /\ pc = "pass" /\ pc' = "open" /\ ctl'.head = local
        /\ ctl'.leg = ctl.leg /\ ctl'.round = ctl.round /\ ctl'.base = ctl.base
        /\ ctl'.sig = ctl.sig
    BY <1>3, <1>4, <1>9 DEF ClearPass, Ctl, Refuse, Stop
  <2>2. ctl.leg = "claude" => Accepted("codex") /\ ctl.sig["codex"].after <= local
    BY <2>1 DEF SigsKnown, LegPcs, Accepted, InOrder
  <2> QED
    BY <1>3, <2>1, <2>2, CodexAcceptedThen DEF SigsKnown, LegPcs
<1>10. CASE OpenPass \/ HookEnds
  <2>1. /\ pc \in {"open", "hook"} /\ pc' \in {"hook", "inspect"}
        /\ ctl'.head = ctl.head
        /\ ctl'.leg = ctl.leg /\ ctl'.round = ctl.round /\ ctl'.base = ctl.base
        /\ ctl'.sig = ctl.sig
    BY <1>3, <1>4, <1>10 DEF OpenPass, HookEnds, Goto, Ctl, Refuse, Stop, LegTargets, LegPcs
  <2>2. ctl.leg = "claude" => Accepted("codex") /\ ctl.sig["codex"].after <= ctl.head
    BY <2>1 DEF SigsKnown, LegPcs
  <2> QED
    BY <1>3, <2>1, <2>2, CodexAcceptedThen DEF SigsKnown, LegPcs
<1>11. CASE InspectPass
  <2> DEFINE res == results[ctl.leg][ctl.round]
  <2>1. /\ pc = "inspect" /\ pc' = "attest" /\ UNCHANGED local
        /\ ctl' = [ctl EXCEPT !.sig[ctl.leg] = res]
        /\ ctl.head <= local
        /\ ValidResult(res, ctl.leg, ctl.round, ctl.base, ctl.head, local)
        /\ res.status # "blocked"
    BY <1>4, <1>11 DEF InspectPass, Refuse, Stop, Goto, LegTargets, LegPcs, passVars
  <2> HIDE DEF res
  <2>2. /\ ctl'.head = ctl.head /\ ctl'.sig[ctl.leg] = res
        /\ ctl'.leg = ctl.leg /\ ctl'.round = ctl.round /\ ctl'.base = ctl.base
        /\ ctl.leg = "claude" => ctl'.sig["codex"] = ctl.sig["codex"]
    BY <1>3, <2>1 DEF Ctl, Engines
  <2>3. Fits(res, ctl.leg) /\ res.before = ctl.head /\ res.after = local
    BY <2>1 DEF ValidResult, Fits
  <2>4. res.status = "clean" <=> res.before = res.after
    <3>1. res \in Results
      BY <2>1, SigTypes DEF ValidResult, res, TypeOK, PassTypeOK
    <3> QED
      BY <2>1, <3>1 DEF ValidResult, Results, Statuses
  <2>5. ctl.leg = "claude" => Accepted("codex") /\ ctl.sig["codex"].after <= ctl.head
    BY <2>1 DEF SigsKnown, LegPcs
  <2>6. ctl.leg = "claude" => Accepted("codex")'
    BY <1>3, <2>2, <2>5, CodexAcceptedThen
  <2>7. Fits(ctl.sig[ctl.leg], ctl.leg)'
    BY <2>2, <2>3 DEF Fits
  <2> QED
    BY <1>3, <2>1, <2>2, <2>3, <2>4, <2>5, <2>6, <2>7 DEF SigsKnown, LegPcs
<1>12. CASE AttestPass
  <2>1. /\ pc = "attest" /\ pc' = "validate" /\ UNCHANGED <<local, ctl>>
        /\ ctl.sig[ctl.leg] \in attests'
    BY <1>4, <1>12 DEF AttestPass, Refuse, Stop, Goto, passVars
  <2>2. ctl.leg = "claude" => Accepted("codex")'
    BY <1>3, <2>1, CodexAcceptedThen DEF SigsKnown, LegPcs
  <2>3. Fits(ctl.sig[ctl.leg], ctl.leg)'
    BY <2>1 DEF SigsKnown, Fits
  <2> QED
    BY <2>1, <2>2, <2>3 DEF SigsKnown, LegPcs
<1>13. CASE ValidatePass
  <2>1. /\ pc = "validate" /\ UNCHANGED <<ctl, attests>>
        /\ \/ pc' = "toClaude" /\ ctl.leg = "codex"
           \/ pc' = "decide" /\ ctl.leg = "claude"
    BY <1>3, <1>4, <1>13 DEF ValidatePass, Boundary, Refuse, Stop, Goto, LegTargets, LegPcs,
       Engines
  <2>2. Fits(ctl.sig[ctl.leg], ctl.leg) /\ ctl.sig[ctl.leg] \in attests
    BY <2>1 DEF SigsKnown
  <2>3. Accepted(ctl.leg)'
    BY <2>1, <2>2 DEF Accepted, Fits
  <2>4. ctl.leg = "claude" => Accepted("codex")'
    BY <1>3, <2>1, CodexAcceptedThen DEF SigsKnown, LegPcs
  <2> QED
    BY <2>1, <2>3, <2>4 DEF SigsKnown, LegPcs
<1> QED
  BY <1>5, <1>6, <1>7, <1>8, <1>9, <1>10, <1>11, <1>12, <1>13 DEF LegStep

LEMMA OneEachStep ==
    ASSUME TypeOK, SigsKnown, OneEach, [Next]_vars
    PROVE  OneEach'
<1>1. CASE UNCHANGED attests
  BY <1>1 DEF OneEach
<1>2. CASE ~UNCHANGED attests
  <2>1. /\ attests' = attests \cup {ctl.sig[ctl.leg]} /\ pc = "attest"
        /\ {a \in attests : a.engine = ctl.leg /\ a.round = ctl.round} \subseteq {ctl.sig[ctl.leg]}
    BY <1>2, AttestMoves
  <2>2. ctl.sig[ctl.leg].engine = ctl.leg /\ ctl.sig[ctl.leg].round = ctl.round
    BY <2>1 DEF SigsKnown, Fits
  <2> QED
    BY <2>1, <2>2 DEF OneEach
<1> QED
  BY <1>1, <1>2

LEMMA InOrderStep ==
    ASSUME TypeOK, SigsKnown, InOrder, [Next]_vars
    PROVE  InOrder'
<1> DEFINE s == ctl.sig[ctl.leg]
           follows(k) == k.engine = "claude" =>
               \E c \in attests : c.engine = "codex" /\ c.round = k.round /\ c.after <= k.before
<1>1. attests \subseteq attests' /\ local <= local' /\ local \in Int /\ local' \in Int
  BY AttestsGrow, LocalGrows
<1>2. ASSUME NEW k \in attests
      PROVE  k.before <= k.after /\ k.after <= local' /\ follows(k)
  BY <1>1, <1>2, IntTypes DEF InOrder
<1>3. ASSUME NEW k \in attests', k \notin attests
      PROVE  k.before <= k.after /\ k.after <= local' /\ follows(k)
  <2>1. k = s /\ pc = "attest" /\ UNCHANGED local
    BY <1>3, AttestMoves DEF passVars
  <2>2. s.engine = ctl.leg /\ s.round = ctl.round /\ s.before = ctl.head
        /\ s.before <= s.after /\ s.after <= local
    BY <2>1 DEF SigsKnown, Fits
  <2>3. ctl.leg = "claude" => /\ ctl.sig["codex"] \in attests
                              /\ ctl.sig["codex"].engine = "codex"
                              /\ ctl.sig["codex"].round = ctl.round
                              /\ ctl.sig["codex"].after <= ctl.head
    BY <2>1 DEF SigsKnown, LegPcs, Accepted, Fits
  <2> HIDE DEF s
  <2> QED
    BY <2>1, <2>2, <2>3
<1>4. \A k \in attests' : k.before <= k.after /\ k.after <= local' /\ follows(k)
  BY <1>2, <1>3
<1> HIDE DEF s
<1> QED
  BY <1>1, <1>4 DEF InOrder

(* The heads of the wrapper and of the checkpoint are never ahead of HEAD, *)
(* and from convergence on the two agree on the base and are in order.     *)
LateTargets == {"recovered", "final", "finalize", "checkpoint", "ready", "verifyReady",
                "record", "rollbackRecord", "unrecord"}

HeadsKnown ==
    /\ runState.head <= local /\ ctl.head <= local
    /\ pc \in LateTargets \ {"recovered"} => ctl.base = runState.base
    /\ pc \in LateTargets \ {"recovered", "final", "finalize"} => runState.head <= ctl.head
    /\ pc = "final" /\ ctl.ready => runState.head <= ctl.head

LEMMA LateMoves ==
    ASSUME [Next]_vars, pc' \in LateTargets
    PROVE  \/ UNCHANGED <<pc, ctl, runState>>
           \/ Decide \/ FinalChecks \/ FinalizeChecks \/ CheckpointFinalizing \/ MarkReady
           \/ VerifyReady \/ RecordFails \/ RestoreDraft \/ ResumeBoundary \/ RecoverConverged
<1> USE DEF LateTargets, Stop, Goto, Refuse
<1>1. ASSUME NEW i \in HookIds, HookExit(i) PROVE UNCHANGED <<pc, ctl, runState>>
  BY <1>1 DEF HookExit
<1>2. CASE Wrapper
  BY <1>2 DEF Wrapper, StartReview, BeginRound, MergeBase, MergeConflict, ValidateMerge,
     PublishMerge, AttestMerge, CheckpointCodex, RecoverCodex, RecoverClaude, RecoverLeg,
     CheckpointClaude, ClearPass, OpenPass, InspectPass, AttestPass, ValidatePass,
     BaseMoved, NextRound, MarkReadyFails, RecordFinalized, RestoreFails, Unrecord, Cleanup,
     RestoreDrifted, Rebase
<1>3. CASE Resume \/ ResumeFinalized \/ Fail \/ Crash \/ Kill
  BY <1>3 DEF Resume, ResumeFinalized, Fail, Crash, Kill
<1> QED
  BY <1>1, <1>2, <1>3, WrapperMoves

(* The last two writes of a run-state file change the phase alone, when    *)
(* they repeat the round, base and head.                                   *)
LEMMA PhaseWrite ==
    ASSUME NEW p \in {"finalizing", "finalized"}
    PROVE  LET s == ToPhase(runState, p, ctl.round, ctl.base, ctl.head) IN
           /\ s.phase = p
           /\ s.round = ctl.round /\ s.base = ctl.base /\ s.head = ctl.head
           /\ s.engine = None
           /\ s.codex = runState.codex /\ s.claude = runState.claude
  BY DEF ToPhase, UpdateRunState

LEMMA ConvergedWrite ==
    ASSUME NEW r, NEW b, NEW h, NEW c, NEW k
    PROVE  LET s == ToConverged(runState, r, b, h, c, k) IN
           /\ s.phase = "converged" /\ s.round = r /\ s.base = b /\ s.head = h
           /\ s.engine = None /\ s.codex = c /\ s.claude = k
  BY DEF ToConverged, UpdateRunState

LEMMA ReviewingWrite ==
    ASSUME NEW r, NEW b, NEW h, NEW e
    PROVE  LET s == ToReviewing(runState, r, b, h, e) IN
           /\ s.phase = "reviewing" /\ s.round = r /\ s.base = b /\ s.head = h
           /\ s.engine = e /\ s.codex = None /\ s.claude = None
  BY DEF ToReviewing, UpdateRunState

LEMMA RecoveredWrite ==
    TypeOK => /\ RecoveredCtl.base = runState.base /\ RecoveredCtl.head = local
              /\ RecoveredCtl.round = ctl.round /\ RecoveredCtl.ready = ctl.ready
              /\ RecoveredCtl.rec = ctl.rec /\ RecoveredCtl.leg = ctl.leg
  BY DEF TypeOK, RecoveredCtl, Ctl

(* Where the wrapper gets a base and a head from.                          *)
LEMMA CtlFrom ==
    ASSUME TypeOK, [Next]_vars
    PROVE  /\ ctl'.base \in {ctl.base, base, runState.base, 0}
           /\ ctl'.head \in {ctl.head, local, 0}
<1> USE DEF Stop, Goto, Refuse
<1>1. ctl \in Ctl
  BY DEF TypeOK
<1>2. NoCtl.base = 0 /\ NoCtl.head = 0
  BY DEF NoCtl
<1>3. CASE Wrapper
  <2>1. ASSUME NEW e \in Engines, NEW d \in BOOLEAN, NEW rec, NEW q, RecoverLeg(e, d, rec, q)
        PROVE  ctl'.base \in {ctl.base, 0} /\ ctl'.head \in {ctl.head, 0}
    BY <1>2, <2>1, RecoverLegFields
  <2>2. CASE RecoverCodex \/ RecoverClaude
    BY <2>1, <2>2 DEF RecoverCodex, RecoverClaude, Engines
  <2>3. CASE StartReview \/ BeginRound \/ MergeBase \/ MergeConflict \/ ValidateMerge
             \/ PublishMerge \/ AttestMerge \/ CheckpointCodex \/ CheckpointClaude
             \/ ClearPass \/ OpenPass \/ InspectPass \/ AttestPass \/ ValidatePass
             \/ BaseMoved \/ Decide
    BY <1>1, <1>2, <2>3 DEF StartReview, BeginRound, MergeBase, MergeConflict, ValidateMerge,
       PublishMerge, AttestMerge, CheckpointCodex, CheckpointClaude, ClearPass, OpenPass,
       InspectPass, AttestPass, ValidatePass, BaseMoved, NextRound, Decide, Ctl
  <2>4. CASE FinalChecks \/ FinalizeChecks \/ CheckpointFinalizing \/ MarkReady
             \/ MarkReadyFails \/ VerifyReady \/ RecordFinalized \/ RecordFails
             \/ RestoreDraft \/ RestoreFails \/ Unrecord \/ Cleanup \/ RestoreDrifted
             \/ ResumeBoundary \/ Rebase
    BY <1>1, <1>2, <2>4 DEF FinalChecks, FinalizeChecks, CheckpointFinalizing, MarkReady,
       MarkReadyFails, VerifyReady, RecordFinalized, RecordFails, RestoreDraft,
       RestoreFails, Unrecord, Cleanup, RestoreDrifted, ResumeBoundary, Rebase, Ctl
  <2>5. CASE RecoverConverged
    BY <1>2, <2>5, RecoveredWrite DEF RecoverConverged
  <2> QED
    BY <1>3, <2>2, <2>3, <2>4, <2>5 DEF Wrapper
<1>4. CASE Resume
  BY <1>4 DEF Resume, NoCtl
<1>5. CASE ResumeFinalized \/ Fail \/ Crash \/ Kill
  BY <1>2, <1>5 DEF ResumeFinalized, Fail, Crash, Kill
<1>6. ASSUME NEW i \in HookIds, HookExit(i)
      PROVE  ctl'.base \in {ctl.base, 0} /\ ctl'.head \in {ctl.head, 0}
  BY <1>1, <1>2, <1>6 DEF HookExit, Ctl
<1> QED
  BY <1>3, <1>4, <1>5, <1>6, WrapperMoves

(* A checkpoint never records a head before the last one's.                *)
LEMMA RunStateHead ==
    ASSUME IInv, HeadsKnown, [Next]_vars
    PROVE  /\ runState'.head \in Int
           /\ runState.head <= runState'.head /\ runState'.head <= local
<1> USE DEF Refuse
<1>1. /\ runState.head \in Int /\ ctl.head \in Int /\ local \in Int
      /\ runState.head <= local /\ ctl.head <= local
  BY IntTypes DEF IInv, HeadsKnown
<1>2. CASE runState'.head \in {runState.head, local}
  BY <1>1, <1>2
<1>3. CASE StartReview \/ CheckpointCodex \/ CheckpointClaude \/ BaseMoved \/ ResumeBoundary
           \/ Rebase
  BY <1>2, <1>3, ReviewingWrite DEF StartReview, CheckpointCodex, CheckpointClaude, BaseMoved,
     NextRound, CheckpointReviewing, ResumeBoundary, Rebase
<1>4. CASE Decide
  BY <1>2, <1>4, ReviewingWrite, ConvergedWrite DEF Decide, NextRound, CheckpointReviewing
<1>5. CASE CheckpointFinalizing \/ RecordFinalized \/ RecordFails \/ Unrecord
  <2>1. runState.head <= ctl.head
    BY <1>5 DEF CheckpointFinalizing, RecordFinalized, RecordFails, Unrecord, HeadsKnown,
       LateTargets
  <2>2. runState'.head \in {runState.head, ctl.head}
    BY <1>5, PhaseWrite DEF CheckpointFinalizing, RecordFinalized, RecordFails, Unrecord,
       Finalized
  <2> QED
    BY <1>1, <2>1, <2>2
<1> QED
  BY <1>2, <1>3, <1>4, <1>5, CheckpointWrites DEF Checkpoint

LEMMA HeadsKnownStep ==
    ASSUME IInv, HeadsKnown, [Next]_vars
    PROVE  HeadsKnown'
<1> USE DEF IInv, LateTargets
<1>1. runState'.head <= local' /\ ctl'.head <= local'
  <2>1. /\ local \in Nat /\ local' \in Int /\ local <= local'
        /\ ctl.head \in Int /\ ctl.head <= local /\ ctl'.head \in {ctl.head, local, 0}
    BY LocalGrows, IntTypes, CtlFrom DEF HeadsKnown
  <2> QED
    BY <2>1, RunStateHead
<1>2. CASE pc' \notin LateTargets
  BY <1>1, <1>2 DEF HeadsKnown
<1> SUFFICES ASSUME pc' \in LateTargets PROVE HeadsKnown'
  BY <1>2
<1> USE DEF Refuse, Stop, Goto
<1>3. ctl \in Ctl /\ runState.head <= local /\ ctl.head \in Int
  BY IntTypes DEF TypeOK, HeadsKnown
<1>4. CASE UNCHANGED <<pc, ctl, runState>>
  BY <1>1, <1>4 DEF HeadsKnown
<1>5. CASE Decide
  <2>1. /\ pc' = "final" /\ UNCHANGED ctl /\ pc = "decide"
        /\ runState' = ToConverged(runState, ctl.round, ctl.base, local,
                                   ctl.sig["codex"], ctl.sig["claude"])
    BY <1>5 DEF Decide, NextRound
  <2>2. ~ctl.ready
    BY <2>1 DEF Control, DraftKnown, ReadyPcs
  <2> QED
    BY <1>1, <2>1, <2>2, ConvergedWrite DEF HeadsKnown
<1>6. CASE FinalChecks \/ MarkReady \/ VerifyReady \/ RestoreDraft
  BY <1>1, <1>6 DEF FinalChecks, MarkReady, VerifyReady, RestoreDraft, HeadsKnown
<1>7. CASE FinalizeChecks
  <2>1. /\ pc = "finalize" /\ pc' = "checkpoint" /\ UNCHANGED runState
        /\ ctl'.head = local /\ ctl'.base = ctl.base
    BY <1>3, <1>7 DEF FinalizeChecks, Ctl
  <2> QED
    BY <1>1, <1>3, <2>1 DEF HeadsKnown
<1>8. CASE CheckpointFinalizing
  <2>1. /\ pc = "checkpoint" /\ pc' = "ready" /\ UNCHANGED ctl
        /\ runState' = ToPhase(runState, "finalizing", ctl.round, ctl.base, ctl.head)
    BY <1>8 DEF CheckpointFinalizing
  <2> QED
    BY <1>1, <1>3, <2>1, PhaseWrite DEF HeadsKnown
<1>9. CASE RecordFails
  <2>1. /\ pc = "record" /\ pc' = "rollbackRecord" /\ UNCHANGED ctl
        /\ \/ UNCHANGED runState
           \/ runState' = ToPhase(runState, "finalized", ctl.round, ctl.base, ctl.head)
    BY <1>9 DEF RecordFails, Finalized
  <2> QED
    BY <1>1, <1>3, <2>1, PhaseWrite DEF HeadsKnown
<1>10. CASE ResumeBoundary
  BY <1>1, <1>10 DEF ResumeBoundary, HeadsKnown
<1>11. CASE RecoverConverged
  <2>1. pc = "recovered" /\ pc' = "final" /\ UNCHANGED runState /\ ctl' = RecoveredCtl
    BY <1>11 DEF RecoverConverged
  <2> QED
    BY <1>1, <1>3, <2>1, RecoveredWrite DEF HeadsKnown
<1> QED
  BY <1>4, <1>5, <1>6, <1>7, <1>8, <1>9, <1>10, <1>11, LateMoves

(* How a checkpoint comes to claim convergence: it did already, the round  *)
(* has just converged, or its phase alone is written again.                *)
LEMMA LateWrites ==
    ASSUME IInv, HeadsKnown, [Next]_vars, runState'.phase \in LatePhases
    PROVE  \/ UNCHANGED runState
           \/ /\ pc = "decide" /\ ~Material /\ runState'.head = local
              /\ runState'.round = ctl.round /\ runState'.base = ctl.base
              /\ runState'.codex = ctl.sig["codex"] /\ runState'.claude = ctl.sig["claude"]
           \/ /\ runState.phase \in LatePhases
              /\ pc \in {"checkpoint", "record", "unrecord"} /\ runState'.head = ctl.head
              /\ runState'.round = runState.round /\ runState'.base = runState.base
              /\ runState'.codex = runState.codex /\ runState'.claude = runState.claude
<1> USE DEF IInv, Refuse
<1>1. CASE StartReview \/ CheckpointCodex \/ CheckpointClaude \/ BaseMoved \/ ResumeBoundary
           \/ Rebase
  BY <1>1, ReviewingWrite DEF StartReview, CheckpointCodex, CheckpointClaude, BaseMoved,
     NextRound, CheckpointReviewing, ResumeBoundary, Rebase, LatePhases
<1>2. CASE Decide
  BY <1>2, ReviewingWrite, ConvergedWrite DEF Decide, NextRound, CheckpointReviewing, LatePhases
<1>3. CASE CheckpointFinalizing \/ RecordFinalized \/ RecordFails \/ Unrecord
  <2>1. /\ pc \in {"checkpoint", "record", "unrecord"}
        /\ \/ UNCHANGED runState
           \/ \E p \in {"finalizing", "finalized"} :
                runState' = ToPhase(runState, p, ctl.round, ctl.base, ctl.head)
    BY <1>3 DEF CheckpointFinalizing, RecordFinalized, RecordFails, Unrecord, Finalized
  <2>2. /\ runState.phase \in LatePhases /\ ctl.round = runState.round
        /\ ctl.base = runState.base
    BY <2>1 DEF Control, RoundsAgree, HeadsKnown, LateTargets, LatePcs, CheckpointedPcs
  <2> QED
    BY <2>1, <2>2, PhaseWrite
<1> QED
  BY <1>1, <1>2, <1>3, CheckpointWrites DEF Checkpoint

LEMMA DecidedOn ==
    ASSUME TypeOK, SigsKnown, OneEach, InOrder, pc = "decide", ~Material
    PROVE  LET c == ctl.sig["codex"]  k == ctl.sig["claude"] IN
           /\ {c, k} \subseteq attests
           /\ c.round = ctl.round /\ k.round = ctl.round
           /\ c.base = ctl.base /\ k.base = ctl.base
           /\ c.after <= k.before /\ k.after <= local
           /\ {c.status, k.status} \subseteq {"clean", "minor"}
<1> DEFINE c == ctl.sig["codex"]
           k == ctl.sig["claude"]
<1>1. {c, k} \subseteq attests /\ Fits(c, "codex") /\ Fits(k, "claude")
  BY DEF SigsKnown, Accepted
<1>2. c.after <= k.before
  <2>1. PICK d \in attests : d.engine = "codex" /\ d.round = k.round /\ d.after <= k.before
    BY <1>1 DEF InOrder, Fits
  <2> QED
    BY <1>1, <2>1 DEF OneEach, Fits
<1>3. c \in Results /\ k \in Results
  BY <1>1 DEF TypeOK
<1>4. c.status # "material" /\ k.status # "material"
  BY DEF Material, Engines
<1> QED
  BY <1>1, <1>2, <1>3, <1>4 DEF Fits, InOrder, Results, Statuses

LEMMA WholeRoundStep ==
    ASSUME IInv, SigsKnown, OneEach, InOrder, HeadsKnown, WholeRoundAttested, [Next]_vars
    PROVE  WholeRoundAttested'
<1> USE DEF IInv
<1>1. attests \subseteq attests'
  BY AttestsGrow
<1> SUFFICES ASSUME runState'.phase \in LatePhases PROVE WholeRoundAttested'
  BY DEF WholeRoundAttested
<1>2. CASE UNCHANGED runState
  BY <1>1, <1>2 DEF WholeRoundAttested
<1>3. CASE /\ pc = "decide" /\ ~Material /\ runState'.head = local
           /\ runState'.round = ctl.round /\ runState'.base = ctl.base
           /\ runState'.codex = ctl.sig["codex"] /\ runState'.claude = ctl.sig["claude"]
  BY <1>1, <1>3, DecidedOn DEF WholeRoundAttested
<1>4. CASE /\ runState.phase \in LatePhases
           /\ pc \in {"checkpoint", "record", "unrecord"} /\ runState'.head = ctl.head
           /\ runState'.round = runState.round /\ runState'.base = runState.base
           /\ runState'.codex = runState.codex /\ runState'.claude = runState.claude
  <2>1. runState.head <= runState'.head /\ runState'.head \in Int /\ runState.head \in Int
    BY RunStateHead, IntTypes
  <2>2. runState.claude \in attests /\ runState.claude.after <= runState.head
    BY <1>4 DEF WholeRoundAttested
  <2>3. runState.claude.after <= runState'.head
    BY <2>1, <2>2, IntTypes
  <2> QED
    BY <1>1, <1>4, <2>3 DEF WholeRoundAttested
<1> QED
  BY <1>2, <1>3, <1>4, LateWrites

(* The knowledge of one whole round that the wrapper carries.              *)
RoundInv == SigsKnown /\ OneEach /\ InOrder /\ HeadsKnown /\ WholeRoundAttested

LEMMA RoundInit == Init => RoundInv
<1> SUFFICES ASSUME Init PROVE RoundInv
  OBVIOUS
<1>1. /\ attests = {} /\ pc = "start" /\ local = 0 /\ ctl.head = 0 /\ ~ctl.ready
      /\ runState.head = 0 /\ runState.phase = "draft-open"
  BY DEF Init, PassInit, NoCtl, CreateRunState
<1> QED
  BY <1>1 DEF RoundInv, SigsKnown, OneEach, InOrder, HeadsKnown, LateTargets, LegPcs,
     WholeRoundAttested, LatePhases

(* The wrapper's signatures, the attestations and the checkpoint agree.    *)
THEOREM RoundInvariance == Spec => []RoundInv
<1>1. IInv /\ RoundInv /\ [Next]_vars => RoundInv'
  <2> SUFFICES ASSUME IInv, RoundInv, [Next]_vars PROVE RoundInv'
    OBVIOUS
  <2> QED
    BY SigsKnownStep, OneEachStep, InOrderStep, HeadsKnownStep, WholeRoundStep
       DEF IInv, RoundInv
<1> QED
  BY Invariance, RoundInit, <1>1, PTL DEF Spec

(* A checkpoint that claims convergence rests on the attested passes of    *)
(* one whole round, over every crash, kill, resume, replay and head drift. *)
THEOREM RoundWasAttested == Spec => []WholeRoundAttested
<1>1. RoundInv => WholeRoundAttested
  BY DEF RoundInv
<1> QED
  BY <1>1, RoundInvariance, PTL

-----------------------------------------------------------------------------
(* Fresh passes.  A base that was the PR's once: the base branch is never  *)
(* again at one that it left.                                              *)
Past(b) == b = base \/ base = Rewritten \/ (b \in Nat /\ base \in Nat /\ b < base)

BasesPast ==
    /\ \A m \in merged : Past(m)
    /\ \A a \in attests : Past(a.base)
    /\ Past(runState.base) /\ Past(ctl.base)
    /\ pc = "rebase" => base # runState.base

(* An attested head does not contain a base that moved on since.           *)
MergeFirst == \A a \in attests : a.after = local => base = a.base \/ ~Contains(base)

(* An attestation against the pass's journal, its result and the           *)
(* checkpoint.  A result that is gone, of a round that is not over, makes  *)
(* way for a pass that began after it.                                     *)
AttestSound(a) ==
    /\ a.round <= runState.round
    /\ journal[a.engine][a.round] # None /\ journal[a.engine][a.round].start = a.before
    /\ a.round = runState.round /\ results[a.engine][a.round] = None => a.after < runState.head
AttestsSound ==
    /\ \A a \in attests : AttestSound(a)
    /\ runState.phase = "draft-open" => attests = {}

(* The wrapper against the checkpoint, within a pass and before.           *)
PassKnown ==
    /\ pc = "start" => runState.phase = "draft-open"
    /\ pc = "round" => runState.phase \notin LatePhases
    /\ pc \in LegPcs => /\ runState.phase = "reviewing" /\ runState.engine = ctl.leg
                        /\ runState.round = ctl.round /\ runState.base = ctl.base
    /\ pc \in LegPcs \ {"pass"} => runState.head <= ctl.head
    /\ pc = "attest" => /\ journal[ctl.leg][ctl.round] # None
                        /\ journal[ctl.leg][ctl.round].start = ctl.head

(* An attestation of the present head, base and round, while the round is  *)
(* under review: the checkpoint shows where it came from.                  *)
Live(a) == a.after = local /\ a.base = base /\ a.round = runState.round
LiveKnown ==
    \A a \in attests : Live(a) /\ runState.phase = "reviewing" =>
        /\ runState.base = a.base
        /\ a.engine = "claude" => runState.engine = "claude"
        /\ runState.engine = "codex" /\ runState.head = local => a.status = "clean"

(* The pass of an engine at HEAD in the wrapper's round is done.           *)
Spent(e) == \E a \in attests : a.engine = e /\ a.round = ctl.round /\ a.after = local

PassesFresh ==
    /\ pc \in {"boundary", "rebase", "round"} /\ runState.phase = "reviewing" =>
         \A a \in attests : Live(a) /\ a.round = ctl.round =>
            /\ ctl.rec # "codex"
            /\ a.engine = "claude" => ctl.rec = "complete"
    /\ pc \in {"validateMerge", "publish", "attestMerge"} => ~Spent("codex") /\ ~Spent("claude")
    /\ pc = "leg" /\ ctl.rec = "codex" => ~Spent("codex")
    /\ pc = "leg" /\ ctl.rec # "complete" => ~Spent("claude")
    /\ pc = "toClaude" => ~Spent("claude")
    /\ pc \in {"pass", "open"} =>
         \A a \in attests : a.engine = ctl.leg /\ a.round = ctl.round => a.after < runState.head
    /\ pc \in LegPcs /\ ctl.leg = "codex" => ~Spent("claude")
    /\ pc \in {"hook", "inspect", "attest"} =>
         ~\E a \in attests : a.engine = ctl.leg /\ a.round = ctl.round

(* Who moves the base branch, and where to.                                *)
LEMMA BaseMoves ==
    ASSUME TypeOK, [Next]_vars
    PROVE  \/ UNCHANGED base
           \/ MoveBase /\ \A b \in Bases : Past(b) => base' # b /\ ~BaseAncestor(base', b)
<1>1. UNCHANGED base \/ MoveBase
  <2>1. ASSUME NEW i \in HookIds, HookStep(i, ctl.lock) \/ HookExit(i) PROVE UNCHANGED base
    BY <2>1 DEF HookStep, HookCommit, PublishValidate, PublishPush, PublishRecord,
       PublishRecover, PublishAbort, HookRecord, HookBlock, HookExit, world
  <2>2. CASE PassChange
    BY <2>2 DEF PassChange, Validation, MergeBase, PublishMerge, ClearPass, OpenPass, Resume,
       ValidateMerge, RecoverCodex, RecoverClaude, RecoverLeg, ValidatePass, FinalChecks,
       ResumeFinalized, Crash, PushForeign, OperatorCommit, ChangeResult, Expire,
       Refuse, passVars, world
  <2> QED
    BY <2>1, <2>2, PassWrites DEF passVars
<1>2. ASSUME MoveBase, NEW b \in Bases, Past(b)
      PROVE  base' # b /\ ~BaseAncestor(base', b)
  <2>1. base \in Bases
    BY DEF TypeOK, PassTypeOK
  <2>2. \/ base \in Nat /\ base' = base + 1
        \/ base # Rewritten /\ base' = Rewritten
    BY <1>2, LoopAssumption DEF MoveBase
  <2> QED
    BY <1>2, <2>1, <2>2 DEF Past, BaseAncestor, Bases, Rewritten
<1> QED
  BY <1>1, <1>2

LEMMA PastStep ==
    ASSUME TypeOK, [Next]_vars, NEW b \in Bases, Past(b)
    PROVE  Past(b)'
<1>1. CASE UNCHANGED base
  BY <1>1 DEF Past
<1>2. CASE MoveBase
  <2>1. base \in Bases
    BY DEF TypeOK, PassTypeOK
  <2>2. \/ base \in Nat /\ base' = base + 1
        \/ base # Rewritten /\ base' = Rewritten
    BY <1>2, LoopAssumption DEF MoveBase
  <2> QED
    BY <2>1, <2>2 DEF Past, Bases, Rewritten
<1> QED
  BY <1>1, <1>2, BaseMoves

LEMMA RunStateBase ==
    ASSUME IInv, [Next]_vars
    PROVE  runState'.base \in {runState.base, ctl.base, base}
<1> USE DEF Refuse
<1>1. CASE StartReview \/ CheckpointCodex \/ CheckpointClaude \/ BaseMoved \/ ResumeBoundary
           \/ Rebase
  BY <1>1, ReviewingWrite DEF StartReview, CheckpointCodex, CheckpointClaude, BaseMoved,
     NextRound, CheckpointReviewing, ResumeBoundary, Rebase
<1>2. CASE Decide
  BY <1>2, ReviewingWrite, ConvergedWrite DEF Decide, NextRound, CheckpointReviewing
<1>3. CASE CheckpointFinalizing \/ RecordFinalized \/ RecordFails \/ Unrecord
  BY <1>3, PhaseWrite DEF CheckpointFinalizing, RecordFinalized, RecordFails, Unrecord, Finalized
<1> QED
  BY <1>1, <1>2, <1>3, CheckpointWrites DEF Checkpoint


(* The steps that take the wrapper to the beginning of a round.            *)
RoundTargets == {"start", "boundary", "rebase", "round", "merge", "validateMerge", "publish",
                 "attestMerge", "leg"}

LEMMA RoundMoves ==
    ASSUME [Next]_vars, pc' \in RoundTargets
    PROVE  \/ UNCHANGED <<pc, ctl, runState, attests>>
           \/ StartReview \/ BeginRound \/ MergeBase \/ ValidateMerge \/ PublishMerge
           \/ AttestMerge \/ BaseMoved \/ Decide
           \/ RestoreDrifted \/ ResumeBoundary \/ Rebase \/ Resume
<1> USE DEF RoundTargets, Stop, Goto, Refuse
<1>1. ASSUME NEW i \in HookIds, HookExit(i) PROVE UNCHANGED <<pc, ctl, runState, attests>>
  BY <1>1 DEF HookExit
<1>2. CASE Wrapper
  BY <1>2 DEF Wrapper, MergeConflict, CheckpointCodex, RecoverCodex, RecoverClaude, RecoverLeg,
     CheckpointClaude, ClearPass, OpenPass, InspectPass, AttestPass, ValidatePass,
     FinalChecks, FinalizeChecks, CheckpointFinalizing, MarkReady, MarkReadyFails,
     VerifyReady, RecordFinalized, RecordFails, RestoreDraft, RestoreFails, Unrecord,
     Cleanup, RecoverConverged
<1>3. CASE ResumeFinalized \/ Fail \/ Crash \/ Kill
  BY <1>3 DEF ResumeFinalized, Fail, Crash, Kill
<1> QED
  BY <1>1, <1>2, <1>3, WrapperMoves

LEMMA MergedMoves ==
    ASSUME [Next]_vars
    PROVE  UNCHANGED merged \/ (MergeBase /\ merged' = merged \cup {ctl.base})
<1> USE DEF Stop, Goto, Refuse, hostVars
<1>1. CASE MergeBase
  BY <1>1 DEF MergeBase
<1>2. CASE Wrapper /\ ~MergeBase
  BY <1>2 DEF Wrapper, StartReview, BeginRound, MergeConflict, ValidateMerge,
     PublishMerge, AttestMerge, CheckpointCodex, RecoverCodex, RecoverClaude, RecoverLeg,
     CheckpointClaude, ClearPass, OpenPass, InspectPass, AttestPass, ValidatePass, BaseMoved,
     NextRound, Decide, FinalChecks, FinalizeChecks, CheckpointFinalizing, MarkReady,
     MarkReadyFails, VerifyReady, RecordFinalized, RecordFails, RestoreDraft,
     RestoreFails, Unrecord, Cleanup, RestoreDrifted, ResumeBoundary, Rebase,
     RecoverConverged
<1>3. CASE Resume \/ ResumeFinalized \/ Fail \/ Crash \/ Kill
  BY <1>3 DEF Resume, ResumeFinalized, Fail, Crash, Kill
<1>4. ASSUME NEW i \in HookIds, HookExit(i) PROVE UNCHANGED merged
  BY <1>4 DEF HookExit
<1> QED
  BY <1>1, <1>2, <1>3, <1>4, WrapperMoves

LEMMA BasesPastStep ==
    ASSUME IInv, SigsKnown, BasesPast, [Next]_vars
    PROVE  BasesPast'
<1> USE DEF IInv
<1>1. \A b \in Bases : Past(b) => Past(b)'
  BY PastStep
<1>2. Past(base)' \/ MoveBase
  BY BaseMoves DEF Past
<1>3. base \in Bases /\ ctl.base \in Bases /\ runState.base \in Bases /\ Past(base) /\ Past(0)
  BY IntTypes DEF Past, Bases
<1>4. 0 \in Bases
  BY DEF Bases
<1>5. \A m \in merged' : Past(m)'
  <2>1. \A m \in merged' : m \in Bases /\ Past(m)
    BY <1>3, IntTypes, MergedMoves DEF BasesPast
  <2> QED
    BY <1>1, <2>1
<1>6. \A a \in attests' : Past(a.base)'
  <2>1. \A a \in attests' : a \in attests \/ (a = ctl.sig[ctl.leg] /\ pc = "attest")
    BY AttestMoves
  <2>2. pc = "attest" => ctl.sig[ctl.leg].base = ctl.base
    BY DEF SigsKnown, Fits
  <2>3. \A a \in attests' : a.base \in Bases /\ Past(a.base)
    BY <1>3, <2>1, <2>2, IntTypes DEF BasesPast
  <2> QED
    BY <1>1, <2>3
<1>7. Past(runState.base)' /\ Past(ctl.base)'
  <2>1. /\ runState'.base \in Bases /\ Past(runState'.base)
        /\ ctl'.base \in Bases /\ Past(ctl'.base)
    BY <1>3, <1>4, CtlFrom, RunStateBase DEF BasesPast
  <2> QED
    BY <1>1, <2>1
<1>8. pc' = "rebase" => base' # runState'.base
  <2> SUFFICES ASSUME pc' = "rebase" PROVE base' # runState'.base
    OBVIOUS
  <2>1. CASE UNCHANGED <<pc, ctl, runState, attests>>
    BY <1>3, <2>1, BaseMoves DEF BasesPast
  <2>2. CASE ResumeBoundary
    BY <2>2 DEF ResumeBoundary, Boundary, Refuse, Stop, Goto, passVars
  <2>3. CASE StartReview \/ BeginRound \/ MergeBase \/ ValidateMerge \/ PublishMerge
             \/ AttestMerge \/ BaseMoved \/ Decide \/ RestoreDrifted \/ Rebase \/ Resume
    BY <2>3 DEF StartReview, BeginRound, MergeBase, ValidateMerge, PublishMerge,
       AttestMerge, BaseMoved, Decide, NextRound, RestoreDrifted, Rebase, Resume,
       Refuse, Stop, Goto
  <2> QED
    BY <2>1, <2>2, <2>3, RoundMoves DEF RoundTargets
<1> QED
  BY <1>5, <1>6, <1>7, <1>8 DEF BasesPast

(* An attestation about the new HEAD is about the old one, which is where  *)
(* it is; one about the present base is about the base before the step.    *)
LEMMA AttestedHead ==
    ASSUME TypeOK, InOrder, [Next]_vars, NEW a \in attests, a.after = local'
    PROVE  UNCHANGED <<local, merged>> /\ a.after = local
<1>1. a.after <= local /\ a.after \in Int /\ local \in Int
  BY IntTypes DEF InOrder
<1> QED
  BY <1>1, LocalMoves, MergedMoves DEF MergeBase

LEMMA AttestedBase ==
    ASSUME TypeOK, BasesPast, [Next]_vars, NEW a \in attests, a.base = base'
    PROVE  UNCHANGED base /\ a.base = base
  BY IntTypes, BaseMoves DEF BasesPast

LEMMA MergeFirstStep ==
    ASSUME IInv, SigsKnown, InOrder, BasesPast, MergeFirst, [Next]_vars
    PROVE  MergeFirst'
<1> USE DEF IInv
<1>1. SUFFICES ASSUME NEW a \in attests', a.after = local'
               PROVE  base' = a.base \/ ~Contains(base)'
  BY DEF MergeFirst
<1>2. CASE a \in attests
  <2>1. UNCHANGED <<local, merged>> /\ a.after = local
    BY <1>1, <1>2, AttestedHead
  <2>2. CASE UNCHANGED base
    BY <1>2, <2>1, <2>2 DEF MergeFirst, Contains
  <2>3. CASE ~UNCHANGED base
    BY <2>1, <2>3, BaseMoves, IntTypes DEF BasesPast, Contains
  <2> QED
    BY <2>2, <2>3
<1>3. CASE a \notin attests
  <2>1. a = ctl.sig[ctl.leg] /\ pc = "attest" /\ base = ctl.base /\ UNCHANGED base
    BY <1>1, <1>3, AttestMoves DEF passVars
  <2> QED
    BY <2>1 DEF SigsKnown, Fits
<1> QED
  BY <1>2, <1>3


(* No journal begins anywhere else while its pass may go on: only a resume *)
(* that replays the last round begins one anew.                            *)
LEMMA StartKept ==
    ASSUME TypeOK, HooksJournaled, [Next]_vars, NEW e \in Engines, NEW r \in Rounds,
           journal[e][r] # None
    PROVE  \/ /\ journal'[e][r] # None
              /\ journal'[e][r].start = journal[e][r].start
           \/ /\ Resume /\ ResetAllowed /\ ~HasResult("codex") /\ ~HasResult("claude")
              /\ e = runState.engine /\ r = runState.round
              /\ journal'[e][r] = NewJournal(local)
<1>1. ASSUME NEW i \in HookIds, HookStep(i, ctl.lock)
      PROVE  journal'[e][r] # None /\ journal'[e][r].start = journal[e][r].start
  <2>1. /\ hooks[i] \in HookStates
        /\ \/ UNCHANGED journal
           \/ \E j \in Journals : SetJournal(i, j) /\ j.start = JournalOf(i).start
    BY <1>1, HookMoves
  <2>2. CASE \E j \in Journals : SetJournal(i, j) /\ j.start = JournalOf(i).start
    <3>1. PICK j \in Journals : SetJournal(i, j) /\ j.start = JournalOf(i).start
      BY <2>2
    <3>2. CASE <<e, r>> = PassOf(i)
      <4>1. e = hooks[i].engine /\ r = hooks[i].round
        BY <3>2 DEF PassOf
      <4>2. journal'[e][r] = j /\ j.start = journal[e][r].start
        BY <2>1, <3>1, <4>1, JournalSet DEF JournalOf
      <4> QED
        BY <4>2, PassAssumption
    <3>3. CASE <<e, r>> # PassOf(i)
      BY <2>1, <3>1, <3>3, JournalSet
    <3> QED
      BY <3>2, <3>3
  <2> QED
    BY <2>1, <2>2
<1>2. CASE ~ \E i \in HookIds : HookStep(i, ctl.lock)
  <2>1. CASE \A f \in Engines, t \in Rounds :
               journal[f][t] # None => journal'[f][t] = journal[f][t]
    BY <2>1
  <2>2. CASE /\ Resume /\ ResetAllowed /\ ~HasResult("codex") /\ ~HasResult("claude")
             /\ journal' = [journal EXCEPT
                              ![runState.engine][runState.round] = NewJournal(local)]
    BY <2>2 DEF TypeOK, PassTypeOK
  <2> QED
    BY <1>2, <2>1, <2>2, JournalWrites
<1> QED
  BY <1>1, <1>2

LEMMA PassKnownStep ==
    ASSUME IInv, HeadsKnown, PassKnown, [Next]_vars
    PROVE  PassKnown'
<1> USE DEF IInv
<1>1. runState.head <= local /\ local \in Int
  BY IntTypes DEF HeadsKnown
<1>2. pc' = "start" => runState'.phase = "draft-open"
  <2> SUFFICES ASSUME pc' = "start" PROVE runState'.phase = "draft-open"
    OBVIOUS
  <2>1. UNCHANGED <<pc, ctl, runState, attests>>
    BY RoundMoves DEF RoundTargets, StartReview, BeginRound, MergeBase, ValidateMerge,
       PublishMerge, AttestMerge, BaseMoved, Decide, NextRound, RestoreDrifted,
       ResumeBoundary, Rebase, Resume, Refuse, Stop, Goto
  <2> QED
    BY <2>1 DEF PassKnown
<1>3. pc' = "round" => runState'.phase \notin LatePhases
  <2> SUFFICES ASSUME pc' = "round" PROVE runState'.phase \notin LatePhases
    OBVIOUS
  <2>1. CASE UNCHANGED <<pc, ctl, runState, attests>>
    BY <2>1 DEF PassKnown
  <2>2. CASE StartReview \/ BaseMoved \/ Decide \/ Rebase
    <3>1. \E r, b, h, e : runState' = ToReviewing(runState, r, b, h, e)
      BY <2>2 DEF StartReview, BaseMoved, Decide, NextRound, Rebase, CheckpointReviewing,
         Refuse, Stop, Goto
    <3> QED
      BY <3>1, ReviewingWrite DEF LatePhases
  <2>3. CASE ResumeBoundary
    <3>1. \/ \E r, b, h, e : runState' = ToReviewing(runState, r, b, h, e)
          \/ UNCHANGED runState /\ runState.phase \notin LatePhases
      BY <2>3 DEF ResumeBoundary, CheckpointReviewing, Refuse, Stop, Goto
    <3> QED
      BY <3>1, ReviewingWrite DEF LatePhases
  <2>4. CASE BeginRound \/ MergeBase \/ ValidateMerge \/ PublishMerge \/ AttestMerge
             \/ RestoreDrifted \/ Resume
    BY <2>4 DEF BeginRound, MergeBase, ValidateMerge, PublishMerge, AttestMerge,
       RestoreDrifted, Resume, Refuse, Stop, Goto
  <2> QED
    BY <2>1, <2>2, <2>3, <2>4, RoundMoves DEF RoundTargets
<1>4. CASE pc' \notin LegPcs
  BY <1>2, <1>3, <1>4 DEF PassKnown, LegPcs
<1> SUFFICES ASSUME pc' \in LegPcs PROVE PassKnown'
  BY <1>4
<1>5. pc' # "stopped" /\ pc' \notin {"toClaude", "recoverClaude", "decide", "moved"} /\ pc' \in LegTargets
  BY DEF LegPcs, LegTargets
<1>6. ctl \in Ctl
  BY DEF TypeOK
<1> USE DEF Refuse, Stop, Goto
<1>7. CASE UNCHANGED <<pc, ctl, runState, attests>>
  <2>1. pc = "attest" => /\ journal'[ctl.leg][ctl.round] # None
                         /\ journal'[ctl.leg][ctl.round].start = ctl.head
    <3> SUFFICES ASSUME pc = "attest"
                 PROVE  /\ journal'[ctl.leg][ctl.round] # None
                        /\ journal'[ctl.leg][ctl.round].start = ctl.head
      OBVIOUS
    <3>1. /\ journal[ctl.leg][ctl.round] # None /\ ctl.leg \in Engines /\ ctl.round \in Rounds
          /\ journal[ctl.leg][ctl.round].start = ctl.head
      BY <1>6 DEF PassKnown, Ctl
    <3>2. ~Resume
      BY DEF Resume
    <3> QED
      BY <3>1, <3>2, StartKept
  <2> QED
    BY <1>2, <1>3, <1>7, <2>1 DEF PassKnown, LegPcs
<1>8. CASE CheckpointCodex \/ CheckpointClaude
  <2>1. /\ pc' = "pass"
        /\ ctl'.round = ctl.round /\ ctl'.base = ctl.base
        /\ ctl'.leg \in {"codex", "claude"}
        /\ runState' = ToReviewing(runState, ctl.round, ctl.base, local, ctl'.leg)
    BY <1>6, <1>8 DEF CheckpointCodex, CheckpointClaude, CheckpointReviewing, Ctl
  <2>2. /\ runState'.phase = "reviewing" /\ runState'.engine = ctl'.leg
        /\ runState'.round = ctl'.round /\ runState'.base = ctl'.base
    BY <2>1, ReviewingWrite
  <2> QED
    BY <2>1, <2>2 DEF PassKnown, LegPcs
<1>9. CASE ClearPass \/ OpenPass \/ HookEnds \/ InspectPass \/ AttestPass
  <2>1. /\ pc \in LegPcs /\ UNCHANGED runState
        /\ ctl'.leg = ctl.leg /\ ctl'.round = ctl.round /\ ctl'.base = ctl.base
    BY <1>5, <1>6, <1>9 DEF ClearPass, OpenPass, HookEnds, HookExit, InspectPass, AttestPass,
       Ctl, LegPcs, passVars, world
  <2>2. \/ pc = "pass" /\ pc' = "open" /\ ctl'.head = local
        \/ pc # "pass" /\ pc' \notin {"pass", "open"} /\ ctl'.head = ctl.head
    BY <1>5, <1>6, <1>9 DEF ClearPass, OpenPass, HookEnds, InspectPass, AttestPass, Ctl
  <2>3. pc' = "attest" => /\ journal'[ctl.leg][ctl.round] # None
                          /\ journal'[ctl.leg][ctl.round].start = ctl.head
    <3> SUFFICES ASSUME pc' = "attest"
                 PROVE  /\ journal'[ctl.leg][ctl.round] # None
                        /\ journal'[ctl.leg][ctl.round].start = ctl.head
      OBVIOUS
    <3>1. InspectPass
      BY <1>5, <1>9 DEF ClearPass, OpenPass, HookEnds, AttestPass
    <3>2. JournalClosed /\ UNCHANGED journal
      BY <3>1 DEF InspectPass, passVars
    <3>3. PICK p \in Heads \cup {None} :
            journal[ctl.leg][ctl.round] = [start |-> ctl.head, validated |-> p, published |-> p]
      BY <3>2 DEF JournalClosed, TypeOK, PassTypeOK
    <3>4. ctl.head \in Heads
      BY <1>6 DEF Ctl
    <3> QED
      BY <3>2, <3>3, <3>4, PassAssumption DEF Journals
  <2> QED
    BY <1>1, <1>2, <1>3, <2>1, <2>2, <2>3 DEF PassKnown, LegPcs
<1>10. ~RecoverCodex /\ ~RecoverClaude /\ ~ValidatePass
  <2>1. ~RecoverCodex /\ ~RecoverClaude
    BY <1>5 DEF RecoverCodex, RecoverClaude, RecoverLeg
  <2>2. ~ValidatePass
    BY <1>5 DEF ValidatePass
  <2> QED
    BY <2>1, <2>2
<1> QED
  BY <1>5, <1>7, <1>8, <1>9, <1>10, LegMoves DEF LegStep


(* A result goes away only when its pass is begun again.                   *)
LEMMA ResultGoes ==
    ASSUME TypeOK, [Next]_vars, NEW e \in Engines, NEW r \in Rounds,
           results[e][r] # None, results'[e][r] = None
    PROVE  /\ pc = "pass" /\ e = ctl.leg /\ r = ctl.round
           /\ UNCHANGED <<local, base, runState, attests>>
<1>1. ASSUME NEW i \in HookIds, HookStep(i, ctl.lock) PROVE FALSE
  <2>1. hooks[i] \in HookStates
    BY <1>1, HookMoving DEF TypeOK, PassTypeOK
  <2>2. PICK s \in Statuses :
          results' = [results EXCEPT ![hooks[i].engine][hooks[i].round] = ResultOf(hooks[i], s)]
    BY <1>1 DEF HookStep, HookCommit, PublishValidate, PublishPush, PublishRecord,
       PublishRecover, PublishAbort, HookRecord, HookBlock, Statuses
  <2>3. ResultOf(hooks[i], s) # None
    BY <2>1, ResultType, NoneAssumption
  <2> QED
    BY <2>1, <2>2, <2>3 DEF TypeOK, PassTypeOK, HookStates
<1>2. CASE ChangeResult
  <2>1. PICK f \in Engines, t \in Rounds, s \in Statuses :
          results[f][t] # None /\ results' = [results EXCEPT ![f][t].status = s]
    BY <1>2 DEF ChangeResult
  <2>2. results[f][t] \in Results
    BY <2>1 DEF TypeOK, PassTypeOK
  <2>3. [results[f][t] EXCEPT !.status = s] # None
    BY <2>1, <2>2, NoneAssumption DEF Results
  <2> QED
    BY <2>1, <2>3 DEF TypeOK, PassTypeOK
<1>3. CASE ClearPass
  BY <1>3 DEF ClearPass, Refuse, passVars, world, TypeOK, PassTypeOK, Ctl
<1>4. UNCHANGED results \/ ClearPass \/ ChangeResult \/ \E i \in HookIds : HookStep(i, ctl.lock)
  <2>1. ASSUME NEW i \in HookIds, HookExit(i) PROVE UNCHANGED results
    BY <2>1 DEF HookExit
  <2>2. CASE PassChange
    BY <2>2 DEF PassChange, Validation, MergeBase, PublishMerge, OpenPass, Resume,
       ValidateMerge, RecoverCodex, RecoverClaude, RecoverLeg, ValidatePass, FinalChecks,
       ResumeFinalized, Crash, MoveBase, PushForeign, OperatorCommit, Expire, Refuse, passVars
  <2> QED
    BY <2>1, <2>2, PassWrites DEF passVars
<1> QED
  BY <1>1, <1>2, <1>3, <1>4

LEMMA DraftOpenStays ==
    ASSUME [Next]_vars, runState'.phase = "draft-open"
    PROVE  UNCHANGED runState
<1>1. CASE StartReview \/ CheckpointCodex \/ CheckpointClaude \/ BaseMoved \/ ResumeBoundary
           \/ Rebase
  BY <1>1, ReviewingWrite DEF StartReview, CheckpointCodex, CheckpointClaude, BaseMoved,
     NextRound, CheckpointReviewing, ResumeBoundary, Rebase, Refuse
<1>2. CASE Decide
  BY <1>2, ReviewingWrite, ConvergedWrite DEF Decide, NextRound, CheckpointReviewing, Refuse
<1>3. CASE CheckpointFinalizing \/ RecordFinalized \/ RecordFails \/ Unrecord
  BY <1>3, PhaseWrite DEF CheckpointFinalizing, RecordFinalized, RecordFails, Unrecord,
     Finalized
<1> QED
  BY <1>1, <1>2, <1>3, CheckpointWrites DEF Checkpoint

(* No journal of an attested pass begins anywhere else from then on.       *)
LEMMA AttestedJournal ==
    ASSUME TypeOK, HooksJournaled, InOrder, AttestsSound, [Next]_vars, NEW a \in attests
    PROVE  /\ journal'[a.engine][a.round] # None
           /\ journal'[a.engine][a.round].start = a.before
<1>1. /\ a.engine \in Engines /\ a.round \in Rounds
      /\ a.before \in Int /\ a.after \in Int /\ runState.head \in Int
      /\ AttestSound(a) /\ a.before <= a.after
  BY IntTypes DEF AttestsSound, InOrder
<1>2. journal[a.engine][a.round] # None /\ journal[a.engine][a.round].start = a.before
  BY <1>1 DEF AttestSound
<1>3. CASE /\ ResetAllowed /\ ~HasResult("codex") /\ ~HasResult("claude")
           /\ a.engine = runState.engine /\ a.round = runState.round
           /\ journal'[a.engine][a.round] = NewJournal(local)
  <2>1. results[a.engine][a.round] = None
    BY <1>1, <1>3 DEF HasResult, Engines
  <2>2. a.after < runState.head
    BY <1>1, <1>3, <2>1 DEF AttestSound
  <2>3. a.before # runState.head
    BY <1>1, <2>2
  <2>4. journal[a.engine][a.round] = NewJournal(local)
    BY <1>2, <1>3, <2>3 DEF ResetAllowed
  <2> QED
    BY <1>2, <1>3, <2>4
<1> QED
  BY <1>1, <1>2, <1>3, StartKept

LEMMA AttestsSoundStep ==
    ASSUME IInv, RoundInv, PassKnown, PassesFresh, AttestsSound, [Next]_vars
    PROVE  AttestsSound'
<1> USE DEF IInv, RoundInv
<1>1. /\ runState'.round >= runState.round /\ runState'.round \in Int
      /\ runState.head <= runState'.head /\ runState'.head \in Int
  <2>1. runState'.round \in Int
    BY RunStateStep, MaxRoundsAssumption DEF RunStates, Rounds
  <2> QED
    BY <2>1, RoundGrows, RunStateHead
<1>2. ASSUME NEW a \in attests PROVE AttestSound(a)'
  <2>1. /\ a.engine \in Engines /\ a.round \in Rounds /\ a.round \in Int
        /\ a.before \in Int /\ a.after \in Int /\ runState.head \in Int /\ local \in Int
        /\ runState.round \in Int
    BY IntTypes
  <2>2. AttestSound(a)
    BY DEF AttestsSound
  <2>3. ASSUME a.round = runState'.round, results'[a.engine][a.round] = None
        PROVE  a.after < runState'.head
    <3>1. a.round = runState.round
      BY <1>1, <2>1, <2>2, <2>3 DEF AttestSound
    <3>2. CASE results[a.engine][a.round] = None
      BY <1>1, <2>1, <2>2, <3>1, <3>2 DEF AttestSound
    <3>3. CASE results[a.engine][a.round] # None
      <4>1. pc = "pass" /\ a.engine = ctl.leg /\ a.round = ctl.round /\ UNCHANGED runState
        BY <2>1, <2>3, <3>3, ResultGoes
      <4> QED
        BY <4>1 DEF PassesFresh
    <3> QED
      BY <3>2, <3>3
  <2>4. a.round <= runState'.round
    BY <1>1, <2>1, <2>2 DEF AttestSound
  <2> QED
    BY <2>3, <2>4, AttestedJournal DEF AttestSound
<1>3. ASSUME NEW a \in attests', a \notin attests PROVE AttestSound(a)'
  <2>1. /\ a = ctl.sig[ctl.leg] /\ pc = "attest"
        /\ results[ctl.leg][ctl.round] = a
        /\ UNCHANGED <<passVars, ctl, runState>>
    BY <1>3, AttestMoves
  <2>2. a.engine = ctl.leg /\ a.round = ctl.round /\ a.before = ctl.head
    BY <2>1 DEF SigsKnown, Fits
  <2>3. a # None
    BY <2>1 DEF Control, SignaturesHeld
  <2>4. /\ runState.round = ctl.round
        /\ journal[ctl.leg][ctl.round] # None /\ journal[ctl.leg][ctl.round].start = ctl.head
    BY <2>1 DEF PassKnown, LegPcs
  <2> QED
    BY <2>1, <2>2, <2>3, <2>4, IntTypes DEF AttestSound, passVars
<1>4. runState'.phase = "draft-open" => attests' = {}
  <2> SUFFICES ASSUME runState'.phase = "draft-open" PROVE attests' = {}
    OBVIOUS
  <2>1. UNCHANGED runState /\ attests = {}
    BY DraftOpenStays DEF AttestsSound
  <2>2. pc # "attest"
    BY <2>1 DEF PassKnown, LegPcs
  <2> QED
    BY <2>1, <2>2, AttestMoves
<1> QED
  BY <1>2, <1>3, <1>4 DEF AttestsSound


LEMMA PhaseCases ==
    TypeOK => runState.phase \in LatePhases \cup {"draft-open", "reviewing"}
  BY DEF TypeOK, RunStates, Phases, LatePhases

(* An attestation of a round later than the wrapper's does not exist.      *)
LEMMA RoundAttested ==
    ASSUME IInv, AttestsSound, NEW a \in attests, pc \in RoundPcs \cup {"round", "boundary", "rebase"}
    PROVE  /\ a.round < ctl.round + 1
           /\ a.round = ctl.round => a.round = runState.round
<1>1. a.round \in Int /\ ctl.round \in Int /\ runState.round \in Int
  BY IntTypes DEF IInv
<1>2. a.round <= runState.round /\ runState.round <= ctl.round
  BY DEF AttestsSound, AttestSound, IInv, Control, RoundsAgree
<1> QED
  BY <1>1, <1>2

(* A rebase is never to a base that the head is attested for.              *)
LEMMA RebaseNotLive ==
    ASSUME IInv, AttestsSound, BasesPast, LiveKnown, NEW a \in attests,
           pc = "rebase", runState.phase \notin LatePhases,
           a.after = local, a.base = base, a.round = ctl.round
    PROVE  FALSE
<1>1. a.round = runState.round
  BY RoundAttested
<1>2. runState.phase = "reviewing"
  BY PhaseCases DEF IInv, AttestsSound
<1> QED
  BY <1>1, <1>2 DEF LiveKnown, Live, BasesPast

LEMMA LiveKnownStep ==
    ASSUME IInv, RoundInv, BasesPast, AttestsSound, PassKnown, PassesFresh, LiveKnown, [Next]_vars
    PROVE  LiveKnown'
<1> USE DEF IInv, RoundInv
<1>1. ASSUME NEW a \in attests', a \notin attests, runState'.phase = "reviewing"
      PROVE  /\ runState'.base = a.base
             /\ a.engine = "claude" => runState'.engine = "claude"
             /\ runState'.engine = "codex" /\ runState'.head = local' => a.status = "clean"
  <2>1. /\ a = ctl.sig[ctl.leg] /\ pc = "attest" /\ local = a.after
        /\ UNCHANGED <<passVars, ctl, runState>>
    BY <1>1, AttestMoves
  <2>2. /\ a.engine = ctl.leg /\ a.base = ctl.base /\ a.before = ctl.head
        /\ a.before <= a.after /\ (a.status = "clean" <=> a.before = a.after)
    BY <2>1 DEF SigsKnown, Fits
  <2>3. runState.engine = ctl.leg /\ runState.base = ctl.base /\ runState.head <= ctl.head
    BY <2>1 DEF PassKnown, LegPcs
  <2>4. runState.head = local => a.status = "clean"
    BY <2>1, <2>2, <2>3, IntTypes
  <2> QED
    BY <2>1, <2>2, <2>3, <2>4 DEF passVars
<1>2. ASSUME NEW a \in attests, Live(a)', runState'.phase = "reviewing"
      PROVE  /\ runState'.base = a.base
             /\ a.engine = "claude" => runState'.engine = "claude"
             /\ runState'.engine = "codex" /\ runState'.head = local' => a.status = "clean"
  <2>1. /\ UNCHANGED <<local, base>> /\ a.after = local /\ a.base = base
        /\ a.round = runState'.round
    BY <1>2, AttestedHead, AttestedBase DEF Live
  <2>2. a.engine \in Engines /\ a.round \in Int /\ ctl.round \in Int /\ AttestSound(a)
    BY IntTypes DEF AttestsSound
  <2>3. CASE UNCHANGED runState
    BY <1>2, <2>1, <2>3 DEF LiveKnown, Live
  <2>4. CASE StartReview
    BY <2>4 DEF StartReview, PassKnown, AttestsSound
  <2>5. CASE CheckpointCodex
    <3>1. pc = "leg" /\ ctl.rec = "codex" /\ runState'.round = ctl.round
      BY <2>5, ReviewingWrite DEF CheckpointCodex, CheckpointReviewing
    <3>2. Spent(a.engine)
      BY <2>1, <3>1 DEF Spent
    <3> QED
      BY <2>2, <3>1, <3>2 DEF PassesFresh, Engines
  <2>6. CASE CheckpointClaude
    <3>1. /\ pc = "toClaude" /\ runState'.round = ctl.round /\ runState'.base = ctl.base
          /\ runState'.engine = "claude"
      BY <2>6, ReviewingWrite DEF CheckpointClaude, CheckpointReviewing
    <3>2. a.engine = "codex"
      BY <2>1, <2>2, <3>1 DEF Spent, PassesFresh, Engines
    <3>3. a = ctl.sig["codex"]
      BY <2>1, <3>1, <3>2 DEF SigsKnown, Accepted, Fits, OneEach
    <3>4. a.base = ctl.base
      BY <3>1, <3>3 DEF SigsKnown, Accepted, Fits
    <3> QED
      BY <3>1, <3>2, <3>4
  <2>7. ASSUME NEW b, NextRound(b), pc \in RoundPcs PROVE FALSE
    BY <2>1, <2>2, <2>7, NextRoundFields, RoundAttested
  <2>8. CASE BaseMoved \/ Decide
    <3>1. /\ pc \in RoundPcs
          /\ \/ UNCHANGED runState \/ NextRound(base)
             \/ runState' = ToConverged(runState, ctl.round, ctl.base, local,
                                        ctl.sig["codex"], ctl.sig["claude"])
      BY <2>8 DEF BaseMoved, Decide, Refuse, RoundPcs
    <3> QED
      BY <1>2, <2>3, <2>7, <3>1, ConvergedWrite
  <2>9. CASE CheckpointFinalizing \/ RecordFinalized \/ RecordFails \/ Unrecord
    <3>1. UNCHANGED runState \/ runState'.phase \in {"finalizing", "finalized"}
      BY <2>9, PhaseWrite DEF CheckpointFinalizing, RecordFinalized, RecordFails, Unrecord,
         Finalized
    <3> QED
      BY <1>2, <2>3, <3>1
  <2>10. CASE ResumeBoundary
    <3>1. pc = "boundary" /\ (UNCHANGED runState \/ runState'.round = ctl.round + 1)
      BY <2>10, ReviewingWrite DEF ResumeBoundary, CheckpointReviewing, Refuse
    <3> QED
      BY <2>1, <2>2, <2>3, <3>1, RoundAttested
  <2>11. CASE Rebase
    <3>1. /\ pc = "rebase"
          /\ \/ UNCHANGED runState
             \/ runState'.round = ctl.round + 1
             \/ runState'.round = ctl.round /\ runState.phase \notin LatePhases
      BY <2>11, ReviewingWrite DEF Rebase, CheckpointReviewing, Refuse
    <3> QED
      BY <2>1, <2>2, <2>3, <3>1, RoundAttested, RebaseNotLive
  <2> QED
    BY <2>3, <2>4, <2>5, <2>6, <2>8, <2>9, <2>10, <2>11, CheckpointWrites DEF Checkpoint
<1> QED
  BY <1>1, <1>2 DEF LiveKnown


(* A resume of a round whose pass was attested knows of it.                *)
LEMMA ResumeKnows ==
    ASSUME IInv, HeadsKnown, AttestsSound, LiveKnown, Resume,
           NEW a \in attests, Live(a), runState.phase = "reviewing", a.round = ctl'.round
    PROVE  /\ ctl'.rec # "codex"
           /\ a.engine = "claude" => ctl'.rec = "complete"
<1> USE DEF IInv
<1>1. PICK last \in BOOLEAN :
        /\ last => Interrupted
        /\ ctl'.round = ResumeRound(last) /\ ctl'.rec = RecFor(last)
  BY DEF Resume, NoCtl
<1>2. /\ a.engine \in Engines /\ a.after \in Int /\ local \in Int /\ runState.head \in Int
      /\ runState.round \in Int /\ AttestSound(a)
  BY IntTypes DEF AttestsSound
<1>3. a.after = local /\ a.base = base /\ a.round = runState.round /\ runState.head <= local
  BY DEF Live, HeadsKnown
<1>4. Interrupted
  <2>1. CASE runState.engine = "claude" \/ local # runState.head
    BY <2>1 DEF Interrupted
  <2>2. CASE runState.engine # "claude" /\ local = runState.head
    <3>1. runState.engine = "codex"
      BY <2>2 DEF Control, RunStateValid, ValidRunState, TypeOK, RunStates, Engines
    <3>2. a.engine = "codex" /\ a.status = "clean" /\ a.base = runState.base
      BY <1>2, <2>2, <3>1 DEF LiveKnown, Engines
    <3>3. CodexAttested
      BY <1>3, <2>2, <3>2 DEF CodexAttested
    <3> QED
      BY <3>3 DEF Interrupted
  <2> QED
    BY <2>1, <2>2
<1>5. last
  BY <1>1, <1>2, <1>3, <1>4 DEF ResumeRound
<1>6. HasResult(a.engine)
  BY <1>2, <1>3 DEF AttestSound, HasResult
<1>7. HasResult("claude") \/ (a.engine = "codex" /\ HasResult("codex"))
  BY <1>2, <1>6 DEF Engines
<1>8. CASE HasResult("claude")
  BY <1>1, <1>5, <1>8 DEF RecFor
<1>9. CASE ~HasResult("claude")
  BY <1>1, <1>5, <1>7, <1>9 DEF RecFor
<1> QED
  BY <1>8, <1>9

LEMMA SpentBack ==
    ASSUME TypeOK, InOrder, [Next]_vars, UNCHANGED attests,
           ctl'.round = ctl.round, NEW e
    PROVE  Spent(e)' => Spent(e)
<1> SUFFICES ASSUME Spent(e)' PROVE Spent(e)
  OBVIOUS
<1>1. PICK a \in attests : a.engine = e /\ a.round = ctl.round /\ a.after = local'
  BY DEF Spent
<1> QED
  BY <1>1, AttestedHead DEF Spent

LEMMA LiveBack ==
    ASSUME TypeOK, InOrder, BasesPast, [Next]_vars, UNCHANGED runState,
           NEW a \in attests, Live(a)'
    PROVE  Live(a)
  BY AttestedHead, AttestedBase DEF Live

LEMMA PassesFreshStill ==
    ASSUME TypeOK, InOrder, BasesPast, PassesFresh, [Next]_vars,
           UNCHANGED <<pc, ctl, runState, attests>>
    PROVE  PassesFresh'
<1>1. \A e : Spent(e)' => Spent(e)
  BY SpentBack
<1>2. \A a \in attests : Live(a)' => Live(a)
  BY LiveBack
<1>3. Spent(ctl.leg)' => Spent(ctl.leg)
  BY SpentBack DEF Spent
<1> QED
  BY <1>1, <1>2, <1>3 DEF PassesFresh

LEMMA FreshRoundStep ==
    ASSUME IInv, RoundInv, BasesPast, MergeFirst, AttestsSound, PassKnown, LiveKnown, PassesFresh,
           [Next]_vars, pc' \in RoundTargets
    PROVE  PassesFresh'
<1> USE DEF IInv, RoundInv, RoundTargets, Refuse, Stop, Goto
<1>1. ctl \in Ctl
  BY DEF TypeOK
<1>2. CASE UNCHANGED <<pc, ctl, runState, attests>>
  BY <1>2, PassesFreshStill
<1>3. ASSUME pc' \in {"boundary", "rebase", "round"},
             \A a \in attests' : Live(a)' /\ a.round = ctl'.round /\ runState'.phase = "reviewing" =>
                /\ ctl'.rec # "codex"
                /\ a.engine = "claude" => ctl'.rec = "complete"
      PROVE  PassesFresh'
  BY <1>3 DEF PassesFresh, LegPcs
<1>4. CASE StartReview
  <2>1. attests = {} /\ UNCHANGED attests /\ pc' = "round"
    BY <1>4 DEF StartReview, PassKnown, AttestsSound, hostVars
  <2> QED
    BY <1>3, <2>1
<1>5. CASE BeginRound
  <2>1. CASE pc' = "leg"
    <3>1. /\ pc = "round" /\ Contains(base) /\ UNCHANGED <<local, attests, runState>>
          /\ ctl'.round = ctl.round /\ ctl'.rec = ctl.rec
      BY <1>1, <1>5, <2>1 DEF BeginRound, Ctl, passVars, hostVars
    <3>2. ASSUME NEW a \in attests, a.round = ctl.round, a.after = local
          PROVE  /\ ctl.rec # "codex"
                 /\ a.engine = "claude" => ctl.rec = "complete"
      <4>1. a.base = base
        BY <3>1, <3>2 DEF MergeFirst
      <4>2. Live(a)
        BY <3>1, <3>2, <4>1, RoundAttested DEF Live
      <4>3. runState.phase = "reviewing"
        BY <3>1, PhaseCases DEF PassKnown, AttestsSound
      <4> QED
        BY <3>1, <3>2, <4>2, <4>3 DEF PassesFresh
    <3>3. \A e : Spent(e)' => Spent(e)
      BY <3>1, SpentBack
    <3>4. ctl.rec = "codex" => ~Spent("codex")
      BY <3>2 DEF Spent
    <3>5. ctl.rec # "complete" => ~Spent("claude")
      BY <3>2 DEF Spent
    <3> QED
      BY <2>1, <3>1, <3>3, <3>4, <3>5 DEF PassesFresh, LegPcs
  <2>2. CASE pc' = "merge"
    BY <2>2 DEF PassesFresh, LegPcs
  <2>3. pc' \in {"leg", "merge"}
    BY <1>5 DEF BeginRound
  <2> QED
    BY <2>1, <2>2, <2>3
<1>6. CASE MergeBase
  <2>1. pc' = "validateMerge" /\ UNCHANGED <<ctl, attests>> /\ local' = local + 1
    BY <1>6 DEF MergeBase
  <2>2. \A e : ~Spent(e)'
    <3>1. \A a \in attests : a.after # local'
      BY <2>1, AttestedHead, IntTypes
    <3> QED
      BY <2>1, <3>1 DEF Spent
  <2> QED
    BY <2>1, <2>2 DEF PassesFresh, LegPcs
<1>7. CASE ValidateMerge \/ PublishMerge \/ AttestMerge
  <2>1. /\ pc \in {"validateMerge", "publish", "attestMerge"}
        /\ pc' \in {"publish", "attestMerge", "leg"}
        /\ UNCHANGED <<ctl, attests>>
    BY <1>7 DEF ValidateMerge, PublishMerge, AttestMerge, hostVars
  <2>2. \A e : Spent(e)' => Spent(e)
    BY <2>1, SpentBack
  <2> QED
    BY <2>1, <2>2 DEF PassesFresh, LegPcs
<1>8. ASSUME UNCHANGED attests, ctl'.round = ctl.round + 1,
             pc \in RoundPcs \cup {"boundary", "rebase"}, pc' = "round"
      PROVE  PassesFresh'
  <2>1. \A a \in attests : a.round < ctl.round + 1 /\ a.round \in Int /\ ctl.round \in Int
    BY <1>8, RoundAttested, IntTypes
  <2> QED
    BY <1>3, <1>8, <2>1
<1>9. CASE BaseMoved \/ Decide
  <2>1. pc \in RoundPcs /\ NextRound(base)
    BY <1>9 DEF BaseMoved, Decide, RoundPcs
  <2> QED
    BY <1>8, <2>1, NextRoundFields DEF NextRound, hostVars
<1>10. CASE RestoreDrifted
  <2>1. pc' = "boundary" /\ UNCHANGED runState /\ runState.phase # "reviewing"
    BY <1>10 DEF RestoreDrifted, Control, DraftKnown
  <2> QED
    BY <1>3, <2>1
<1>11. ASSUME pc \in {"boundary", "rebase", "round"}, pc' \in {"boundary", "rebase", "round"},
              UNCHANGED <<attests, runState>>, ctl'.round = ctl.round, ctl'.rec = ctl.rec
       PROVE  PassesFresh'
  <2>1. \A a \in attests : Live(a)' => Live(a)
    BY <1>11, LiveBack
  <2> QED
    BY <1>3, <1>11, <2>1 DEF PassesFresh
<1>12. CASE ResumeBoundary
  <2>1. /\ pc = "boundary" /\ pc' \in {"rebase", "round"} /\ UNCHANGED attests
        /\ ctl'.rec = ctl.rec
        /\ \/ UNCHANGED runState /\ ctl'.round = ctl.round
           \/ ctl'.round = ctl.round + 1 /\ pc' = "round"
    BY <1>1, <1>12 DEF ResumeBoundary, Ctl, hostVars
  <2> QED
    BY <1>8, <1>11, <2>1
<1>13. CASE Rebase
  <2>1. /\ pc = "rebase" /\ pc' = "round" /\ UNCHANGED <<attests, local, base>>
        /\ \/ ctl'.round = ctl.round + 1
           \/ ctl'.round = ctl.round /\ runState.phase \notin LatePhases
    BY <1>1, <1>13 DEF Rebase, Ctl, hostVars, passVars
  <2>2. CASE ctl'.round = ctl.round + 1
    BY <1>8, <2>1, <2>2
  <2>3. CASE ctl'.round = ctl.round /\ runState.phase \notin LatePhases
    <3>1. \A a \in attests : ~(Live(a)' /\ a.round = ctl'.round)
      BY <2>1, <2>3, RebaseNotLive DEF Live
    <3> QED
      BY <1>3, <2>1, <3>1
  <2> QED
    BY <2>1, <2>2, <2>3
<1>14. CASE Resume
  <2>1. pc' = "boundary" /\ UNCHANGED <<attests, runState>>
    BY <1>14 DEF Resume
  <2>2. \A a \in attests : Live(a)' => Live(a)
    BY <2>1, LiveBack
  <2> QED
    BY <1>3, <1>14, <2>1, <2>2, ResumeKnows
<1> QED
  BY <1>2, <1>4, <1>5, <1>6, <1>7, <1>9, <1>10, <1>12, <1>13, <1>14, RoundMoves

(* What the round has attested of an engine whose pass at HEAD is not done *)
(* is about earlier heads.                                                 *)
LEMMA UnspentBefore ==
    ASSUME TypeOK, InOrder, NEW e, ~Spent(e)
    PROVE  \A a \in attests : a.engine = e /\ a.round = ctl.round => a.after < local
  BY IntTypes DEF InOrder, Spent

LEMMA FreshLegStep ==
    ASSUME IInv, RoundInv, BasesPast, AttestsSound, PassKnown, PassesFresh,
           [Next]_vars, pc' \in LegPcs \cup {"toClaude"}
    PROVE  PassesFresh'
<1> USE DEF IInv, RoundInv, LegPcs, Refuse, Stop, Goto
<1>1. ctl \in Ctl /\ ctl.leg \in Engines
  BY DEF TypeOK, Ctl
<1>2. CASE UNCHANGED <<pc, ctl, runState, attests>>
  BY <1>2, PassesFreshStill
<1>3. CASE CheckpointCodex
  <2>1. /\ pc = "leg" /\ ctl.rec = "codex" /\ pc' = "pass" /\ UNCHANGED attests
        /\ ctl'.round = ctl.round /\ ctl'.leg = "codex"
        /\ runState' = ToReviewing(runState, ctl.round, ctl.base, local, "codex")
    BY <1>1, <1>3 DEF CheckpointCodex, CheckpointReviewing, Ctl, hostVars
  <2>2. \A e : Spent(e)' => Spent(e)
    BY <2>1, SpentBack
  <2>3. ~Spent("codex") /\ ~Spent("claude")
    BY <2>1 DEF PassesFresh
  <2>4. \A a \in attests : a.engine = "codex" /\ a.round = ctl.round => a.after < runState'.head
    BY <2>1, <2>3, ReviewingWrite, UnspentBefore
  <2> QED
    BY <2>1, <2>2, <2>3, <2>4 DEF PassesFresh
<1>4. CASE RecoverCodex
  <2>1. ctl.rec # "complete" /\ RecoverLeg("codex", FALSE, "codex", "toClaude")
    <3>1. ASSUME RecoverLeg("codex", TRUE, "complete", "recoverClaude") PROVE FALSE
      BY <3>1 DEF RecoverLeg
    <3> QED
      BY <1>4, <3>1 DEF RecoverCodex
  <2>2. pc = "leg" /\ pc' = "toClaude" /\ UNCHANGED attests /\ ctl'.round = ctl.round
    BY <1>4, <2>1, RecoverLegFields DEF RecoverCodex, Engines
  <2>3. \A e : Spent(e)' => Spent(e)
    BY <2>2, SpentBack
  <2> QED
    BY <2>1, <2>2, <2>3 DEF PassesFresh
<1>5. CASE CheckpointClaude
  <2>1. /\ pc = "toClaude" /\ pc' = "pass" /\ UNCHANGED attests
        /\ ctl'.round = ctl.round /\ ctl'.leg = "claude"
        /\ runState' = ToReviewing(runState, ctl.round, ctl.base, local, "claude")
    BY <1>1, <1>5 DEF CheckpointClaude, CheckpointReviewing, Ctl, hostVars
  <2>2. ~Spent("claude")
    BY <2>1 DEF PassesFresh
  <2>3. \A a \in attests : a.engine = "claude" /\ a.round = ctl.round => a.after < runState'.head
    BY <2>1, <2>2, ReviewingWrite, UnspentBefore
  <2> QED
    BY <2>1, <2>3 DEF PassesFresh
<1>6. CASE ClearPass
  <2>1. /\ pc = "pass" /\ pc' = "open" /\ UNCHANGED <<attests, runState>>
        /\ ctl'.round = ctl.round /\ ctl'.leg = ctl.leg
    BY <1>1, <1>6 DEF ClearPass, Ctl
  <2>2. \A e : Spent(e)' => Spent(e)
    BY <2>1, SpentBack
  <2> QED
    BY <2>1, <2>2 DEF PassesFresh
<1>7. CASE OpenPass
  <2> DEFINE j == journal[ctl.leg][ctl.round]
  <2>1. /\ pc = "open" /\ pc' = "hook" /\ UNCHANGED <<attests, local>>
        /\ ctl'.round = ctl.round /\ ctl'.leg = ctl.leg
        /\ j = None \/ j.start = ctl.head
    BY <1>1, <1>7 DEF OpenPass, Ctl, world
  <2>2. \A e : Spent(e)' => Spent(e)
    BY <2>1, SpentBack
  <2>3. runState.head <= ctl.head
    BY <2>1 DEF PassKnown
  <2>4. ASSUME NEW a \in attests, a.engine = ctl.leg, a.round = ctl.round PROVE FALSE
    <3>1. /\ AttestSound(a) /\ a.before \in Int /\ a.after \in Int
          /\ runState.head \in Int /\ ctl.head \in Int /\ a.before <= a.after
      BY IntTypes DEF AttestsSound, InOrder
    <3>2. a.before = ctl.head
      BY <2>1, <2>4, <3>1 DEF AttestSound
    <3>3. a.after < runState.head
      BY <2>1, <2>4 DEF PassesFresh
    <3> QED
      BY <2>3, <3>1, <3>2, <3>3
  <2>5. ctl.leg = "codex" => ~Spent("claude")
    BY <2>1 DEF PassesFresh
  <2> HIDE DEF j
  <2> QED
    BY <2>1, <2>2, <2>4, <2>5 DEF PassesFresh
<1>8. CASE HookEnds \/ InspectPass
  <2>1. /\ pc \in {"hook", "inspect"} /\ pc' \in {"inspect", "attest"} /\ UNCHANGED attests
        /\ ctl'.round = ctl.round /\ ctl'.leg = ctl.leg
    BY <1>1, <1>8 DEF HookEnds, HookExit, InspectPass, Ctl, hostVars
  <2>2. \A e : Spent(e)' => Spent(e)
    BY <2>1, SpentBack
  <2> QED
    BY <2>1, <2>2 DEF PassesFresh
<1>9. CASE AttestPass
  <2>1. pc = "attest" /\ pc' = "validate" /\ UNCHANGED <<ctl, local>>
    BY <1>9 DEF AttestPass, passVars
  <2>2. attests' \subseteq attests \cup {ctl.sig[ctl.leg]} /\ ctl.sig[ctl.leg].engine = ctl.leg
    BY <2>1, AttestMoves DEF SigsKnown, Fits
  <2>3. ctl.leg = "codex" => ~Spent("claude")
    BY <2>1 DEF PassesFresh
  <2>4. ctl.leg = "codex" => ~Spent("claude")'
    BY <2>1, <2>2, <2>3 DEF Spent
  <2> QED
    BY <2>1, <2>4 DEF PassesFresh
<1>10. CASE ValidatePass
  <2>1. /\ pc = "validate" /\ pc' = "toClaude" /\ UNCHANGED <<ctl, attests>>
        /\ ctl.leg = "codex"
    BY <1>1, <1>10 DEF ValidatePass, Boundary, Engines
  <2>2. \A e : Spent(e)' => Spent(e)
    BY <2>1, SpentBack
  <2> QED
    BY <2>1, <2>2 DEF PassesFresh
<1>11. ~RecoverClaude
  BY DEF RecoverClaude, RecoverLeg
<1> QED
  BY <1>2, <1>3, <1>4, <1>5, <1>6, <1>7, <1>8, <1>9, <1>10, <1>11, LegMoves DEF LegStep, LegTargets

LEMMA PassesFreshStep ==
    ASSUME IInv, RoundInv, BasesPast, MergeFirst, AttestsSound, PassKnown, LiveKnown, PassesFresh,
           [Next]_vars
    PROVE  PassesFresh'
<1>1. CASE pc' \notin RoundTargets \cup LegPcs \cup {"toClaude"}
  BY <1>1 DEF PassesFresh, RoundTargets, LegPcs
<1> QED
  BY <1>1, FreshRoundStep, FreshLegStep

(* What makes every pass a fresh one.                                      *)
FreshInv ==
    BasesPast /\ MergeFirst /\ AttestsSound /\ PassKnown /\ LiveKnown /\ PassesFresh

LEMMA FreshInit == Init => FreshInv
<1> SUFFICES ASSUME Init PROVE FreshInv
  OBVIOUS
<1>1. /\ attests = {} /\ pc = "start" /\ local = 0 /\ base = 0 /\ merged = {0}
      /\ ctl.base = 0 /\ runState.base = 0 /\ runState.head = 0
      /\ runState.phase = "draft-open"
  BY DEF Init, PassInit, NoCtl, CreateRunState
<1> QED
  BY <1>1 DEF FreshInv, BasesPast, Past, MergeFirst, AttestsSound, PassKnown, LegPcs, LiveKnown,
     PassesFresh, LatePhases

(* The attestations on the PR against the bases, the journals, the results *)
(* and the checkpoint.                                                     *)
THEOREM FreshInvariance == Spec => []FreshInv
<1>1. IInv /\ RoundInv /\ FreshInv /\ [Next]_vars => FreshInv'
  <2> SUFFICES ASSUME IInv, RoundInv, FreshInv, [Next]_vars PROVE FreshInv'
    OBVIOUS
  <2> QED
    BY BasesPastStep, MergeFirstStep, AttestsSoundStep, PassKnownStep, LiveKnownStep,
       PassesFreshStep DEF FreshInv, RoundInv
<1> QED
  BY Invariance, RoundInvariance, FreshInit, <1>1, PTL DEF Spec

(* No pass is begun in a round where its attestation is on the PR already, *)
(* over every crash, kill, resume, replay, rebase and head drift.          *)
THEOREM PassIsFresh == Spec => []FreshPassUnattested
<1>1. FreshInv => FreshPassUnattested
  BY DEF FreshInv, PassesFresh, FreshPassUnattested
<1> QED
  BY <1>1, FreshInvariance, PTL


-----------------------------------------------------------------------------
(* The review implements AbstractReview.                                   *)

(* The wrapper's round is the recorded one or the next, and the recorded   *)
(* one from the checkpoint of a leg on.                                    *)
RoundsClose ==
    /\ pc \in RoundPcs \cup {"start", "round", "boundary", "rebase"} =>
         /\ ctl.round \in {runState.round, runState.round + 1}
         /\ ctl.rec # "codex" => ctl.round = runState.round
    /\ pc \in LegPcs \cup {"toClaude", "recoverClaude", "moved", "decide"} =>
         ctl.round = runState.round

(* No round goes on under a checkpoint that claims convergence; such a one *)
(* names no result before it does.                                         *)
ReviewingKnown ==
    /\ pc \in RoundPcs \cup {"start", "round"} => runState.phase \notin LatePhases
    /\ runState.phase \notin LatePhases => runState.codex = None /\ runState.claude = None

(* The PR is published under a finalizing checkpoint and recorded as       *)
(* finished when it is out of draft.                                       *)
PublishingKnown ==
    /\ pc = "ready" => runState.phase = "finalizing"
    /\ pc = "record" => ~prDraft
    /\ pc = "unrecord" => prDraft

AbstractInv == RoundsClose /\ ReviewingKnown /\ PublishingKnown

LEMMA MovedMoves ==
    ASSUME [Next]_vars, pc' = "moved"
    PROVE  UNCHANGED <<pc, ctl, runState>> \/ OpenPass \/ InspectPass \/ ValidatePass
<1> USE DEF Stop, Goto, Refuse
<1>1. ASSUME NEW i \in HookIds, HookExit(i) PROVE UNCHANGED <<pc, ctl, runState>>
  BY <1>1 DEF HookExit
<1>2. CASE Wrapper
  BY <1>2 DEF Wrapper, StartReview, BeginRound, MergeBase, MergeConflict, ValidateMerge,
     PublishMerge, AttestMerge, CheckpointCodex, RecoverCodex, RecoverClaude, RecoverLeg,
     CheckpointClaude, ClearPass, AttestPass, BaseMoved, NextRound, Decide, FinalChecks,
     FinalizeChecks, CheckpointFinalizing, MarkReady, MarkReadyFails, VerifyReady,
     RecordFinalized, RecordFails, RestoreDraft, RestoreFails, Unrecord, Cleanup,
     RestoreDrifted, ResumeBoundary, Rebase, RecoverConverged
<1>3. CASE Resume \/ ResumeFinalized \/ Fail \/ Crash \/ Kill
  BY <1>3 DEF Resume, ResumeFinalized, Fail, Crash, Kill
<1> QED
  BY <1>1, <1>2, <1>3, WrapperMoves

LEMMA RoundsCloseStep ==
    ASSUME IInv, RoundsClose, [Next]_vars
    PROVE  RoundsClose'
<1> USE DEF IInv, LegPcs, RoundPcs
<1>1. CASE UNCHANGED <<pc, ctl, runState>>
  BY <1>1 DEF RoundsClose
<1>2. CASE pc' \notin LegTargets \cup RoundTargets \cup {"moved"}
  BY <1>2 DEF RoundsClose, LegTargets, RoundTargets
<1> SUFFICES ASSUME pc' \in LegTargets \cup RoundTargets \cup {"moved"} PROVE RoundsClose'
  BY <1>2
<1>3. /\ ctl \in Ctl /\ ctl.round \in Int /\ runState.round \in Int
      /\ pc' # "stopped"
  BY IntTypes DEF TypeOK, LegTargets, RoundTargets
<1>4. CASE StartReview
  <2>1. /\ pc = "start" /\ pc' = "round" /\ UNCHANGED ctl /\ runState'.round = 1
    BY <1>4, ReviewingWrite DEF StartReview, Goto
  <2>2. runState.round = 1
    BY <2>1 DEF Control, RoundsAgree
  <2> QED
    BY <2>1, <2>2 DEF RoundsClose
<1>5. CASE BeginRound \/ MergeBase \/ ValidateMerge \/ PublishMerge \/ AttestMerge
  <2>1. /\ pc \in {"round", "merge", "validateMerge", "publish", "attestMerge"}
        /\ pc' \in {"merge", "validateMerge", "publish", "attestMerge", "leg"}
        /\ ctl'.round = ctl.round /\ ctl'.rec = ctl.rec /\ UNCHANGED runState
    BY <1>3, <1>5 DEF BeginRound, MergeBase, ValidateMerge, PublishMerge, AttestMerge,
       Refuse, Stop, Goto, Ctl
  <2> QED
    BY <2>1 DEF RoundsClose
<1>6. CASE CheckpointCodex \/ CheckpointClaude
  <2>1. /\ pc' = "pass" /\ ctl'.round = ctl.round
        /\ \E e \in Engines : runState' = ToReviewing(runState, ctl.round, ctl.base, local, e)
    BY <1>3, <1>6 DEF CheckpointCodex, CheckpointClaude, CheckpointReviewing, Ctl, Engines
  <2>2. runState'.round = ctl.round
    BY <2>1, ReviewingWrite
  <2> QED
    BY <2>1, <2>2 DEF RoundsClose
<1>7. CASE RecoverCodex
  <2>1. PICK d \in BOOLEAN, rec \in {"complete", "codex"}, q \in {"recoverClaude", "toClaude"} :
          RecoverLeg("codex", d, rec, q)
    BY <1>7 DEF RecoverCodex
  <2>2. /\ pc' = q /\ ctl'.round = ctl.round /\ UNCHANGED runState
    BY <1>3, <2>1, RecoverLegFields DEF Engines
  <2>3. ctl.round = runState.round
    BY <1>7 DEF RecoverCodex, RoundsClose
  <2> QED
    BY <2>2, <2>3 DEF RoundsClose
<1>8. CASE RecoverClaude
  <2>1. /\ pc = "recoverClaude" /\ pc' = "decide" /\ ctl'.round = ctl.round
        /\ UNCHANGED runState
    BY <1>3, <1>8, RecoverLegFields DEF RecoverClaude, Engines
  <2> QED
    BY <2>1 DEF RoundsClose
<1>9. CASE ClearPass \/ OpenPass \/ HookEnds \/ InspectPass \/ AttestPass \/ ValidatePass
  <2>1. /\ pc \in LegPcs /\ pc' \in LegPcs \cup {"moved", "toClaude", "decide"}
        /\ ctl'.round = ctl.round /\ UNCHANGED runState
    BY <1>3, <1>9 DEF ClearPass, OpenPass, HookEnds, HookExit, InspectPass, AttestPass,
       ValidatePass, Refuse, Stop, Goto, Ctl, Boundary
  <2> QED
    BY <2>1 DEF RoundsClose
<1>10. CASE BaseMoved \/ Decide
  <2>1. /\ pc' = "round" /\ ctl'.round = ctl.round + 1 /\ runState'.round = ctl.round + 1
    BY <1>3, <1>10, NextRoundFields DEF BaseMoved, Decide, Refuse, Stop, Goto, LegTargets,
       RoundTargets
  <2> QED
    BY <2>1 DEF RoundsClose
<1>11. CASE RestoreDrifted
  <2>1. /\ pc = "boundary" /\ pc' = "boundary" /\ UNCHANGED runState
        /\ ctl'.round = ctl.round /\ ctl'.rec = ctl.rec
    BY <1>3, <1>11 DEF RestoreDrifted, Ctl
  <2> QED
    BY <2>1 DEF RoundsClose
<1>12. CASE ResumeBoundary
  <2>1. /\ pc = "boundary" /\ pc' \in {"rebase", "round"}
        /\ \/ UNCHANGED runState /\ ctl'.round = ctl.round /\ ctl'.rec = ctl.rec
           \/ runState'.round = ctl.round + 1 /\ ctl'.round = ctl.round + 1
    BY <1>3, <1>12, ReviewingWrite DEF ResumeBoundary, CheckpointReviewing, Refuse, Stop,
       Goto, Ctl, LegTargets, RoundTargets
  <2> QED
    BY <2>1 DEF RoundsClose
<1>13. CASE Rebase
  <2>1. pc' = "round" /\ runState'.round = ctl'.round
    BY <1>3, <1>13, ReviewingWrite DEF Rebase, CheckpointReviewing, Refuse, Stop, Ctl
  <2> QED
    BY <2>1 DEF RoundsClose
<1>14. CASE Resume
  <2>1. PICK last \in BOOLEAN :
          /\ ctl'.round = ResumeRound(last) /\ ctl'.rec = RecFor(last)
          /\ pc' = "boundary" /\ UNCHANGED runState
    BY <1>14 DEF Resume, NoCtl
  <2>2. /\ ResumeRound(last) \in {runState.round, runState.round + 1}
        /\ last => ResumeRound(last) = runState.round
        /\ ~last => RecFor(last) = "codex"
    BY DEF ResumeRound, RecFor
  <2> QED
    BY <2>1, <2>2 DEF RoundsClose
<1> QED
  BY <1>1, <1>4, <1>5, <1>6, <1>7, <1>8, <1>9, <1>10, <1>11, <1>12, <1>13, <1>14,
     LegMoves, RoundMoves, MovedMoves DEF LegStep

LEMMA ReviewingKnownStep ==
    ASSUME IInv, HeadsKnown, ReviewingKnown, [Next]_vars
    PROVE  ReviewingKnown'
<1> USE DEF IInv, LegPcs, RoundPcs
<1>1. ASSUME pc' \in RoundPcs \cup {"start", "round"} PROVE runState'.phase \notin LatePhases
  <2> USE DEF Refuse, Stop, Goto
  <2>1. pc' # "stopped"
    BY <1>1
  <2>2. CASE UNCHANGED <<pc, ctl, runState>>
    BY <1>1, <2>2 DEF ReviewingKnown
  <2>3. CASE StartReview \/ CheckpointCodex \/ CheckpointClaude
    BY <2>3, ReviewingWrite DEF StartReview, CheckpointCodex, CheckpointClaude,
       CheckpointReviewing, LatePhases
  <2>4. CASE BeginRound \/ MergeBase \/ ValidateMerge \/ PublishMerge \/ AttestMerge
    BY <2>4 DEF BeginRound, MergeBase, ValidateMerge, PublishMerge, AttestMerge,
       ReviewingKnown
  <2>5. CASE RecoverCodex \/ RecoverClaude \/ ClearPass \/ OpenPass \/ HookEnds
             \/ InspectPass \/ AttestPass \/ ValidatePass
    BY <2>1, <2>5 DEF RecoverCodex, RecoverClaude, RecoverLeg, ClearPass, OpenPass, HookEnds,
       HookExit, InspectPass, AttestPass, ValidatePass, ReviewingKnown
  <2>6. CASE BaseMoved \/ Decide
    BY <1>1, <2>1, <2>6, NextRoundFields DEF BaseMoved, Decide, LatePhases
  <2>7. CASE RestoreDrifted \/ Resume
    BY <1>1, <2>7 DEF RestoreDrifted, Resume
  <2>8. CASE ResumeBoundary \/ Rebase
    BY <1>1, <2>1, <2>8, ReviewingWrite DEF ResumeBoundary, Rebase, CheckpointReviewing,
       LatePhases
  <2> QED
    BY <1>1, <2>2, <2>3, <2>4, <2>5, <2>6, <2>7, <2>8, LegMoves, RoundMoves, MovedMoves
       DEF LegStep, LegTargets, RoundTargets
<1>2. ASSUME runState'.phase \notin LatePhases
      PROVE  runState'.codex = None /\ runState'.claude = None
  <2>1. CASE UNCHANGED runState
    BY <1>2, <2>1 DEF ReviewingKnown
  <2>2. CASE \E r, b, h, e : runState' = ToReviewing(runState, r, b, h, e)
    BY <2>2, ReviewingWrite
  <2>3. CASE CheckpointFinalizing \/ RecordFinalized \/ RecordFails \/ Unrecord
    BY <1>2, <2>1, <2>3, PhaseWrite DEF CheckpointFinalizing, RecordFinalized, RecordFails,
       Unrecord, Finalized, LatePhases
  <2>4. CASE StartReview \/ CheckpointCodex \/ CheckpointClaude
    BY <2>2, <2>4 DEF StartReview, CheckpointCodex, CheckpointClaude, CheckpointReviewing
  <2>5. CASE BaseMoved \/ Decide
    BY <1>2, <2>1, <2>2, <2>5, ConvergedWrite DEF BaseMoved, Decide, NextRound,
       CheckpointReviewing, Refuse, LatePhases
  <2>6. CASE ResumeBoundary \/ Rebase
    BY <2>1, <2>2, <2>6 DEF ResumeBoundary, Rebase, CheckpointReviewing, Refuse
  <2> QED
    BY <2>1, <2>3, <2>4, <2>5, <2>6, CheckpointWrites DEF Checkpoint
<1> QED
  BY <1>1, <1>2 DEF ReviewingKnown

(* A boundary that is as expected has the draft state that was expected.   *)
LEMMA BoundaryOk ==
    ASSUME NEW b, NEW d, Boundary(b, d) = "ok"
    PROVE  prDraft = d
  BY DEF Boundary

LEMMA PublishingKnownStep ==
    ASSUME IInv, PublishingKnown, [Next]_vars
    PROVE  PublishingKnown'
<1> USE DEF IInv, Refuse, Stop, Goto, hostVars
<1>1. CASE pc' \notin {"ready", "record", "unrecord"}
  BY <1>1 DEF PublishingKnown
<1> SUFFICES ASSUME pc' \in {"ready", "record", "unrecord"} PROVE PublishingKnown'
  BY <1>1
<1>2. CASE CheckpointFinalizing
  BY <1>2, PhaseWrite DEF CheckpointFinalizing, PublishingKnown
<1>3. CASE FinalChecks \/ VerifyReady
  <2>1. pc' = "record" /\ prDraft = FALSE /\ UNCHANGED prDraft
    BY <1>3, BoundaryOk DEF FinalChecks, VerifyReady, TypeOK, Ctl
  <2> QED
    BY <2>1 DEF PublishingKnown
<1>4. CASE RestoreDraft
  BY <1>4 DEF RestoreDraft, UndoReady, PublishingKnown
<1>5. CASE ~(CheckpointFinalizing \/ FinalChecks \/ VerifyReady \/ RestoreDraft)
  <2>1. UNCHANGED <<pc, ctl, runState>>
    BY <1>5, LateMoves DEF LateTargets, Decide, NextRound, FinalizeChecks, MarkReady,
       RecordFails, ResumeBoundary, RecoverConverged
  <2>2. CASE UNCHANGED prDraft
    BY <2>1, <2>2 DEF PublishingKnown
  <2>3. CASE ~UNCHANGED prDraft
    BY <1>5, <2>1, <2>3, DraftWrites DEF DraftChange, MarkReady, MarkReadyFails,
       RestoreFails, RestoreDrifted, ResumeBoundary, PublishingKnown
  <2> QED
    BY <2>2, <2>3
<1> QED
  BY <1>2, <1>3, <1>4, <1>5

LEMMA AbstractInit == Init => AbstractInv
  BY DEF Init, NoCtl, CreateRunState, AbstractInv, RoundsClose, ReviewingKnown,
     PublishingKnown, RoundPcs, LegPcs, LatePhases

THEOREM AbstractInvariance == Spec => []AbstractInv
<1>1. IInv /\ RoundInv /\ AbstractInv /\ [Next]_vars => AbstractInv'
  BY RoundsCloseStep, ReviewingKnownStep, PublishingKnownStep DEF AbstractInv, RoundInv
<1> QED
  BY Invariance, RoundInvariance, AbstractInit, <1>1, PTL DEF Spec

(* What a checkpoint makes of the abstract review: the review of the       *)
(* recorded round or of the next, the round's convergence, or another of   *)
(* the last phases.                                                        *)
SameReview == runState'.codex = runState.codex /\ runState'.claude = runState.claude

LEMMA ReviewWrites ==
    ASSUME IInv, RoundInv, AbstractInv, [Next]_vars, ~UNCHANGED runState
    PROVE  /\ UNCHANGED <<prDraft, attests>>
           /\ \/ /\ runState'.phase = "reviewing"
                 /\ runState'.codex = None /\ runState'.claude = None
                 /\ \/ runState'.round = runState.round /\ runState.phase \notin LatePhases
                    \/ runState'.round = runState.round + 1 /\ prDraft
              \/ /\ pc = "decide" /\ ~Material /\ runState'.phase = "converged"
                 /\ runState'.round = runState.round /\ ctl.round = runState.round
                 /\ runState'.codex = ctl.sig["codex"] /\ runState'.claude = ctl.sig["claude"]
              \/ /\ runState'.round = runState.round /\ SameReview
                 /\ \/ /\ runState.phase \in LatePhases /\ runState'.phase = "finalizing"
                       /\ runState.phase = "finalized" => prDraft
                    \/ /\ runState.phase \in {"finalizing", "finalized"} /\ ~prDraft
                       /\ runState'.phase = "finalized"
<1> USE DEF IInv, Refuse, hostVars
<1>1. /\ ctl.round \in Int /\ runState.round \in Int /\ ctl \in Ctl
  BY IntTypes DEF TypeOK
<1>2. UNCHANGED <<prDraft, attests>>
  <2>1. UNCHANGED attests
    BY AttestMoves
  <2>2. CASE ~UNCHANGED prDraft
    BY <2>2, DraftWrites DEF DraftChange, MarkReady, MarkReadyFails, RestoreDraft,
       RestoreFails, RestoreDrifted, ResumeBoundary
  <2> QED
    BY <2>1, <2>2
<1>3. ASSUME NEW r, \E b, h, e : runState' = ToReviewing(runState, r, b, h, e)
      PROVE  /\ runState'.phase = "reviewing" /\ runState'.round = r
             /\ runState'.codex = None /\ runState'.claude = None
  BY <1>3, ReviewingWrite
<1> USE DEF AbstractInv
<1>4. CASE StartReview
  <2>1. runState.round = 1 /\ runState.phase \notin LatePhases
    BY <1>4 DEF StartReview, Control, RoundsAgree, ReviewingKnown
  <2> QED
    BY <1>2, <1>3, <1>4, <2>1 DEF StartReview
<1>5. CASE CheckpointCodex \/ CheckpointClaude
  <2>1. /\ ctl.round \in {runState.round, runState.round + 1} /\ prDraft
        /\ runState.phase \notin LatePhases
    BY <1>5 DEF CheckpointCodex, CheckpointClaude, RoundsClose, ReviewingKnown, RoundPcs,
       Control, DraftKnown, DraftPcs
  <2>2. \E b, h, e : runState' = ToReviewing(runState, ctl.round, b, h, e)
    BY <1>5 DEF CheckpointCodex, CheckpointClaude, CheckpointReviewing
  <2> QED
    BY <1>2, <1>3, <2>1, <2>2
<1>6. ASSUME NextRound(base), pc \in {"moved", "decide"}
      PROVE  /\ runState'.phase = "reviewing" /\ runState'.round = runState.round + 1
             /\ runState'.codex = None /\ runState'.claude = None /\ prDraft
  <2>1. ctl.round = runState.round /\ prDraft
    BY <1>6 DEF RoundsClose, Control, DraftKnown, DraftPcs, RoundPcs
  <2>2. \E b, h, e : runState' = ToReviewing(runState, ctl.round + 1, b, h, e)
    BY <1>6 DEF NextRound, CheckpointReviewing
  <2> QED
    BY <1>3, <2>1, <2>2
<1>7. CASE BaseMoved
  BY <1>2, <1>6, <1>7 DEF BaseMoved
<1>8. CASE Decide
  <2>1. CASE NextRound(base)
    BY <1>2, <1>6, <1>8, <2>1 DEF Decide
  <2>2. CASE ~NextRound(base)
    <3>1. /\ pc = "decide" /\ ~Material
          /\ runState' = ToConverged(runState, ctl.round, ctl.base, local,
                                     ctl.sig["codex"], ctl.sig["claude"])
      BY <1>8, <2>2 DEF Decide
    <3>2. ctl.round = runState.round
      BY <3>1 DEF RoundsClose
    <3> QED
      BY <1>2, <3>1, <3>2, ConvergedWrite
  <2> QED
    BY <2>1, <2>2
<1>9. CASE ResumeBoundary
  <2>1. /\ pc = "boundary" /\ runState.phase \in LatePhases /\ ~ctl.ready
        /\ Boundary(runState.base, ~ctl.ready) = "ok"
        /\ \E b, h, e : runState' = ToReviewing(runState, ctl.round + 1, b, h, e)
    BY <1>9 DEF ResumeBoundary, Drifted, CheckpointReviewing
  <2>2. prDraft
    BY <2>1, BoundaryDraft
  <2>3. ctl.round = runState.round
    BY <2>1 DEF Control, RoundsAgree
  <2> QED
    BY <1>2, <1>3, <2>1, <2>2, <2>3
<1>10. CASE Rebase
  <2> DEFINE r == IF runState.phase \in LatePhases THEN ctl.round + 1 ELSE ctl.round
  <2>1. pc = "rebase" /\ \E b, h, e : runState' = ToReviewing(runState, r, b, h, e)
    BY <1>10 DEF Rebase, CheckpointReviewing
  <2>2. /\ ctl.round \in {runState.round, runState.round + 1} /\ prDraft
        /\ runState.phase \in LatePhases => ctl.round = runState.round
    BY <2>1 DEF RoundsClose, Control, RoundsAgree, DraftKnown, DraftPcs
  <2>3. \/ r = runState.round /\ runState.phase \notin LatePhases
        \/ r = runState.round + 1
    BY <2>2
  <2> HIDE DEF r
  <2> QED
    BY <1>2, <1>3, <2>1, <2>2, <2>3
<1>11. ASSUME NEW p \in {"finalizing", "finalized"},
              pc \in {"checkpoint", "record", "unrecord"},
              runState' = ToPhase(runState, p, ctl.round, ctl.base, ctl.head)
       PROVE  /\ runState'.phase = p /\ SameReview /\ runState'.round = runState.round
              /\ runState.phase \in LatePhases
  <2>1. ctl.round = runState.round /\ runState.phase \in LatePhases
    BY <1>11 DEF Control, RoundsAgree, LatePcs, CheckpointedPcs
  <2> QED
    BY <1>11, <2>1, PhaseWrite DEF SameReview
<1>12. CASE CheckpointFinalizing \/ Unrecord
  <2>1. prDraft
    BY <1>12 DEF CheckpointFinalizing, Unrecord, PublishingKnown, Control, DraftKnown, DraftPcs
  <2> QED
    BY <1>2, <1>11, <1>12, <2>1 DEF CheckpointFinalizing, Unrecord
<1>13. CASE RecordFinalized \/ RecordFails
  <2>1. ~prDraft /\ runState.phase \in {"finalizing", "finalized"}
    BY <1>13 DEF RecordFinalized, RecordFails, PublishingKnown, Control, DraftKnown,
       CheckpointedPcs
  <2> QED
    BY <1>2, <1>11, <1>13, <2>1 DEF RecordFinalized, RecordFails, Finalized
<1> QED
  BY <1>4, <1>5, <1>7, <1>8, <1>9, <1>10, <1>12, <1>13, CheckpointWrites DEF Checkpoint

(* Codex's attested pass that Claude's of the same round came after.       *)
LEMMA AttestFollows ==
    ASSUME IInv, RoundInv, AbstractInv, [Next]_vars, ~UNCHANGED attests
    PROVE  Review!Attest
<1> DEFINE a == ctl.sig[ctl.leg]
<1>1. /\ attests' = attests \cup {a} /\ pc = "attest"
      /\ {b \in attests : b.engine = ctl.leg /\ b.round = ctl.round} \subseteq {a}
      /\ UNCHANGED <<runState, prDraft>>
  BY AttestMoves DEF AttestPass, Refuse, hostVars
<1>2. a.engine = ctl.leg /\ a.round = ctl.round /\ a.base = ctl.base /\ a.before = ctl.head
  BY <1>1 DEF RoundInv, SigsKnown, Fits
<1>3. ctl.round = runState.round /\ runState.phase \notin LatePhases
  BY <1>1 DEF AbstractInv, RoundsClose, ReviewingKnown, LegPcs, RoundPcs
<1>4. ctl.leg = "claude" =>
        LET c == ctl.sig["codex"] IN
        /\ c \in attests /\ c.engine = "codex" /\ c.round = ctl.round /\ c.base = ctl.base
        /\ c.after <= ctl.head
  BY <1>1 DEF RoundInv, SigsKnown, Accepted, Fits, LegPcs
<1> HIDE DEF a
<1>5. a \in attests' \ attests
  BY <1>1
<1>6. \A b \in attests : b.round = runState.round => b.engine # a.engine
  BY <1>1, <1>2, <1>3, <1>5
<1>7. a.engine = "claude" => \E c \in attests : Review!Follows(c, a)
  BY <1>2, <1>4 DEF Review!Follows
<1> QED
  BY <1>1, <1>2, <1>3, <1>5, <1>6, <1>7 DEF Review!Attest

LEMMA DraftSteps ==
    ASSUME IInv, AbstractInv, [Next]_vars, UNCHANGED <<runState, attests>>
    PROVE  Review!Publish \/ Review!TakeBack \/ UNCHANGED Review!reviewVars
<1>1. prDraft \in BOOLEAN /\ prDraft' \in BOOLEAN
  BY HostStep DEF IInv, TypeOK
<1>2. CASE prDraft' = prDraft
  BY <1>2 DEF Review!reviewVars
<1>3. CASE prDraft' /\ ~prDraft
  BY <1>1, <1>3 DEF Review!TakeBack
<1>4. CASE ~prDraft' /\ prDraft
  <2>1. pc = "ready"
    BY <1>4, DraftWrites DEF DraftChange, MarkReady, MarkReadyFails, RestoreDraft,
       RestoreFails, RestoreDrifted, ResumeBoundary, UndoReady, Refuse, hostVars
  <2>2. runState.phase = "finalizing"
    BY <2>1 DEF AbstractInv, PublishingKnown
  <2> QED
    BY <1>1, <1>4, <2>2 DEF Review!Publish, LatePhases
<1> QED
  BY <1>1, <1>2, <1>3, <1>4

LEMMA ReviewStep ==
    ASSUME IInv, RoundInv, AbstractInv, [Next]_vars
    PROVE  [Review!Next]_(Review!reviewVars)
<1> USE DEF Review!Next
<1>1. CASE ~UNCHANGED attests
  BY <1>1, AttestFollows
<1>2. CASE UNCHANGED <<runState, attests>>
  BY <1>2, DraftSteps
<1>3. CASE ~UNCHANGED runState /\ UNCHANGED attests
  <2> USE DEF LatePhases
  <2>1. UNCHANGED <<prDraft, attests>>
    BY <1>3, ReviewWrites
  <2>2. CASE /\ runState'.phase = "reviewing"
             /\ runState'.codex = None /\ runState'.claude = None
             /\ runState'.round = runState.round /\ runState.phase \notin LatePhases
    <3>1. runState.codex = None /\ runState.claude = None
      BY <2>2 DEF AbstractInv, ReviewingKnown
    <3> QED
      BY <2>1, <2>2, <3>1 DEF Review!reviewVars
  <2>3. CASE /\ runState'.phase = "reviewing"
             /\ runState'.codex = None /\ runState'.claude = None
             /\ runState'.round = runState.round + 1 /\ prDraft
    BY <2>1, <2>3 DEF Review!NextRound
  <2>4. CASE /\ pc = "decide" /\ ~Material /\ runState'.phase = "converged"
             /\ runState'.round = runState.round /\ ctl.round = runState.round
             /\ runState'.codex = ctl.sig["codex"] /\ runState'.claude = ctl.sig["claude"]
    <3> DEFINE c == ctl.sig["codex"]
               k == ctl.sig["claude"]
    <3>1. /\ c \in attests /\ k \in attests /\ c # None /\ k # None
          /\ k.round = runState.round /\ {c.status, k.status} \subseteq {"clean", "minor"}
      BY <2>4, DecidedOn, NoneAssumption DEF RoundInv, IInv, TypeOK
    <3>2. c.engine = "codex" /\ k.engine = "claude"
      BY <2>4 DEF RoundInv, SigsKnown, Accepted, Fits
    <3>3. Review!Follows(c, k)
      BY <2>4, <3>2, DecidedOn DEF RoundInv, IInv, Review!Follows
    <3>4. runState.phase \notin LatePhases
      BY <2>4 DEF AbstractInv, ReviewingKnown, RoundPcs
    <3>5. {runState'.codex, runState'.claude} \ {None} = {c, k}
      BY <2>4, <3>1
    <3> HIDE DEF c, k
    <3> QED
      BY <2>1, <2>4, <3>1, <3>3, <3>4, <3>5 DEF Review!Converge
  <2>5. CASE /\ runState'.round = runState.round /\ SameReview
             /\ runState.phase \in LatePhases /\ runState'.phase = "finalizing"
             /\ runState.phase = "finalized" => prDraft
    BY <2>1, <2>5 DEF SameReview, Review!Announce, Review!Unfinish, Review!reviewVars
  <2>6. CASE /\ runState'.round = runState.round /\ SameReview
             /\ runState.phase \in {"finalizing", "finalized"} /\ ~prDraft
             /\ runState'.phase = "finalized"
    BY <2>1, <2>6 DEF SameReview, Review!Finish, Review!reviewVars
  <2> QED
    BY <1>3, <2>2, <2>3, <2>4, <2>5, <2>6, ReviewWrites
<1> QED
  BY <1>1, <1>2, <1>3

LEMMA ReviewInit == Init => Review!Init
  BY DEF Init, CreateRunState, LatePhases, Review!Init

(* The review of a PR, over every crash, kill, resume, replay, lost reply  *)
(* and rollback, is the abstract one: no round is skipped or comes back,   *)
(* each engine is attested once per round and in order, the review         *)
(* converges on both attestations of one round, and the PR leaves draft    *)
(* and is recorded as finished only after that.                            *)
THEOREM ReviewIsAbstractReview == Spec => ImplementsAbstractReview
<1>1. IInv /\ RoundInv /\ AbstractInv /\ [Next]_vars => [Review!Next]_(Review!reviewVars)
  BY ReviewStep
<1> QED
  BY <1>1, ReviewInit, Invariance, RoundInvariance, AbstractInvariance, PTL
     DEF Spec, ImplementsAbstractReview, Review!Spec

-----------------------------------------------------------------------------
(* What holds while no wrapper is killed behind the back of its review     *)
(* process: a crash takes both.                                            *)
WrapperNotKilled == "kill" \notin Faults

(* Every review process has its wrapper waiting for it.                    *)
Attended == \A i \in HookIds : hooks[i] # NoHook => pc = "hook" /\ ctl.hook = i

LEMMA AttendedStep ==
    ASSUME WrapperNotKilled, TypeOK, Attended, [Next]_vars
    PROVE  Attended'
<1> USE DEF TypeOK, PassTypeOK, Refuse, Stop, Goto, world, passVars
<1>1. pc # "hook" => \A i \in HookIds : hooks[i] = NoHook
  BY DEF Attended
<1>2. ASSUME pc # "hook", UNCHANGED hooks PROVE Attended'
  BY <1>1, <1>2 DEF Attended
<1>3. ASSUME NEW i \in HookIds, Hook(i) PROVE Attended'
  BY <1>3, HookMoving DEF Hook, Attended
<1>4. ASSUME NEW i \in HookIds, HookExit(i) PROVE Attended'
  <2>1. hooks[i] # NoHook
    BY <1>4 DEF HookExit, MayExit
  <2>2. \A k \in HookIds : hooks'[k] = NoHook
    BY <1>4, <2>1 DEF HookExit, Attended
  <2> QED
    BY <2>2 DEF Attended
<1>5. CASE OpenPass
  <2>1. ctl \in Ctl /\ pc = "open"
    BY <1>5 DEF OpenPass
  <2>2. \/ UNCHANGED hooks
        \/ \E i \in HookIds : /\ hooks' = [hooks EXCEPT ![i] = NewHook(ctl.leg, ctl.round,
                                                       ctl.base, ctl.head, ctl.lock)]
                              /\ ctl' = [ctl EXCEPT !.hook = i] /\ pc' = "hook"
    BY <1>5 DEF OpenPass
  <2> QED
    BY <1>1, <1>2, <2>1, <2>2 DEF Attended, Ctl
<1>6. CASE Crash
  BY <1>6 DEF Crash, Attended
<1>7. CASE Kill
  BY <1>7 DEF Kill, Disturb, WrapperNotKilled
<1>8. CASE (Wrapper /\ ~OpenPass) \/ Resume \/ ResumeFinalized \/ Fail
  <2>1. UNCHANGED hooks /\ pc # "hook"
    BY <1>8 DEF Wrapper, StartReview, BeginRound, MergeBase, MergeConflict, ValidateMerge,
       PublishMerge, AttestMerge, CheckpointCodex, RecoverCodex, RecoverClaude, RecoverLeg,
       CheckpointClaude, ClearPass, InspectPass, AttestPass, ValidatePass, BaseMoved,
       NextRound, Decide, FinalChecks, FinalizeChecks, CheckpointFinalizing, MarkReady,
       MarkReadyFails, VerifyReady, RecordFinalized, RecordFails, RestoreDraft,
       RestoreFails, Unrecord, Cleanup, RestoreDrifted, ResumeBoundary, Rebase,
       RecoverConverged, Resume, ResumeFinalized, Fail
  <2> QED
    BY <1>2, <2>1
<1>9. CASE Environment /\ ~Fail /\ ~Crash /\ ~Kill
  BY <1>9 DEF Environment, MoveBase, PushForeign, OperatorCommit, ChangeLedger,
     ChangeIssue, ChangeResult, Expire, Attended
<1>10. CASE UNCHANGED vars
  BY <1>10 DEF vars, Attended
<1> QED
  BY <1>3, <1>4, <1>5, <1>6, <1>7, <1>8, <1>9, <1>10 DEF Next, Environment

(* HEAD moves only while the wrapper waits or is gone, but for its merge.  *)
LEMMA AttendedMoves ==
    ASSUME TypeOK, Attended, [Next]_vars
    PROVE  \/ UNCHANGED local
           \/ MergeBase
           \/ pc \in {"hook", "stopped"} /\ UNCHANGED <<pc, ctl, runState>>
  BY LocalMoves DEF Attended

(* A head that is about to be pushed was validated.                        *)
CandidatesValid ==
    /\ \A i \in HookIds : Publishing(i) => hooks[i].head \in validated
    /\ pc = "publish" => local \in validated

LEMMA CandidatesStep ==
    ASSUME TypeOK, Attended, CandidatesValid, [Next]_vars
    PROVE  CandidatesValid'
<1> USE DEF TypeOK, PassTypeOK
<1>1. validated \subseteq validated'
  <2>1. ASSUME NEW i \in HookIds, HookStep(i, ctl.lock) \/ HookExit(i)
        PROVE  validated \subseteq validated'
    BY <2>1 DEF HookStep, HookCommit, PublishValidate, PublishPush, PublishRecord,
       PublishRecover, PublishAbort, HookRecord, HookBlock, HookExit
  <2>2. CASE PassChange
    BY <2>2 DEF PassChange, Validation, MergeBase, PublishMerge, ClearPass, OpenPass, Resume,
       ValidateMerge, RecoverCodex, RecoverClaude, RecoverLeg, ValidatePass, FinalChecks,
       ResumeFinalized, Crash, MoveBase, PushForeign, OperatorCommit, ChangeResult, Expire,
       Refuse, passVars
  <2>3. CASE UNCHANGED passVars
    BY <2>3 DEF passVars
  <2> QED
    BY <2>1, <2>2, <2>3, PassWrites
<1>2. \A i \in HookIds : Publishing(i)' => hooks'[i].head \in validated'
  <2>1. ASSUME NEW i \in HookIds, HookStep(i, ctl.lock)
        PROVE  \A k \in HookIds : Publishing(k)' => hooks'[k].head \in validated'
    <3>1. hooks[i] \in HookStates /\ \A k \in HookIds \ {i} : hooks'[k] = hooks[k]
      BY <2>1, HookMoving
    <3>2. CASE PublishValidate(i, ctl.lock)
      <4>1. hooks'[i].head = local /\ local \in validated'
        BY <3>1, <3>2 DEF PublishValidate, HookStates
      <4> QED
        BY <1>1, <3>1, <4>1 DEF CandidatesValid, Publishing
    <3>3. CASE ~PublishValidate(i, ctl.lock)
      <4>0. \/ Move(i, "committed") \/ Move(i, "published") \/ Move(i, "recorded")
            \/ Publishing(i) /\ Move(i, "pushed")
        BY <2>1, <3>3 DEF HookStep, HookCommit, PublishPush, PublishRecord, PublishRecover,
           PublishAbort, HookRecord, HookBlock, Publishing, At
      <4>1. hooks'[i].head = hooks[i].head /\ (Publishing(i)' => Publishing(i))
        BY <3>1, <4>0 DEF Move, HookStates, Publishing
      <4> QED
        BY <1>1, <3>1, <4>1 DEF CandidatesValid, Publishing
    <3> QED
      BY <3>2, <3>3
  <2>2. CASE ~ \E i \in HookIds : HookStep(i, ctl.lock)
    <3>1. \A k \in HookIds : hooks'[k] = hooks[k] \/ hooks'[k].step \notin {"validated", "pushed"}
      BY <2>2, JournalWrites DEF NoHook
    <3> QED
      BY <1>1, <3>1 DEF CandidatesValid, Publishing
  <2> QED
    BY <2>1, <2>2
<1>3. pc' = "publish" => local' \in validated'
  <2> SUFFICES ASSUME pc' = "publish" PROVE local' \in validated'
    OBVIOUS
  <2>1. UNCHANGED pc \/ ValidateMerge
    BY WrapperMoves DEF Wrapper, StartReview, BeginRound, MergeBase, MergeConflict,
       PublishMerge, AttestMerge, CheckpointCodex, RecoverCodex, RecoverClaude, RecoverLeg,
       CheckpointClaude, ClearPass, OpenPass, InspectPass, AttestPass, ValidatePass, BaseMoved,
       NextRound, Decide, FinalChecks, FinalizeChecks, CheckpointFinalizing, MarkReady,
       MarkReadyFails, VerifyReady, RecordFinalized, RecordFails, RestoreDraft,
       RestoreFails, Unrecord, Cleanup, RestoreDrifted, ResumeBoundary, Rebase,
       RecoverConverged, Resume, ResumeFinalized, HookExit, Fail, Crash, Kill,
       Refuse, Stop, Goto
  <2>2. CASE UNCHANGED pc
    BY <1>1, <2>2, AttendedMoves DEF CandidatesValid, MergeBase
  <2>3. CASE ValidateMerge
    BY <2>3 DEF ValidateMerge, Refuse, Stop, world
  <2> QED
    BY <2>1, <2>2, <2>3
<1> QED
  BY <1>2, <1>3 DEF CandidatesValid


LEMMA RunInit == Init => Attended /\ CandidatesValid
  BY DEF Init, PassInit, Attended, CandidatesValid, Publishing, NoHook

(* What the wrapper or the helper pushes had been validated, as long as no *)
(* review process outlives its wrapper: one that does can commit between   *)
(* the next wrapper's validation of its base merge and the push.           *)
THEOREM PublishedWasValidated == ASSUME WrapperNotKilled PROVE Spec => PublishedIsValidated
<1>1. IInv /\ Attended /\ CandidatesValid /\ [Next]_vars => Attended' /\ CandidatesValid'
  BY AttendedStep, CandidatesStep DEF IInv
<1>2. ASSUME IInv, Attended, CandidatesValid, [Next]_vars
      PROVE  remote' \notin {remote, Foreign} /\ UNCHANGED local => remote' \in validated
  <2> SUFFICES ASSUME remote' \notin {remote, Foreign}, UNCHANGED local
               PROVE  remote' \in validated
    OBVIOUS
  <2> USE <1>2 DEF IInv, TypeOK, PassTypeOK
  <2>1. ASSUME NEW i \in HookIds, HookStep(i, ctl.lock) PROVE remote' \in validated
    <3>1. PublishPush(i)
      BY <2>1 DEF HookStep, HookCommit, PublishValidate, PublishRecord,
         PublishRecover, PublishAbort, HookRecord, HookBlock
    <3> QED
      BY <3>1 DEF PublishPush, CandidatesValid, Publishing, At
  <2>2. CASE PublishMerge
    BY <2>2 DEF PublishMerge, CandidatesValid, Refuse, passVars
  <2>3. ASSUME NEW i \in HookIds, HookExit(i) PROVE FALSE
    BY <2>3 DEF HookExit, world
  <2>4. CASE PassChange /\ ~PublishMerge
    BY <2>4 DEF PassChange, Validation, MergeBase, ClearPass, OpenPass, Resume,
       ValidateMerge, RecoverCodex, RecoverClaude, RecoverLeg, ValidatePass, FinalChecks,
       ResumeFinalized, Crash, MoveBase, PushForeign, OperatorCommit, ChangeResult, Expire,
       Refuse, passVars, world
  <2>5. ~UNCHANGED passVars
    BY DEF passVars
  <2> QED
    BY <2>1, <2>2, <2>3, <2>4, <2>5, PassWrites
<1>3. IInv /\ Attended /\ CandidatesValid /\ [Next]_vars
        => (remote' \notin {remote, Foreign} /\ UNCHANGED local => remote' \in validated)
  BY <1>2
<1> QED
  BY Invariance, RunInit, <1>1, <1>3, PTL DEF Spec, PublishedIsValidated


-----------------------------------------------------------------------------
(* Heads without gaps.  No commit comes in between the passes of a round,  *)
(* nor between the round and the checkpoint: Codex's signature left HEAD   *)
(* where Claude began, and the current leg's left it where it is.          *)
SigsAtHead ==
    /\ pc = "toClaude" \/ (pc = "pass" /\ ctl.leg = "claude") => ctl.sig["codex"].after = local
    /\ pc \in LegPcs \ {"pass"} /\ ctl.leg = "claude" => ctl.sig["codex"].after = ctl.head
    /\ pc \in {"attest", "validate"} => ctl.sig[ctl.leg].after = local
    /\ pc = "decide" => /\ ctl.sig["claude"].after = local
                        /\ ctl.sig["codex"].after = ctl.sig["claude"].before

Linked ==
    \A k \in attests : k.engine = "claude" =>
        \E c \in attests : c.engine = "codex" /\ c.round = k.round /\ c.after = k.before

(* From convergence on the wrapper's memory agrees with the checkpoint.    *)
HeadsAgree ==
    /\ pc \in {"recovered", "final", "finalize", "checkpoint"} => local = runState.head
    /\ pc \in LateTargets \ {"recovered", "final", "finalize"} => ctl.head = runState.head
    /\ pc = "final" /\ ctl.ready => ctl.head = runState.head

LEMMA SigsAtHeadStep ==
    ASSUME IInv, RoundInv, Attended, SigsAtHead, Linked, [Next]_vars
    PROVE  SigsAtHead'
<1> USE DEF IInv
<1>1. CASE pc' \notin LegTargets
  BY <1>1 DEF SigsAtHead, LegTargets, LegPcs
<1>2. CASE UNCHANGED <<pc, ctl>>
  <2>1. UNCHANGED local \/ pc \in {"merge", "hook", "stopped"}
    BY AttendedMoves DEF MergeBase
  <2> QED
    BY <1>2, <2>1 DEF SigsAtHead, LegPcs
<1> SUFFICES ASSUME pc' \in LegTargets, LegStep PROVE SigsAtHead'
  BY <1>1, <1>2, LegMoves
<1>3. /\ ctl \in Ctl /\ ctl.leg \in Engines
      /\ ctl.sig \in [Engines -> Results \cup {None}]
  BY SigTypes DEF TypeOK
<1>4. pc' # "stopped"
  BY DEF LegTargets, LegPcs
<1>5. CASE CheckpointCodex
  <2>1. pc' = "pass" /\ ctl'.leg = "codex"
    BY <1>3, <1>5 DEF CheckpointCodex, Ctl
  <2> QED
    BY <2>1 DEF SigsAtHead, LegPcs
<1>6. CASE RecoverCodex
  <2>1. /\ pc' \in {"recoverClaude", "toClaude"} /\ UNCHANGED local
        /\ pc' = "toClaude" => ctl'.sig["codex"].after = local
    <3>1. CASE ctl.rec = "complete"
      <4>1. RecoverLeg("codex", TRUE, "complete", "recoverClaude") /\ "codex" \in Engines
        BY <1>6, <3>1 DEF RecoverCodex, Engines
      <4>2. pc' = "recoverClaude" /\ UNCHANGED local
        BY <1>4, <4>1, RecoverLegFields
      <4> QED
        BY <4>2
    <3>2. CASE ctl.rec # "complete"
      <4>1. RecoverLeg("codex", FALSE, "codex", "toClaude")
        BY <1>6, <3>2 DEF RecoverCodex
      <4> QED
        BY <1>4, <4>1, RecoverLegFields DEF Engines
    <3> QED
      BY <3>1, <3>2
  <2> QED
    BY <2>1 DEF SigsAtHead, LegPcs
<1>7. CASE RecoverClaude
  <2>1. /\ pc' = "decide" /\ UNCHANGED local /\ ctl'.sig["codex"] = ctl.sig["codex"]
        /\ ctl'.round = ctl.round
        /\ Fits(ctl'.sig["claude"], "claude") /\ ctl'.sig["claude"] \in attests
        /\ ctl'.sig["claude"].after = local
    BY <1>4, <1>7, RecoverLegFields DEF RecoverClaude, Engines
  <2>2. Accepted("codex")
    BY <1>7 DEF RecoverClaude, RoundInv, SigsKnown
  <2>3. ctl.sig["codex"].after = ctl'.sig["claude"].before
    <3>1. PICK c \in attests : /\ c.engine = "codex" /\ c.round = ctl'.sig["claude"].round
                               /\ c.after = ctl'.sig["claude"].before
      BY <2>1 DEF Linked, Fits
    <3>2. c = ctl.sig["codex"]
      BY <2>1, <2>2, <3>1 DEF RoundInv, OneEach, Accepted, Fits
    <3> QED
      BY <3>1, <3>2
  <2> QED
    BY <2>1, <2>3 DEF SigsAtHead, LegPcs
<1>8. CASE CheckpointClaude
  <2>1. pc' = "pass" /\ UNCHANGED local /\ ctl'.sig = ctl.sig
    BY <1>3, <1>8 DEF CheckpointClaude, Ctl, passVars
  <2>2. ctl.sig["codex"].after = local
    BY <1>8 DEF CheckpointClaude, SigsAtHead
  <2> QED
    BY <2>1, <2>2 DEF SigsAtHead, LegPcs
<1>9. CASE ClearPass
  <2>1. /\ pc = "pass" /\ pc' = "open" /\ UNCHANGED local /\ ctl'.head = local
        /\ ctl'.leg = ctl.leg /\ ctl'.sig = ctl.sig
    BY <1>3, <1>4, <1>9 DEF ClearPass, Ctl, Refuse, Stop
  <2> QED
    BY <2>1 DEF SigsAtHead, LegPcs
<1>10. CASE OpenPass \/ HookEnds
  <2>1. /\ pc \in {"open", "hook"} /\ pc' \in {"hook", "inspect"}
        /\ ctl'.head = ctl.head /\ ctl'.leg = ctl.leg /\ ctl'.sig = ctl.sig
    BY <1>3, <1>4, <1>10 DEF OpenPass, HookEnds, Goto, Ctl, Refuse, Stop, LegTargets, LegPcs
  <2> QED
    BY <2>1 DEF SigsAtHead, LegPcs
<1>11. CASE InspectPass
  <2> DEFINE res == results[ctl.leg][ctl.round]
  <2>1. /\ pc = "inspect" /\ pc' = "attest" /\ UNCHANGED local
        /\ ctl' = [ctl EXCEPT !.sig[ctl.leg] = res]
        /\ res.after = local
    BY <1>4, <1>11 DEF InspectPass, ValidResult, Refuse, Stop, Goto, LegTargets, LegPcs, passVars
  <2> HIDE DEF res
  <2>2. /\ ctl'.head = ctl.head /\ ctl'.sig[ctl.leg] = res /\ ctl'.leg = ctl.leg
        /\ ctl.leg = "claude" => ctl'.sig["codex"] = ctl.sig["codex"]
    BY <1>3, <2>1 DEF Ctl, Engines
  <2> QED
    BY <2>1, <2>2 DEF SigsAtHead, LegPcs
<1>12. CASE AttestPass
  <2>1. pc = "attest" /\ pc' = "validate" /\ UNCHANGED <<local, ctl>>
    BY <1>4, <1>12 DEF AttestPass, Refuse, Stop, Goto, passVars
  <2> QED
    BY <2>1 DEF SigsAtHead, LegPcs
<1>13. CASE ValidatePass
  <2>1. /\ pc = "validate" /\ UNCHANGED <<local, ctl>>
        /\ \/ pc' = "toClaude" /\ ctl.leg = "codex"
           \/ pc' = "decide" /\ ctl.leg = "claude"
    BY <1>3, <1>4, <1>13 DEF ValidatePass, Boundary, Refuse, Stop, Goto, LegTargets, LegPcs,
       Engines
  <2>2. ctl.sig[ctl.leg].before = ctl.head
    BY <2>1 DEF RoundInv, SigsKnown
  <2> QED
    BY <2>1, <2>2 DEF SigsAtHead, LegPcs
<1> QED
  BY <1>5, <1>6, <1>7, <1>8, <1>9, <1>10, <1>11, <1>12, <1>13 DEF LegStep

LEMMA LinkedStep ==
    ASSUME TypeOK, RoundInv, SigsAtHead, Linked, [Next]_vars
    PROVE  Linked'
<1>1. CASE UNCHANGED attests
  BY <1>1 DEF Linked
<1>2. CASE ~UNCHANGED attests
  <2> DEFINE s == ctl.sig[ctl.leg]
  <2>1. attests' = attests \cup {s} /\ pc = "attest"
    BY <1>2, AttestMoves
  <2>2. s.engine = ctl.leg /\ s.round = ctl.round /\ s.before = ctl.head
    BY <2>1 DEF RoundInv, SigsKnown, Fits
  <2>3. ctl.leg = "claude" => /\ ctl.sig["codex"] \in attests
                              /\ ctl.sig["codex"].engine = "codex"
                              /\ ctl.sig["codex"].round = ctl.round
                              /\ ctl.sig["codex"].after = ctl.head
    BY <2>1 DEF RoundInv, SigsKnown, SigsAtHead, LegPcs, Accepted, Fits
  <2> HIDE DEF s
  <2> QED
    BY <2>1, <2>2, <2>3 DEF Linked
<1> QED
  BY <1>1, <1>2

LEMMA HeadsAgreeStep ==
    ASSUME IInv, Attended, HeadsAgree, [Next]_vars
    PROVE  HeadsAgree'
<1> USE DEF IInv, LateTargets
<1>1. CASE pc' \notin LateTargets
  BY <1>1 DEF HeadsAgree
<1> SUFFICES ASSUME pc' \in LateTargets PROVE HeadsAgree'
  BY <1>1
<1> USE DEF Refuse, Stop, Goto
<1>2. ctl \in Ctl
  BY DEF TypeOK
<1>3. CASE UNCHANGED <<pc, ctl, runState>>
  BY <1>3, AttendedMoves DEF HeadsAgree, MergeBase
<1>4. CASE Decide
  <2>1. /\ pc' = "final" /\ UNCHANGED <<ctl, local>> /\ pc = "decide"
        /\ runState' = ToConverged(runState, ctl.round, ctl.base, local,
                                   ctl.sig["codex"], ctl.sig["claude"])
    BY <1>4 DEF Decide, NextRound, passVars
  <2>2. ~ctl.ready
    BY <2>1 DEF Control, DraftKnown, ReadyPcs
  <2> QED
    BY <2>1, <2>2, ConvergedWrite DEF HeadsAgree
<1>5. CASE FinalChecks \/ MarkReady \/ VerifyReady \/ RestoreDraft
  BY <1>5 DEF FinalChecks, MarkReady, VerifyReady, RestoreDraft, HeadsAgree, passVars, world
<1>6. CASE FinalizeChecks
  <2>1. /\ pc = "finalize" /\ pc' = "checkpoint" /\ UNCHANGED <<local, runState>>
        /\ ctl'.head = local
    BY <1>2, <1>6 DEF FinalizeChecks, passVars, Ctl
  <2> QED
    BY <2>1 DEF HeadsAgree
<1>7. CASE CheckpointFinalizing
  <2>1. /\ pc = "checkpoint" /\ pc' = "ready" /\ UNCHANGED <<ctl, local>>
        /\ runState' = ToPhase(runState, "finalizing", ctl.round, ctl.base, ctl.head)
    BY <1>7 DEF CheckpointFinalizing, passVars
  <2> QED
    BY <2>1, PhaseWrite DEF HeadsAgree
<1>8. CASE RecordFails
  <2>1. /\ pc = "record" /\ pc' = "rollbackRecord" /\ UNCHANGED <<ctl, local>>
        /\ \/ UNCHANGED runState
           \/ runState' = ToPhase(runState, "finalized", ctl.round, ctl.base, ctl.head)
    BY <1>8 DEF RecordFails, Finalized, passVars
  <2> QED
    BY <2>1, PhaseWrite DEF HeadsAgree
<1>9. CASE ResumeBoundary
  <2>1. /\ pc' = "recovered" /\ UNCHANGED <<ctl, local, runState>>
        /\ runState.phase \in LatePhases /\ ~Drifted
    BY <1>9 DEF ResumeBoundary, passVars, Boundary
  <2> QED
    BY <2>1 DEF HeadsAgree, Drifted
<1>10. CASE RecoverConverged
  <2>1. /\ pc = "recovered" /\ pc' = "final" /\ UNCHANGED <<local, runState>>
        /\ ctl' = RecoveredCtl
    BY <1>10 DEF RecoverConverged, passVars
  <2> QED
    BY <2>1, RecoveredWrite DEF HeadsAgree
<1> QED
  BY <1>3, <1>4, <1>5, <1>6, <1>7, <1>8, <1>9, <1>10, LateMoves

LEMMA NoGapStep ==
    ASSUME IInv, RoundInv, SigsAtHead, HeadsAgree, WholeRoundReviewed, [Next]_vars
    PROVE  WholeRoundReviewed'
<1> USE DEF IInv
<1> SUFFICES ASSUME runState'.phase \in LatePhases PROVE WholeRoundReviewed'
  BY DEF WholeRoundReviewed
<1>1. WholeRoundAttested'
  BY WholeRoundStep DEF RoundInv
<1>2. SUFFICES /\ runState'.codex.after = runState'.claude.before
               /\ runState'.claude.after = runState'.head
  BY <1>1 DEF WholeRoundAttested, WholeRoundReviewed
<1>3. CASE UNCHANGED runState
  BY <1>3 DEF WholeRoundReviewed
<1>4. CASE /\ pc = "decide" /\ runState'.head = local
           /\ runState'.codex = ctl.sig["codex"] /\ runState'.claude = ctl.sig["claude"]
  BY <1>4 DEF SigsAtHead
<1>5. CASE /\ runState.phase \in LatePhases
           /\ pc \in {"checkpoint", "record", "unrecord"} /\ runState'.head = ctl.head
           /\ runState'.codex = runState.codex /\ runState'.claude = runState.claude
  BY <1>5 DEF HeadsAgree, LateTargets, WholeRoundReviewed
<1> QED
  BY <1>3, <1>4, <1>5, LateWrites DEF RoundInv

NoGapInv == Attended /\ SigsAtHead /\ Linked /\ HeadsAgree /\ WholeRoundReviewed

LEMMA NoGapInit == Init => NoGapInv
  BY RunInit DEF Init, NoCtl, CreateRunState, NoGapInv, SigsAtHead, Linked, HeadsAgree,
     LateTargets, LegPcs, WholeRoundReviewed, LatePhases

(* A checkpoint that claims convergence rests on one whole attested round  *)
(* with no commit in between, up to the recorded head, over every crash,   *)
(* resume, replay and head drift, as long as no review process outlives    *)
(* its wrapper.                                                            *)
THEOREM RoundWasReviewed == ASSUME WrapperNotKilled PROVE Spec => []WholeRoundReviewed
<1>1. IInv /\ RoundInv /\ NoGapInv /\ [Next]_vars => NoGapInv'
  <2> SUFFICES ASSUME IInv, RoundInv, NoGapInv, [Next]_vars PROVE NoGapInv'
    OBVIOUS
  <2> QED
    BY AttendedStep, SigsAtHeadStep, LinkedStep, HeadsAgreeStep, NoGapStep DEF IInv, NoGapInv
<1>2. NoGapInv => WholeRoundReviewed
  BY DEF NoGapInv
<1> QED
  BY Invariance, RoundInvariance, NoGapInit, <1>1, <1>2, PTL DEF Spec
===============================================================================
