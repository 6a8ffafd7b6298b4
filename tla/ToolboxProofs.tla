---------------------------- MODULE ToolboxProofs ----------------------------
(***************************************************************************)
(* Proofs about the programs together: a behaviour of the toolbox is, for  *)
(* each program, a behaviour of it alone, so what is proved of the program *)
(* holds of the toolbox.                                                   *)
(***************************************************************************)
EXTENDS Toolbox, SyncEngineProofs, PublicationProofs, WorkerRunProofs, ReviewRelayProofs,
        IssuesProofs

EveryProgram ==
    /\ SyncSpec /\ TemplateSpec /\ PublishSpec /\ PayloadSpec /\ WorkerSpec
    /\ RelaySpec /\ ReleaseSpec /\ LinkSpec /\ ReadySpec

-----------------------------------------------------------------------------
(* What a step of one program leaves alone.                                *)
LEMMA FirstIdle ==
    ASSUME Idle1
    PROVE  tool' = tool /\ UNCHANGED syncVars /\ UNCHANGED templateVars
           /\ UNCHANGED publishVars /\ UNCHANGED payloadVars
  BY DEF Idle1

LEMMA SecondIdle ==
    ASSUME Idle2
    PROVE  tool' = tool /\ UNCHANGED workerVars /\ UNCHANGED relayVars
           /\ UNCHANGED releaseVars /\ UNCHANGED linkVars /\ UNCHANGED readyVars
  BY DEF Idle2

LEMMA SyncSteps ==
    [ToolboxNext]_toolboxVars =>
        /\ tool' = tool
        /\ [SyncNext]_syncVars /\ [TemplateNext]_templateVars /\ [PublishNext]_publishVars
        /\ [PayloadNext]_payloadVars
  <1> SUFFICES ASSUME [ToolboxNext]_toolboxVars
               PROVE  /\ tool' = tool
                      /\ [SyncNext]_syncVars /\ [TemplateNext]_templateVars
                      /\ [PublishNext]_publishVars /\ [PayloadNext]_payloadVars
    OBVIOUS
  <1>1. CASE UNCHANGED toolboxVars
    BY <1>1 DEF toolboxVars
  <1>2. CASE UseSync
    BY <1>2, SecondIdle DEF UseSync
  <1>3. CASE UseTemplate
    BY <1>3, SecondIdle DEF UseTemplate
  <1>4. CASE UsePayload
    BY <1>4, SecondIdle DEF UsePayload
  <1>5. CASE UsePublish
    BY <1>5, SecondIdle DEF UsePublish, Publishing
  <1>6. CASE UseWorker \/ UseRelay \/ UseRelease \/ UseLinks \/ UseReady
    BY <1>6, FirstIdle DEF UseWorker, Working, UseRelay, UseRelease, UseLinks, Linking, UseReady
  <1> QED
    BY <1>1, <1>2, <1>3, <1>4, <1>5, <1>6 DEF ToolboxNext

LEMMA OtherSteps ==
    [ToolboxNext]_toolboxVars =>
        /\ [WorkerNext]_workerVars /\ [RelayNext]_relayVars /\ [ReleaseNext]_releaseVars
        /\ [LinkNext]_linkVars /\ [ReadyNext]_readyVars
  <1> SUFFICES ASSUME [ToolboxNext]_toolboxVars
               PROVE  /\ [WorkerNext]_workerVars /\ [RelayNext]_relayVars
                      /\ [ReleaseNext]_releaseVars /\ [LinkNext]_linkVars /\ [ReadyNext]_readyVars
    OBVIOUS
  <1>1. CASE UNCHANGED toolboxVars
    BY <1>1 DEF toolboxVars
  <1>2. CASE UseSync \/ UseTemplate \/ UsePayload \/ UsePublish
    BY <1>2, SecondIdle DEF UseSync, UseTemplate, UsePayload, UsePublish, Publishing
  <1>3. CASE UseWorker
    BY <1>3 DEF UseWorker, Working
  <1>4. CASE UseRelay
    BY <1>4 DEF UseRelay
  <1>5. CASE UseRelease
    BY <1>5 DEF UseRelease
  <1>6. CASE UseLinks
    BY <1>6 DEF UseLinks, Linking
  <1>7. CASE UseReady
    BY <1>7 DEF UseReady
  <1> QED
    BY <1>1, <1>2, <1>3, <1>4, <1>5, <1>6, <1>7 DEF ToolboxNext

-----------------------------------------------------------------------------
(* The programs share no state: what one does is a stutter of the others.  *)
THEOREM ToolboxIsItsPrograms == ToolboxSpec => EveryProgram
  <1>1. ToolboxInit => /\ SyncInit /\ TemplateInit /\ PublishInit /\ PayloadInit /\ WorkerInit
                       /\ RelayInit /\ ReleaseInit /\ LinkInit /\ ReadyInit
    BY DEF ToolboxInit
  <1> QED
    BY <1>1, SyncSteps, OtherSteps, PTL
       DEF ToolboxSpec, EveryProgram, SyncSpec, TemplateSpec, PublishSpec, PayloadSpec,
           WorkerSpec, RelaySpec, ReleaseSpec, LinkSpec, ReadySpec

(* The state of every program keeps its type, whichever runs.              *)
THEOREM ToolboxTypeCorrect == ToolboxSpec => []ToolboxTypeOK
  <1>1. ToolboxSpec => [](tool \in Tool)
    <2>1. ToolboxInit => tool \in Tool
      BY DEF ToolboxInit
    <2>2. tool \in Tool /\ [ToolboxNext]_toolboxVars => (tool \in Tool)'
      BY SyncSteps
    <2> QED
      BY <2>1, <2>2, PTL DEF ToolboxSpec
  <1>2. /\ tool \in Tool
        /\ SyncTypeOK /\ PublishTypeOK /\ PayloadTypeOK /\ WorkerTypeOK
        /\ RelayTypeOK /\ ReleaseTypeOK /\ LinkTypeOK /\ ReadyTypeOK
        => ToolboxTypeOK
    BY DEF ToolboxTypeOK
  <1> QED
    BY <1>1, <1>2, ToolboxIsItsPrograms, SyncTypeCorrect, PublishTypeCorrect, PayloadTypeCorrect,
       WorkerTypeCorrect, RelayTypeCorrect, ReleaseTypeCorrect, LinkTypeCorrect, ReadyTypeCorrect,
       PTL DEF EveryProgram

(* Every invariant and action property that is checked of a program in the *)
(* toolbox.                                                                *)
THEOREM ToolboxKeepsPromises ==
    ToolboxSpec =>
      /\ []RefusalLeavesTree /\ []CompletedRunConverges /\ ConsentRespected
      /\ []CollapseIsClean
      /\ MarkGoesBackOnlyUnpinned /\ []PublishedAsRendered /\ []StaysAdmitted
      /\ []RetryRunsAlone /\ []OneVerifiedComment /\ []ChainBreaksOnlyByFork
      /\ []VerifiedIsTheRelease /\ []BlockedSideFirst /\ []ListIsTrue
  BY ToolboxIsItsPrograms, RefusalTouchesNothing, CompletedRunsConverge, ConsentIsRespected,
     CollapseStaysClean, ReplayGuardHolds, CommitIsAsRendered, CommitStaysAdmitted,
     RetriesRunAlone, OneCopyIsVerified, OnlyForksBreakTheChain, ReportedReleaseIsTheRelease,
     BlockedSideIsFirst, ReadyListIsTrue, PTL DEF EveryProgram
=============================================================================
