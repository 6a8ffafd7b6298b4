------------------------------ MODULE Toolbox ------------------------------
(***************************************************************************)
(* The programs of this repository that run on their own, beside the loop: *)
(* each has its own state and shares none with the others, so one          *)
(* behaviour is a behaviour of one of them, and "tool" says of which.      *)
(***************************************************************************)
EXTENDS SyncEngine, SyncTemplate, SyncPublish, SignedPayload, WorkerRun,
        ReviewRelay, Release, IssueLinks, ReadyQueue

VARIABLE tool   \* the program that runs

Tool == {"sync", "template", "publish", "payload", "worker", "relay", "release", "links", "ready"}

toolboxVars == <<tool, syncVars, templateVars, publishVars, payloadVars, workerVars,
                 relayVars, releaseVars, linkVars, readyVars>>

ToolboxInit ==
    /\ tool \in Tool
    /\ SyncInit /\ TemplateInit /\ PublishInit /\ PayloadInit /\ WorkerInit
    /\ RelayInit /\ ReleaseInit /\ LinkInit /\ ReadyInit

-----------------------------------------------------------------------------
(* The programs that do not run stay as they are.                          *)
Idle1 == UNCHANGED <<tool, syncVars, templateVars, publishVars, payloadVars>>
Idle2 == UNCHANGED <<tool, workerVars, relayVars, releaseVars, linkVars, readyVars>>

UseSync == tool = "sync" /\ SyncNext /\ Idle2
           /\ UNCHANGED <<templateVars, publishVars, payloadVars>>
UseTemplate == tool = "template" /\ TemplateNext /\ Idle2
               /\ UNCHANGED <<syncVars, publishVars, payloadVars>>
UsePayload == tool = "payload" /\ PayloadNext /\ Idle2
              /\ UNCHANGED <<syncVars, templateVars, publishVars>>
Publishing(A) == tool = "publish" /\ A /\ Idle2
                 /\ UNCHANGED <<syncVars, templateVars, payloadVars>>
Working(A) == tool = "worker" /\ A /\ Idle1
              /\ UNCHANGED <<relayVars, releaseVars, linkVars, readyVars>>
UseRelay == tool = "relay" /\ RelayNext /\ Idle1
            /\ UNCHANGED <<workerVars, releaseVars, linkVars, readyVars>>
UseRelease == tool = "release" /\ ReleaseNext /\ Idle1
              /\ UNCHANGED <<workerVars, relayVars, linkVars, readyVars>>
Linking(A) == tool = "links" /\ A /\ Idle1
              /\ UNCHANGED <<workerVars, relayVars, releaseVars, readyVars>>
UseReady == tool = "ready" /\ ReadyNext /\ Idle1
            /\ UNCHANGED <<workerVars, relayVars, releaseVars, linkVars>>

UsePublish == Publishing(PublishNext)
UseWorker == Working(WorkerNext)
UseLinks == Linking(LinkNext)

ToolboxNext ==
    \/ UseSync \/ UseTemplate \/ UsePayload \/ UsePublish \/ UseWorker
    \/ UseRelay \/ UseRelease \/ UseLinks \/ UseReady

(* The schedule starts a job every day and a job's steps follow each other; *)
(* the supervisor is a live process, and the deadlines of its waits pass;   *)
(* a link run that failed is repeated, as its message asks.                 *)
ToolboxFairness ==
    /\ WF_toolboxVars(Publishing(PublishStep))
    /\ WF_toolboxVars(Working(SupervisorStep)) /\ WF_toolboxVars(Working(DeadlinePasses))
    /\ \A l \in Linker : WF_toolboxVars(Linking(LinkStep(l)))

ToolboxSpec == ToolboxInit /\ [][ToolboxNext]_toolboxVars /\ ToolboxFairness

-----------------------------------------------------------------------------
(* The state of each program stays within its type, whatever it did.       *)
ToolboxTypeOK ==
    /\ tool \in Tool
    /\ SyncTypeOK /\ PublishTypeOK /\ PayloadTypeOK /\ WorkerTypeOK
    /\ RelayTypeOK /\ ReleaseTypeOK /\ LinkTypeOK /\ ReadyTypeOK
=============================================================================
