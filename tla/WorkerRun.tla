------------------------------ MODULE WorkerRun ------------------------------
(***************************************************************************)
(* The attempts of one worker hook: run_worker of agent-loop.sh, which     *)
(* starts each attempt under process-supervisor.py and decides from the    *)
(* status whether to start another one, and the supervisor itself, which   *)
(* owns every descendant of the hook as their subreaper.                   *)
(*                                                                         *)
(* A process that has ended is gone: the reaping of zombies is left out.   *)
(* "far" is a process in a session of its own, which a signal to the       *)
(* hook's group does not reach; "deaf" ignores SIGTERM; "stuck" sits in    *)
(* the kernel and outlives SIGKILL until it is released; "mute" has closed *)
(* the hook's output, so the pipe to the log does not wait for it.         *)
(***************************************************************************)
EXTENDS Integers, FiniteSets

CONSTANTS Proc, Hook,       \* the processes; the one the supervisor starts
          WorkerRetries     \* WORKER_RETRIES
ASSUME WorkerAssumption == Hook \in Proc /\ WorkerRetries \in Nat

VARIABLES proc,        \* what each process is, and the attempt it belongs to
          supervisor,  \* the supervisor of the current attempt
          worker       \* run_worker

workerVars == <<proc, supervisor, worker>>

Trait == {"far", "deaf", "stuck", "mute"}
Codes == {"0", "1", "137"}
Gone == [live |-> FALSE, attempt |-> 0, traits |-> {}]
Live == {p \in Proc : proc[p].live}
Mine == {p \in Live : proc[p].attempt = worker.attempt}
HasTrait(p, t) == t \in proc[p].traits

(* "broken" is the exception for a hook that survived SIGKILL, which is    *)
(* raised past the status at the end of main and leaves as status 1.       *)
Fresh == [phase |-> "off", signalled |-> FALSE, timedOut |-> FALSE, broken |-> FALSE,
          failed |-> FALSE, seen |-> {}, code |-> "0", status |-> "none"]

WorkerInit ==
    /\ proc = [p \in Proc |-> Gone] /\ supervisor = Fresh
    /\ worker = [attempt |-> 0, state |-> "ready", dirty |-> FALSE, escaped |-> FALSE]

SupervisorWaits == supervisor.phase \in {"wait", "term", "kill"}
Cleaning == supervisor.phase \in {"cleanTerm", "cleanKill"}

(* Every process of S that a signal ends is gone; the others live on.      *)
Struck(S, deadly) ==
    [p \in Proc |-> IF p \in S /\ ~HasTrait(p, "stuck") /\ (deadly \/ ~HasTrait(p, "deaf"))
                    THEN Gone ELSE proc[p]]
Group == {p \in Mine : ~HasTrait(p, "far")}

-----------------------------------------------------------------------------
(* run_worker starts the next attempt.                                     *)
StartAttempt ==
    /\ worker.state = "ready"
    /\ worker' = [worker EXCEPT !.attempt = @ + 1, !.state = "running"]
    /\ supervisor' = [Fresh EXCEPT !.phase = "wait"]
    /\ \E T \in SUBSET (Trait \ {"far"}) :
         proc' = [proc EXCEPT ![Hook] =
                      [live |-> TRUE, attempt |-> worker.attempt + 1, traits |-> T]]

(* The hook and its descendants: they start others, get out of the kernel, *)
(* write to the worktree, and end.                                         *)
Fork ==
    /\ \E p \in Live, q \in Proc \ (Live \cup {Hook}), T \in SUBSET Trait :
         /\ ~HasTrait(p, "stuck") /\ proc[p].traits \cap {"far", "mute"} \subseteq T
         /\ proc' = [proc EXCEPT ![q] = [live |-> TRUE, attempt |-> proc[p].attempt, traits |-> T]]
    /\ UNCHANGED <<supervisor, worker>>

Unstick ==
    /\ \E p \in Live : /\ HasTrait(p, "stuck")
                       /\ proc' = [proc EXCEPT ![p].traits = @ \ {"stuck"}]
    /\ UNCHANGED <<supervisor, worker>>

WriteWorktree ==
    /\ \E p \in Live : ~HasTrait(p, "stuck")
    /\ worker' = [worker EXCEPT !.dirty = TRUE] /\ UNCHANGED <<proc, supervisor>>

ProcessEnds ==
    /\ \E p \in Live, c \in Codes :
         /\ ~HasTrait(p, "stuck") /\ proc' = [proc EXCEPT ![p] = Gone]
         /\ IF p = Hook /\ SupervisorWaits THEN supervisor' = [supervisor EXCEPT !.code = c]
            ELSE UNCHANGED supervisor /\ c = "0"
    /\ UNCHANGED worker

-----------------------------------------------------------------------------
(* child.wait returns; only the first wait's result becomes the status.    *)
NoticeExit ==
    /\ SupervisorWaits /\ Hook \notin Live
    /\ supervisor' = [supervisor EXCEPT !.phase = "cleanTerm"] /\ UNCHANGED <<proc, worker>>

DeadlinePasses_NoBudget ==                                         \* mutant
    /\ \/ /\ supervisor.phase = "wait" /\ Hook \in Live
          /\ supervisor' = [supervisor EXCEPT !.phase = "term", !.timedOut = TRUE]
          /\ proc' = Struck(Group, FALSE)
       \/ /\ supervisor.phase = "term" /\ Hook \in Live
          /\ supervisor' = [supervisor EXCEPT !.phase = "kill"] /\ proc' = Struck(Group, TRUE)
       \/ /\ supervisor.phase \in {"kill", "cleanTerm"} /\ UNCHANGED proc
          /\ supervisor' = [supervisor EXCEPT !.phase = "cleanKill", !.seen = {}]
    /\ UNCHANGED worker

(* The timeout, the grace period after SIGTERM, the one after SIGKILL, and *)
(* the two budgets of _cleanup run out.                                    *)
DeadlinePasses ==
    /\ \/ /\ supervisor.phase = "wait" /\ Hook \in Live
          /\ supervisor' = [supervisor EXCEPT !.phase = "term", !.timedOut = TRUE]
          /\ proc' = Struck(Group, FALSE)
       \/ /\ supervisor.phase = "term" /\ Hook \in Live
          /\ supervisor' = [supervisor EXCEPT !.phase = "kill"]
          /\ proc' = Struck(Group, TRUE)
       \/ /\ supervisor.phase = "kill" /\ Hook \in Live
          /\ supervisor' = [supervisor EXCEPT !.phase = "cleanTerm", !.broken = TRUE]
          /\ UNCHANGED proc
       \/ /\ supervisor.phase = "cleanTerm"
          /\ supervisor' = [supervisor EXCEPT !.phase = "cleanKill", !.seen = {}]
          /\ UNCHANGED proc
       \/ /\ supervisor.phase = "cleanKill"
          /\ supervisor' = [supervisor EXCEPT !.phase = "exit", !.failed = TRUE]
          /\ UNCHANGED proc
    /\ UNCHANGED worker

(* The first SIGTERM, SIGHUP or SIGINT ends the wait; during the cleanup   *)
(* it is only remembered.                                                  *)
SignalArrives ==
    /\ ~supervisor.signalled /\ (SupervisorWaits \/ Cleaning)
    /\ supervisor' = [supervisor EXCEPT !.signalled = TRUE,
                                        !.phase = IF SupervisorWaits THEN "cleanTerm" ELSE @]
    /\ proc' = IF SupervisorWaits /\ Hook \in Live THEN Struck(Group, FALSE) ELSE proc
    /\ UNCHANGED worker

(* _cleanup reads its descendants, then signals those it has read; what    *)
(* they start in between is found by the next round.                       *)
ScanDescendants ==
    /\ Cleaning /\ supervisor.seen = {}
    /\ supervisor' = IF Mine = {} THEN [supervisor EXCEPT !.phase = "exit"]
                     ELSE [supervisor EXCEPT !.seen = Mine]
    /\ UNCHANGED <<proc, worker>>

StrikeDescendants ==
    /\ Cleaning /\ supervisor.seen # {}
    /\ supervisor' = [supervisor EXCEPT !.seen = {}]
    /\ proc' = Struck(supervisor.seen \cap Mine, supervisor.phase = "cleanKill")
    /\ UNCHANGED worker

ExitStatus_TimeoutFirst(s) ==                                      \* mutant
    IF s.signalled THEN "signal" ELSE IF s.timedOut THEN "124"
    ELSE IF s.broken THEN "broken" ELSE IF s.failed THEN "125" ELSE s.code

(* The status: a failed cleanup comes before every ordinary one.           *)
ExitStatus(s) ==
    IF s.broken THEN "broken" ELSE IF s.failed THEN "125"
    ELSE IF s.signalled THEN "signal" ELSE IF s.timedOut THEN "124" ELSE s.code

SupervisorExits ==
    /\ supervisor.phase = "exit"
    /\ LET status == ExitStatus(supervisor) IN
         /\ supervisor' = [Fresh EXCEPT !.phase = "done", !.status = status]
         /\ worker' = [worker EXCEPT !.escaped = @ \/ status \in {"broken", "125"}]
    /\ UNCHANGED proc

(* The supervisor is killed: the shell sees 137, the processes live on.    *)
SupervisorKilled ==
    /\ SupervisorWaits \/ Cleaning
    /\ supervisor' = [Fresh EXCEPT !.phase = "done", !.status = "137"]
    /\ worker' = [worker EXCEPT !.escaped = TRUE] /\ UNCHANGED proc

-----------------------------------------------------------------------------
AttemptsLeft_OneMore == worker.attempt <= WorkerRetries + 1        \* mutant
AttemptsLeft == worker.attempt <= WorkerRetries

(* run_worker reads the status once the pipe of the output is closed.  It  *)
(* stops when Git's configuration changed or the worktree has work, and    *)
(* retries a timeout, or a failure whose log names a lack of capacity.     *)
DecideRetry ==
    /\ worker.state = "running" /\ supervisor.phase = "done"
    /\ \A p \in Mine : HasTrait(p, "mute")
    /\ \E tampered, capacity \in BOOLEAN :
         LET status == supervisor.status
             retry == ~tampered /\ ~worker.dirty /\ AttemptsLeft
                        /\ (status \in {"124", "137"} \/ capacity)
         IN worker' = [worker EXCEPT !.state =
                         IF status = "0" /\ ~tampered THEN "succeeded"
                         ELSE IF retry THEN "ready" ELSE "stopped"]
    /\ UNCHANGED <<proc, supervisor>>

SupervisorStep == NoticeExit \/ ScanDescendants \/ StrikeDescendants \/ SupervisorExits

WorkerNext ==
    \/ StartAttempt \/ Fork \/ Unstick \/ WriteWorktree \/ ProcessEnds
    \/ SupervisorStep \/ DeadlinePasses \/ SignalArrives \/ SupervisorKilled \/ DecideRetry

WorkerSpec == WorkerInit /\ [][WorkerNext]_workerVars

-----------------------------------------------------------------------------
ProcType == [live : BOOLEAN, attempt : 0..(WorkerRetries + 1), traits : SUBSET Trait]
SupervisorType ==
    [phase : {"off", "wait", "term", "kill", "cleanTerm", "cleanKill", "exit", "done"},
     signalled : BOOLEAN, timedOut : BOOLEAN, broken : BOOLEAN, failed : BOOLEAN,
     seen : SUBSET Proc, code : Codes,
     status : Codes \cup {"none", "broken", "125", "signal", "124"}]
WorkerType == [attempt : 0..(WorkerRetries + 1), dirty : BOOLEAN, escaped : BOOLEAN,
               state : {"ready", "running", "succeeded", "stopped"}]

WorkerTypeOK ==
    /\ proc \in [Proc -> ProcType]
    /\ supervisor \in SupervisorType /\ worker \in WorkerType

(* An attempt never runs beside a process of an earlier one, unless an     *)
(* earlier supervisor was killed itself or reported, by 125 or its own     *)
(* failure, that something survived it ("returning 124 would tell          *)
(* agent-loop to start a replacement worker in a worktree the timed-out    *)
(* process may still be mutating").                                        *)
RetryRunsAlone ==
    \A p \in Live : proc[p].attempt < worker.attempt => worker.escaped

(* The supervisor ends whatever the processes do: each of its waits has a  *)
(* deadline, and those it cannot kill do not hold it.                      *)
SupervisorEnds == SupervisorWaits ~> supervisor.phase = "done"
=============================================================================
