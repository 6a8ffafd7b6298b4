--------------------------- MODULE WorkerRunProofs ---------------------------
(***************************************************************************)
(* Proof that a retried worker hook runs alone, for any processes it may   *)
(* start and any number of retries.                                        *)
(***************************************************************************)
EXTENDS WorkerRun, TLAPS

(* When no supervisor runs, nothing of the attempt is left, or it escaped; *)
(* the same holds of a supervisor that leaves with an ordinary status.     *)
NothingLeft ==
    /\ supervisor.phase \in {"off", "done"} => Mine = {} \/ worker.escaped
    /\ supervisor.phase = "exit" => Mine = {} \/ supervisor.failed \/ supervisor.broken

(* The next attempt is begun only when no supervisor runs, and while there *)
(* are attempts left; no process is of an attempt to come.                 *)
AttemptsInOrder ==
    /\ worker.state = "ready" =>
         supervisor.phase \in {"off", "done"} /\ worker.attempt <= WorkerRetries
    /\ \A p \in Live : proc[p].attempt <= worker.attempt

WorkerInv == WorkerTypeOK /\ AttemptsInOrder /\ NothingLeft /\ RetryRunsAlone

(* A step in which every live process was live, of the same attempt.       *)
OnlyEnds == \A p \in Proc : proc'[p].live => proc[p].live /\ proc'[p].attempt = proc[p].attempt

-----------------------------------------------------------------------------
LEMMA GoneIsProcess == Gone \in ProcType /\ ~Gone.live
  BY WorkerAssumption DEF Gone, ProcType

(* A signal ends processes and changes no other.                           *)
LEMMA StruckEnds ==
    ASSUME NEW S, NEW deadly, proc \in [Proc -> ProcType], proc' = Struck(S, deadly)
    PROVE  proc' \in [Proc -> ProcType] /\ OnlyEnds
  BY GoneIsProcess DEF Struck, OnlyEnds

LEMMA WorkerInitInv == WorkerInit => WorkerInv
  <1> SUFFICES ASSUME WorkerInit PROVE WorkerInv
    OBVIOUS
  <1>1. Live = {} /\ proc \in [Proc -> ProcType]
    BY GoneIsProcess DEF WorkerInit, Live
  <1>2. WorkerTypeOK
    BY <1>1, WorkerAssumption DEF WorkerInit, WorkerTypeOK, ProcType, SupervisorType,
                                     WorkerType, Fresh, Codes
  <1> QED
    BY <1>1, <1>2, WorkerAssumption
       DEF WorkerInit, WorkerInv, AttemptsInOrder, NothingLeft, RetryRunsAlone, Mine, Fresh

(* Whatever ends processes, and leaves the attempt and what escaped alone, *)
(* keeps the order of the attempts and the solitude of the last one.       *)
LEMMA EndsKeep ==
    ASSUME WorkerInv, OnlyEnds, worker'.attempt = worker.attempt,
           worker.escaped => worker'.escaped
    PROVE  /\ \A p \in Live' : proc'[p].attempt <= worker'.attempt
           /\ RetryRunsAlone'
           /\ Mine = {} => Mine' = {}
  BY DEF WorkerInv, AttemptsInOrder, RetryRunsAlone, OnlyEnds, Live, Mine

-----------------------------------------------------------------------------
LEMMA StartStep == WorkerInv /\ StartAttempt => WorkerInv'
  <1> SUFFICES ASSUME WorkerInv, StartAttempt PROVE WorkerInv'
    OBVIOUS
  <1> USE DEF WorkerInv
  <1>1. PICK T \in SUBSET (Trait \ {"far"}) :
          proc' = [proc EXCEPT ![Hook] =
                     [live |-> TRUE, attempt |-> worker.attempt + 1, traits |-> T]]
    BY DEF StartAttempt
  <1>2. /\ worker.state = "ready" /\ worker.attempt \in 0..WorkerRetries
        /\ worker'.attempt = worker.attempt + 1 /\ worker'.escaped = worker.escaped
        /\ worker'.state = "running" /\ supervisor'.phase = "wait"
    BY WorkerAssumption DEF StartAttempt, WorkerTypeOK, WorkerType, AttemptsInOrder, Fresh
  <1>3. Live = {} \/ worker.escaped
    <2> SUFFICES ASSUME NEW p \in Live, ~worker.escaped PROVE FALSE
      OBVIOUS
    <2>1. p \notin Mine
      BY DEF AttemptsInOrder, NothingLeft, StartAttempt
    <2>2. proc[p].attempt < worker.attempt
      BY <2>1 DEF AttemptsInOrder, Mine, Live, WorkerTypeOK, ProcType, WorkerType
    <2> QED
      BY <2>2 DEF RetryRunsAlone
  <1>4. WorkerTypeOK'
    <2>1. proc' \in [Proc -> ProcType]
      BY <1>1, <1>2, WorkerAssumption DEF WorkerTypeOK, ProcType, SupervisorType, WorkerType
    <2>2. supervisor' \in SupervisorType
      BY DEF StartAttempt, Fresh, SupervisorType, Codes
    <2>3. worker' \in WorkerType
      <3>1. ASSUME NEW a \in 0..(WorkerRetries + 1),
                   worker' = [worker EXCEPT !.attempt = a, !.state = "running"]
            PROVE  worker' \in WorkerType
        BY <3>1 DEF WorkerTypeOK, WorkerType
      <3>2. worker.attempt + 1 \in 0..(WorkerRetries + 1)
        BY <1>2, WorkerAssumption
      <3> QED
        BY <3>1, <3>2 DEF StartAttempt
    <2> QED
      BY <2>1, <2>2, <2>3 DEF WorkerTypeOK
  <1>5. \A p \in Live' : p = Hook \/ (p \in Live /\ proc'[p] = proc[p])
    <2> SUFFICES ASSUME NEW p \in Live', p # Hook PROVE p \in Live /\ proc'[p] = proc[p]
      OBVIOUS
    <2>1. p \in Proc /\ proc'[p].live
      BY DEF Live
    <2>2. proc'[p] = proc[p]
      BY <1>1, <2>1 DEF WorkerTypeOK
    <2> QED
      BY <2>1, <2>2 DEF Live
  <1>6. proc'[Hook].attempt = worker'.attempt
    BY <1>1, <1>2, WorkerAssumption DEF WorkerTypeOK, ProcType, SupervisorType, WorkerType
  <1>7. \A p \in Live' : proc'[p].attempt <= worker'.attempt
    BY <1>2, <1>5, <1>6 DEF AttemptsInOrder, Live, WorkerTypeOK, ProcType, WorkerType
  <1>8. RetryRunsAlone'
    BY <1>2, <1>3, <1>5, <1>6 DEF RetryRunsAlone, WorkerTypeOK, ProcType, SupervisorType, WorkerType
  <1> QED
    BY <1>2, <1>4, <1>7, <1>8 DEF AttemptsInOrder, NothingLeft

LEMMA ForkStep == WorkerInv /\ Fork => WorkerInv'
  <1> SUFFICES ASSUME WorkerInv, Fork PROVE WorkerInv'
    OBVIOUS
  <1> USE DEF WorkerInv
  <1>1. PICK p \in Live, q \in Proc \ (Live \cup {Hook}), T \in SUBSET Trait :
          proc' = [proc EXCEPT ![q] = [live |-> TRUE, attempt |-> proc[p].attempt, traits |-> T]]
    BY DEF Fork
  <1>2. proc' \in [Proc -> ProcType] /\ UNCHANGED <<supervisor, worker>>
    BY <1>1 DEF Fork, WorkerTypeOK, ProcType, SupervisorType, WorkerType, Live
  <1>3. \A r \in Live' : \E o \in Live : proc'[r].attempt = proc[o].attempt
    BY <1>1 DEF Live, WorkerTypeOK, ProcType, SupervisorType, WorkerType
  <1>4. Mine = {} => Mine' = {}
    BY <1>2, <1>3 DEF Mine
  <1>5. WorkerTypeOK'
    BY <1>2 DEF WorkerTypeOK, ProcType, SupervisorType, WorkerType
  <1> QED
    BY <1>2, <1>3, <1>4, <1>5 DEF AttemptsInOrder, NothingLeft, RetryRunsAlone

(* The steps of the processes that start nothing.                          *)
LEMMA ProcessStep == WorkerInv /\ (Unstick \/ WriteWorktree \/ ProcessEnds) => WorkerInv'
  <1> SUFFICES ASSUME WorkerInv, Unstick \/ WriteWorktree \/ ProcessEnds PROVE WorkerInv'
    OBVIOUS
  <1> USE DEF WorkerInv
  <1>1. proc' \in [Proc -> ProcType] /\ OnlyEnds
    BY GoneIsProcess DEF Unstick, WriteWorktree, ProcessEnds, OnlyEnds, WorkerTypeOK,
                         ProcType, Live
  <1>2. /\ supervisor' = supervisor
           \/ \E c \in Codes : supervisor' = [supervisor EXCEPT !.code = c]
        /\ worker' = worker \/ worker' = [worker EXCEPT !.dirty = TRUE]
    BY DEF Unstick, WriteWorktree, ProcessEnds
  <1>3. /\ supervisor'.phase = supervisor.phase /\ supervisor'.failed = supervisor.failed
        /\ supervisor'.broken = supervisor.broken /\ worker'.state = worker.state
        /\ worker'.attempt = worker.attempt /\ worker'.escaped = worker.escaped
    BY <1>2 DEF WorkerTypeOK, ProcType, SupervisorType, WorkerType
  <1>4. WorkerTypeOK'
    BY <1>1, <1>2 DEF WorkerTypeOK, ProcType, SupervisorType, WorkerType
  <1> QED
    BY <1>1, <1>3, <1>4, EndsKeep DEF AttemptsInOrder, NothingLeft

(* The steps of a running supervisor: none gives "off" or "done", and each *)
(* that gives "exit" finds nothing left, or says that it failed.           *)
LEMMA SupervisionStep ==
    WorkerInv /\ (NoticeExit \/ DeadlinePasses \/ SignalArrives \/ ScanDescendants
                  \/ StrikeDescendants) => WorkerInv'
  <1> SUFFICES ASSUME WorkerInv, NoticeExit \/ DeadlinePasses \/ SignalArrives
                                   \/ ScanDescendants \/ StrikeDescendants
               PROVE  WorkerInv'
    OBVIOUS
  <1> USE DEF WorkerInv
  <1>0. proc \in [Proc -> ProcType]
    BY DEF WorkerTypeOK, ProcType, SupervisorType, WorkerType
  <1>1. proc' = proc \/ \E S, deadly : proc' = Struck(S, deadly)
    BY DEF NoticeExit, DeadlinePasses, SignalArrives, ScanDescendants, StrikeDescendants
  <1>2. proc' \in [Proc -> ProcType] /\ OnlyEnds
    BY <1>0, <1>1, StruckEnds DEF OnlyEnds
  <1>3. worker' = worker /\ supervisor.phase \notin {"off", "done", "exit"}
    BY DEF NoticeExit, DeadlinePasses, SignalArrives, ScanDescendants, StrikeDescendants,
           SupervisorWaits, Cleaning
  <1>4. Mine \subseteq Proc
    BY DEF Mine, Live
  <1>5. supervisor' \in SupervisorType
    <2>1. CASE NoticeExit
      BY <2>1 DEF NoticeExit, WorkerTypeOK, SupervisorType
    <2>2. CASE DeadlinePasses
      BY <2>2 DEF DeadlinePasses, WorkerTypeOK, SupervisorType
    <2>3. CASE SignalArrives
      <3>1. \E x \in {"cleanTerm", supervisor.phase} :
              supervisor' = [supervisor EXCEPT !.signalled = TRUE, !.phase = x]
        BY <2>3 DEF SignalArrives
      <3> QED
        BY <3>1 DEF WorkerTypeOK, SupervisorType
    <2>4. CASE ScanDescendants
      BY <1>4, <2>4 DEF ScanDescendants, WorkerTypeOK, SupervisorType
    <2>5. CASE StrikeDescendants
      BY <2>5 DEF StrikeDescendants, WorkerTypeOK, SupervisorType
    <2> QED
      BY <2>1, <2>2, <2>3, <2>4, <2>5
  <1>6. WorkerTypeOK'
    BY <1>2, <1>3, <1>5 DEF WorkerTypeOK, ProcType, SupervisorType, WorkerType
  <1>7. /\ supervisor'.phase \notin {"off", "done"}
        /\ supervisor'.phase = "exit" => Mine = {} \/ supervisor'.failed
    BY <1>3 DEF NoticeExit, DeadlinePasses, SignalArrives, ScanDescendants, StrikeDescendants,
                WorkerTypeOK, ProcType, SupervisorType, WorkerType
  <1>8. worker.state # "ready"
    BY <1>3 DEF AttemptsInOrder
  <1> QED
    BY <1>2, <1>3, <1>6, <1>7, <1>8, EndsKeep DEF AttemptsInOrder, NothingLeft

(* The end of a supervisor, by itself or by a kill: an ordinary status is  *)
(* given only when nothing is left.                                        *)
LEMMA EndStep == WorkerInv /\ (SupervisorExits \/ SupervisorKilled) => WorkerInv'
  <1> SUFFICES ASSUME WorkerInv, SupervisorExits \/ SupervisorKilled PROVE WorkerInv'
    OBVIOUS
  <1> USE DEF WorkerInv
  <1>1. proc' = proc /\ supervisor'.phase = "done"
    BY DEF SupervisorExits, SupervisorKilled, Fresh
  <1>2. /\ worker'.attempt = worker.attempt /\ worker'.state = worker.state
        /\ worker'.dirty = worker.dirty
        /\ worker' \in WorkerType
        /\ worker.escaped => worker'.escaped
        /\ Mine = {} \/ worker'.escaped
    <2>1. CASE SupervisorKilled
      BY <2>1 DEF SupervisorKilled, WorkerTypeOK, ProcType, SupervisorType, WorkerType
    <2>2. CASE SupervisorExits
      <3>1. CASE supervisor.failed \/ supervisor.broken
        <4>1. ExitStatus(supervisor) \in {"broken", "125"}
          BY <3>1 DEF ExitStatus
        <4>2. worker' = [worker EXCEPT !.escaped = TRUE]
          BY <2>2, <4>1 DEF SupervisorExits, WorkerTypeOK, ProcType, SupervisorType, WorkerType
        <4> QED
          BY <4>2 DEF WorkerTypeOK, ProcType, SupervisorType, WorkerType
      <3>2. CASE ~(supervisor.failed \/ supervisor.broken)
        <4>1. Mine = {}
          BY <2>2, <3>2 DEF SupervisorExits, NothingLeft
        <4>2. ASSUME NEW e \in BOOLEAN, worker' = [worker EXCEPT !.escaped = @ \/ e]
              PROVE  worker' \in WorkerType
                     /\ worker'.attempt = worker.attempt /\ worker'.state = worker.state
                     /\ worker'.dirty = worker.dirty /\ (worker.escaped => worker'.escaped)
          BY <4>2 DEF WorkerTypeOK, ProcType, SupervisorType, WorkerType
        <4>3. worker' = [worker EXCEPT !.escaped =
                           @ \/ ExitStatus(supervisor) \in {"broken", "125"}]
          BY <2>2 DEF SupervisorExits
        <4>4. (ExitStatus(supervisor) \in {"broken", "125"}) \in BOOLEAN
          OBVIOUS
        <4> QED
          BY <4>1, <4>2, <4>3, <4>4
      <3> QED
        BY <3>1, <3>2
    <2> QED
      BY <2>1, <2>2
  <1>3. supervisor' \in SupervisorType
    <2>1. ExitStatus(supervisor) \in Codes \cup {"none", "broken", "125", "signal", "124"}
      BY DEF ExitStatus, WorkerTypeOK, ProcType, SupervisorType, WorkerType
    <2>2. \E s \in Codes \cup {"none", "broken", "125", "signal", "124"} :
            supervisor' = [Fresh EXCEPT !.phase = "done", !.status = s]
      BY <2>1 DEF SupervisorExits, SupervisorKilled, Codes
    <2> QED
      BY <2>2 DEF Fresh, Codes, SupervisorType
  <1>4. WorkerTypeOK'
    BY <1>1, <1>2, <1>3 DEF WorkerTypeOK, ProcType, SupervisorType, WorkerType
  <1>5. OnlyEnds
    BY <1>1 DEF OnlyEnds
  <1>6. worker'.state = "ready" => supervisor.phase \in {"off", "done"}
    BY <1>2 DEF AttemptsInOrder
  <1>7. supervisor.phase \notin {"off", "done"}
    BY DEF SupervisorExits, SupervisorKilled, SupervisorWaits, Cleaning
  <1> QED
    BY <1>1, <1>2, <1>4, <1>5, <1>6, <1>7, EndsKeep DEF AttemptsInOrder, NothingLeft

LEMMA DecideStep == WorkerInv /\ DecideRetry => WorkerInv'
  <1> SUFFICES ASSUME WorkerInv, DecideRetry PROVE WorkerInv'
    OBVIOUS
  <1> USE DEF WorkerInv
  <1>1. /\ UNCHANGED <<proc, supervisor>> /\ supervisor.phase = "done"
        /\ \E s \in {"ready", "succeeded", "stopped"} :
             worker' = [worker EXCEPT !.state = s] /\ (s = "ready" => AttemptsLeft)
    BY DEF DecideRetry
  <1>2. /\ worker'.attempt = worker.attempt /\ worker'.escaped = worker.escaped
        /\ worker'.state = "ready" => worker.attempt <= WorkerRetries
    BY <1>1 DEF WorkerTypeOK, ProcType, SupervisorType, WorkerType, AttemptsLeft
  <1>3. WorkerTypeOK'
    BY <1>1 DEF WorkerTypeOK, ProcType, SupervisorType, WorkerType
  <1>4. OnlyEnds
    BY <1>1 DEF OnlyEnds
  <1> QED
    BY <1>1, <1>2, <1>3, <1>4, EndsKeep DEF AttemptsInOrder, NothingLeft

-----------------------------------------------------------------------------
LEMMA WorkerInvStep == WorkerInv /\ [WorkerNext]_workerVars => WorkerInv'
  <1> SUFFICES ASSUME WorkerInv, [WorkerNext]_workerVars PROVE WorkerInv'
    OBVIOUS
  <1>1. CASE UNCHANGED workerVars
    BY <1>1 DEF workerVars, WorkerInv, WorkerTypeOK, AttemptsInOrder, NothingLeft,
                RetryRunsAlone, Live, Mine
  <1> QED
    BY <1>1, StartStep, ForkStep, ProcessStep, SupervisionStep, EndStep, DecideStep
       DEF WorkerNext, SupervisorStep

(* The processes, their supervisor and the worker keep their types, for    *)
(* any processes and any number of retries.                                *)
THEOREM WorkerTypeCorrect == WorkerSpec => []WorkerTypeOK
  <1>1. WorkerInv => WorkerTypeOK
    BY DEF WorkerInv
  <1> QED
    BY <1>1, WorkerInitInv, WorkerInvStep, PTL DEF WorkerSpec

(* For any processes and any number of retries, no attempt of a worker     *)
(* hook runs beside a process of an earlier one, unless that earlier       *)
(* supervisor was killed or said that something survived it.               *)
THEOREM RetriesRunAlone == WorkerSpec => []RetryRunsAlone
  <1>1. WorkerInv => RetryRunsAlone
    BY DEF WorkerInv
  <1> QED
    BY <1>1, WorkerInitInv, WorkerInvStep, PTL DEF WorkerSpec
=============================================================================
